---------------------------- MODULE ShmAccess_proofs ----------------------------
(***************************************************************************)
(* Proofs about ShmPool and about ShmAccess, which reads it, for any       *)
(* number of threads, buffers and external references, any sizes and any   *)
(* depth of nesting.                                                       *)
(***************************************************************************)
EXTENDS ShmAccess, FiniteSetTheorems, SequenceTheorems, TLAPS

-----------------------------------------------------------------------------
(* The pool.  Its properties are not inductive alone.  That the memory is  *)
(* mapped while it is used rests on what the internal references count;    *)
(* that buffers stay inside the mapping rests on a resize that was put off *)
(* not being one to a smaller size than the pool has; that cached pointers *)
(* stay valid rests on there being none without a reference.               *)

(* The pool's resource and every live buffer hold one reference each.      *)
InternalReferences ==
  internal_refcount = (IF pool = "live" THEN 1 ELSE 0) + Cardinality(LiveBuffers)

MappedWhileReferenced == mapped <=> internal_refcount + external_refcount > 0

NoCacheWithoutReference == external_refcount = 0 => cached = {}

IInv ==
  /\ TypeOK
  /\ InternalReferences /\ MappedWhileReferenced
  /\ size <= new_size
  /\ \A b \in LiveBuffers : extent[b] <= size
  /\ NoCacheWithoutReference
  /\ external_refcount > 0 => cached = {data}
  /\ DeferredResizeApplied

-----------------------------------------------------------------------------

LEMMA LiveBuffersFinite ==
  IsFiniteSet(LiveBuffers) /\ Cardinality(LiveBuffers) \in Nat
BY BuffersAssumption, FS_Subset, FS_CardinalityType DEF LiveBuffers

LEMMA InitInv == Init => IInv
<1> SUFFICES ASSUME Init PROVE IInv
  OBVIOUS
<1>1. LiveBuffers = {}
  BY DEF Init, LiveBuffers
<1>2. Cardinality(LiveBuffers) = 0
  BY <1>1, FS_EmptySet
<1>3. TypeOK
  <2>1. mapped \in BOOLEAN /\ resize_failed \in BOOLEAN /\ error \in BOOLEAN
    BY DEF Init
  <2>2. /\ pool \in {"live", "destroyed"}
        /\ buffer \in [Buffers -> {"unused", "live", "destroyed"}]
    BY DEF Init
  <2>3. /\ extent \in [Buffers -> 0..MaxSize]
        /\ internal_refcount \in Nat /\ external_refcount \in 0..MaxExternal
        /\ data \in Nat /\ size \in 1..MaxSize /\ new_size \in 1..MaxSize
        /\ cached \subseteq Nat
    BY SizesAssumption DEF Init
  <2>4. QED
    BY <2>1, <2>2, <2>3 DEF TypeOK
<1>4. InternalReferences /\ MappedWhileReferenced
  BY <1>2 DEF Init, InternalReferences, MappedWhileReferenced
<1>5. size <= new_size
  BY SizesAssumption DEF Init
<1>6. external_refcount = 0 /\ cached = {} /\ size = new_size
  BY DEF Init
<1>7. QED
  BY <1>1, <1>3, <1>4, <1>5, <1>6
     DEF IInv, NoCacheWithoutReference, DeferredResizeApplied

(* What a finished resize leaves behind, whether or not mremap succeeds.   *)
LEMMA FinishResizeEffect ==
  ASSUME IInv, NEW n \in 1..MaxSize, size <= n, FinishResize(n)
  PROVE  /\ data' \in Nat /\ size' \in 1..MaxSize /\ size' <= n /\ size <= size'
         /\ resize_failed' \in BOOLEAN /\ error' \in BOOLEAN
         /\ size' = n \/ resize_failed'
<1>1. /\ size \in 1..MaxSize /\ data \in Nat /\ MaxSize \in Nat
      /\ resize_failed \in BOOLEAN /\ error \in BOOLEAN
  BY SizesAssumption DEF IInv, TypeOK
<1>2. data' \in {data, data + 1} /\ size' \in {size, n}
  BY DEF FinishResize
<1>3. size' = n \/ resize_failed'
  BY DEF FinishResize
<1>4. resize_failed' \in BOOLEAN /\ error' \in BOOLEAN
  BY <1>1 DEF FinishResize
<1>5. data' \in Nat /\ size' \in 1..MaxSize /\ size' <= n /\ size <= size'
  BY <1>1, <1>2
<1>6. QED
  BY <1>3, <1>4, <1>5

LEMMA CreateBufferInv ==
  ASSUME IInv, NEW b \in Buffers, NEW end \in 1..MaxSize, shm_pool_create_buffer(b, end)
  PROVE  IInv'
<1>1. CASE end > size
  <2>1. LiveBuffers' = LiveBuffers
    BY <1>1 DEF shm_pool_create_buffer, LiveBuffers
  <2>2. QED
    BY <1>1, <2>1
       DEF shm_pool_create_buffer, sizeVars, IInv, TypeOK, InternalReferences,
           MappedWhileReferenced, NoCacheWithoutReference, DeferredResizeApplied
<1>2. CASE ~(end > size)
  <2>1. /\ LiveBuffers' = LiveBuffers \cup {b}
        /\ b \notin LiveBuffers
    BY <1>2 DEF shm_pool_create_buffer, LiveBuffers, IInv, TypeOK
  <2>2. Cardinality(LiveBuffers') = Cardinality(LiveBuffers) + 1
    BY <2>1, LiveBuffersFinite, FS_AddElement
  <2>3. InternalReferences' /\ MappedWhileReferenced'
    BY <1>2, <2>2, LiveBuffersFinite
       DEF shm_pool_create_buffer, IInv, TypeOK, InternalReferences,
           MappedWhileReferenced, CanRequest
  <2>4. \A c \in LiveBuffers' : extent'[c] <= size'
    BY <1>2, <2>1, SizesAssumption
       DEF shm_pool_create_buffer, sizeVars, IInv, TypeOK, LiveBuffers
  <2>5. TypeOK'
    BY <1>2 DEF shm_pool_create_buffer, sizeVars, IInv, TypeOK
  <2>6. QED
    BY <1>2, <2>3, <2>4, <2>5
       DEF shm_pool_create_buffer, sizeVars, IInv, NoCacheWithoutReference,
           DeferredResizeApplied
<1>3. QED
  BY <1>1, <1>2

LEMMA ResizeInv ==
  ASSUME IInv, NEW n \in 1..MaxSize, shm_pool_resize(n)
  PROVE  IInv'
<1>1. LiveBuffers' = LiveBuffers
  BY DEF shm_pool_resize, LiveBuffers
<1>2. CASE n < size
  BY <1>1, <1>2
     DEF shm_pool_resize, refVars, sizeVars, IInv, TypeOK, InternalReferences,
         MappedWhileReferenced, NoCacheWithoutReference, DeferredResizeApplied
<1>3. CASE ~(n < size)
  <2>1. size <= n
    BY <1>3, SizesAssumption DEF IInv, TypeOK
  <2>2. InternalReferences' /\ MappedWhileReferenced' /\ NoCacheWithoutReference'
    BY <1>1 DEF shm_pool_resize, refVars, IInv, InternalReferences,
                MappedWhileReferenced, NoCacheWithoutReference
  <2>3. CASE external_refcount = 0
    <3>1. FinishResize(n) /\ new_size' = n
      BY <1>3, <2>3 DEF shm_pool_resize
    <3>2. TypeOK' /\ size' <= new_size' /\ DeferredResizeApplied'
      BY <2>1, <2>3, <3>1, FinishResizeEffect
         DEF shm_pool_resize, refVars, IInv, TypeOK, DeferredResizeApplied
    <3>3. \A b \in LiveBuffers' : extent'[b] <= size'
      BY <1>1, <2>1, <3>1, FinishResizeEffect, SizesAssumption
         DEF shm_pool_resize, IInv, TypeOK, LiveBuffers
    <3>4. external_refcount' = 0
      BY <2>3 DEF shm_pool_resize, refVars
    <3>5. QED
      BY <2>2, <3>2, <3>3, <3>4 DEF IInv
  <2>4. CASE external_refcount # 0
    <3>1. /\ UNCHANGED <<data, size, resize_failed, error>>
          /\ new_size' = n
      BY <1>3, <2>4 DEF shm_pool_resize
    <3>2. QED
      BY <1>1, <2>1, <2>2, <2>4, <3>1
         DEF shm_pool_resize, refVars, IInv, TypeOK, DeferredResizeApplied
  <2>5. QED
    BY <2>3, <2>4
<1>4. QED
  BY <1>2, <1>3

LEMMA DestroyBufferInv ==
  ASSUME IInv, NEW b \in Buffers, destroy_buffer(b)
  PROVE  IInv'
<1>1. LiveBuffers' = LiveBuffers \ {b} /\ b \in LiveBuffers
  BY DEF destroy_buffer, LiveBuffers, IInv, TypeOK
<1>2. Cardinality(LiveBuffers') = Cardinality(LiveBuffers) - 1
  BY <1>1, LiveBuffersFinite, FS_RemoveElement
<1>3. Cardinality(LiveBuffers') \in Nat
  BY <1>1, LiveBuffersFinite, FS_RemoveElement, FS_CardinalityType
<1>4. InternalReferences'
  BY <1>2, LiveBuffersFinite
     DEF destroy_buffer, UnrefInternal, IInv, TypeOK, InternalReferences
<1>5. internal_refcount' \in Nat
  BY <1>3, <1>4 DEF InternalReferences
<1>6. MappedWhileReferenced'
  BY DEF destroy_buffer, UnrefInternal, MappedWhileReferenced
<1>7. TypeOK'
  BY <1>5 DEF destroy_buffer, UnrefInternal, sizeVars, IInv, TypeOK
<1>8. QED
  BY <1>1, <1>4, <1>6, <1>7
     DEF destroy_buffer, UnrefInternal, sizeVars, IInv, NoCacheWithoutReference,
         DeferredResizeApplied

LEMMA DestroyPoolInv ==
  ASSUME IInv, destroy_pool
  PROVE  IInv'
<1>1. LiveBuffers' = LiveBuffers
  BY DEF destroy_pool, LiveBuffers
<1>2. InternalReferences' /\ internal_refcount' \in Nat
  BY <1>1, LiveBuffersFinite
     DEF destroy_pool, UnrefInternal, IInv, TypeOK, InternalReferences
<1>3. MappedWhileReferenced'
  BY DEF destroy_pool, UnrefInternal, MappedWhileReferenced
<1>4. TypeOK'
  BY <1>2 DEF destroy_pool, UnrefInternal, sizeVars, IInv, TypeOK
<1>5. QED
  BY <1>1, <1>2, <1>3, <1>4
     DEF destroy_pool, UnrefInternal, sizeVars, IInv, NoCacheWithoutReference,
         DeferredResizeApplied

LEMMA RefPoolInv ==
  ASSUME IInv, NEW b \in Buffers, RefPool(b)
  PROVE  IInv'
<1>1. LiveBuffers' = LiveBuffers /\ LiveBuffers # {}
  BY DEF RefPool, LiveBuffers
<1>2. Cardinality(LiveBuffers) # 0
  BY <1>1, LiveBuffersFinite, FS_EmptySet
<1>3. internal_refcount > 0
  BY <1>2, LiveBuffersFinite DEF IInv, InternalReferences
<1>4. TypeOK'
  BY SizesAssumption DEF RefPool, sizeVars, IInv, TypeOK
<1>5. cached' = {data'}
  <2>1. cached = {} \/ cached = {data}
    BY DEF IInv, TypeOK, NoCacheWithoutReference
  <2>2. cached' = cached \cup {data} /\ data' = data
    BY DEF RefPool, sizeVars
  <2>3. QED
    BY <2>1, <2>2
<1>6. external_refcount' > 0
  BY DEF RefPool, IInv, TypeOK
<1>7. MappedWhileReferenced'
  BY <1>3, <1>6 DEF RefPool, IInv, TypeOK, MappedWhileReferenced
<1>8. QED
  BY <1>1, <1>4, <1>5, <1>6, <1>7
     DEF RefPool, sizeVars, IInv, TypeOK, InternalReferences, NoCacheWithoutReference,
         DeferredResizeApplied

LEMMA UnrefExternalInv ==
  ASSUME IInv, wl_shm_pool_unref
  PROVE  IInv'
<1>1. LiveBuffers' = LiveBuffers
  BY DEF wl_shm_pool_unref, LiveBuffers
<1>2. InternalReferences' /\ MappedWhileReferenced'
  BY <1>1 DEF wl_shm_pool_unref, IInv, InternalReferences, MappedWhileReferenced
<1>3. CASE external_refcount = 1
  <2>1. /\ FinishResize(new_size) /\ cached' = {} /\ external_refcount' = 0
        /\ new_size' = new_size
    BY <1>3 DEF wl_shm_pool_unref
  <2>2. new_size \in 1..MaxSize /\ size <= new_size
    BY DEF IInv, TypeOK
  <2>3. TypeOK' /\ size' <= new_size' /\ DeferredResizeApplied'
    <3>1. /\ data' \in Nat /\ size' \in 1..MaxSize /\ size' <= new_size
          /\ resize_failed' \in BOOLEAN /\ error' \in BOOLEAN
          /\ size' = new_size \/ resize_failed'
      BY <2>1, <2>2, FinishResizeEffect
    <3>2. mapped' \in BOOLEAN
      BY DEF wl_shm_pool_unref
    <3>3. TypeOK'
      BY <2>1, <3>1, <3>2, SizesAssumption DEF wl_shm_pool_unref, IInv, TypeOK
    <3>4. QED
      BY <2>1, <3>1, <3>3 DEF DeferredResizeApplied
  <2>4. \A b \in LiveBuffers' : extent'[b] <= size'
    BY <1>1, <2>1, <2>2, FinishResizeEffect, SizesAssumption
       DEF wl_shm_pool_unref, IInv, TypeOK, LiveBuffers
  <2>5. QED
    BY <1>2, <2>1, <2>3, <2>4 DEF IInv, NoCacheWithoutReference
<1>4. CASE external_refcount # 1
  <2>1. /\ UNCHANGED <<cached, data, size, resize_failed, error, new_size>>
        /\ external_refcount' \in 0..MaxExternal /\ external_refcount' # 0
    BY <1>4, SizesAssumption DEF wl_shm_pool_unref, IInv, TypeOK
  <2>2. TypeOK'
    BY <2>1 DEF wl_shm_pool_unref, IInv, TypeOK
  <2>3. QED
    BY <1>1, <1>2, <2>1, <2>2
       DEF wl_shm_pool_unref, IInv, NoCacheWithoutReference, DeferredResizeApplied
<1>5. QED
  BY <1>3, <1>4

LEMMA VarsInv ==
  ASSUME IInv, UNCHANGED vars
  PROVE  IInv'
<1>1. LiveBuffers' = LiveBuffers
  BY DEF vars, LiveBuffers
<1>2. QED
  BY <1>1
     DEF vars, refVars, sizeVars, IInv, TypeOK, InternalReferences,
         MappedWhileReferenced, NoCacheWithoutReference, DeferredResizeApplied

(* Whatever is done to a pool keeps the invariant; ShmAccess relies on it. *)
LEMMA StepInv ==
  ASSUME IInv, [Next]_vars
  PROVE  IInv'
<1>1. ASSUME NEW b \in Buffers, NEW end \in 1..MaxSize, shm_pool_create_buffer(b, end)
      PROVE  IInv'
  BY <1>1, CreateBufferInv
<1>2. ASSUME NEW b \in Buffers, destroy_buffer(b) PROVE IInv'
  BY <1>2, DestroyBufferInv
<1>3. ASSUME NEW b \in Buffers, RefPool(b) PROVE IInv'
  BY <1>3, RefPoolInv
<1>4. ASSUME NEW n \in 1..MaxSize, shm_pool_resize(n) PROVE IInv'
  BY <1>4, ResizeInv
<1>5. CASE destroy_pool
  BY <1>5, DestroyPoolInv
<1>6. CASE wl_shm_pool_unref
  BY <1>6, UnrefExternalInv
<1>7. CASE UNCHANGED vars
  BY <1>7, VarsInv
<1>8. QED
  BY <1>1, <1>2, <1>3, <1>4, <1>5, <1>6, <1>7 DEF Next

LEMMA Invariance == Spec => []IInv
BY InitInv, StepInv, PTL DEF Spec

(* What the invariant says of the memory.                                  *)
LEMMA MemoryIsMapped ==
  ASSUME IInv
  PROVE  MappedWhileUsed /\ BuffersAreMapped /\ CachedPointersStable
<1>1. MappedWhileUsed
  <2>1. Cardinality(LiveBuffers) = 0 <=> LiveBuffers = {}
    BY LiveBuffersFinite, FS_EmptySet
  <2>2. QED
    BY <2>1, LiveBuffersFinite
       DEF IInv, TypeOK, InternalReferences, MappedWhileReferenced, MappedWhileUsed
<1>2. BuffersAreMapped
  <2> SUFFICES ASSUME NEW b \in LiveBuffers PROVE mapped /\ extent[b] <= size
    BY DEF BuffersAreMapped
  <2>1. mapped
    BY <1>1 DEF MappedWhileUsed
  <2>2. QED
    BY <2>1 DEF IInv
<1>3. CachedPointersStable
  BY DEF IInv, TypeOK, MappedWhileReferenced, CachedPointersStable
<1>4. QED
  BY <1>1, <1>2, <1>3

-----------------------------------------------------------------------------

(* The state of a pool is well typed, with any number of buffers: the      *)
(* library's own references are never negative.                            *)
THEOREM PoolWellTyped == Spec => []TypeOK
BY Invariance, PTL DEF IInv

(* The memory of a pool is mapped exactly while its resource, a buffer or  *)
(* a reference of the compositor is left.                                  *)
THEOREM PoolMappedWhileUsed == Spec => []MappedWhileUsed
BY Invariance, MemoryIsMapped, PTL

(* A buffer accepted once lies inside the mapping for as long as it lives. *)
THEOREM BuffersStayMapped == Spec => []BuffersAreMapped
BY Invariance, MemoryIsMapped, PTL

(* Pointers into the mapping stay valid while a reference protects them.   *)
THEOREM ReferencesPinTheMapping == Spec => []CachedPointersStable
BY Invariance, MemoryIsMapped, PTL

(* No resize is put off without a reference that asks for it.              *)
THEOREM ResizesAreNotLost == Spec => []DeferredResizeApplied
BY Invariance, PTL DEF IInv
-----------------------------------------------------------------------------
(* Its readers.  That a reader survives the client's truncating its file   *)
(* rests on the handler's knowing of every access under way: the count a   *)
(* thread keeps is the number of its accesses, and it names the pool       *)
(* exactly as long as there is one.  That only a sealed file can still     *)
(* kill rests on the pool's own invariant, by which a buffer ends within   *)
(* the mapping.                                                            *)

(* What sigbus_handler finds is what the thread has begun and not ended.   *)
AccessesCounted ==
  \A t \in Threads :
    IF sigbus_is_impossible THEN sigbus_data[t] = NoAccess
    ELSE /\ sigbus_data[t].access_count = Len(accessing[t])
         /\ sigbus_data[t].current_pool = "pool" <=> accessing[t] # << >>
         /\ sigbus_data[t].fallback_mapping_used => accessing[t] # << >>

(* A thread reads one buffer at a time, and that buffer lives.             *)
OneLiveBufferEach ==
  \A t \in Threads : \A i \in 1..Len(accessing[t]) :
    accessing[t][i] = accessing[t][1] /\ buffer[accessing[t][i]] = "live"

AccessInv ==
  /\ IInv
  /\ AccessTypeOK
  /\ accessing \in [Threads -> Seq(Buffers)]
  /\ AccessesCounted /\ OneLiveBufferEach
  /\ FaultsReported /\ OnlyOutgrownSealsKill

-----------------------------------------------------------------------------

LEMMA AccessInitInv == AccessInit => AccessInv
<1> SUFFICES ASSUME AccessInit PROVE AccessInv
  OBVIOUS
<1>1. IInv
  BY InitInv DEF AccessInit
<1>2. accessing = [t \in Threads |-> << >>] /\ sigbus_data = [t \in Threads |-> NoAccess]
  BY DEF AccessInit
<1>3. ~anonymous /\ ~killed /\ file \in 0..MaxSize
  BY DEF AccessInit
<1>4. NoAccess \in [current_pool : {"NULL", "pool"}, access_count : 0..MaxNesting,
                    fallback_mapping_used : BOOLEAN]
  BY NestingAssumption DEF NoAccess
<1>5. AccessTypeOK
  <2>1. sigbus_is_impossible \in BOOLEAN
    <3>1. (file >= size) \in BOOLEAN
      OBVIOUS
    <3>2. sigbus_is_impossible = FALSE \/ sigbus_is_impossible = (file >= size)
      BY Zenon DEF AccessInit
    <3>3. QED
      BY <3>1, <3>2, Zenon
  <2>2. killed \in BOOLEAN /\ anonymous \in BOOLEAN
    BY DEF AccessInit
  <2>3. \A t \in Threads : accessing[t] \in Seq(Buffers) /\ Len(accessing[t]) <= MaxNesting
    BY <1>2, NestingAssumption, EmptySeq
  <2>4. QED
    BY <1>1, <1>2, <1>3, <1>4, <2>1, <2>2, <2>3 DEF AccessTypeOK, IInv
<1>6. accessing \in [Threads -> Seq(Buffers)]
  BY <1>2, EmptySeq
<1>7. AccessesCounted /\ OneLiveBufferEach
  BY <1>2 DEF AccessesCounted, OneLiveBufferEach, NoAccess
<1>8. QED
  BY <1>1, <1>3, <1>5, <1>6, <1>7 DEF AccessInv, FaultsReported, OnlyOutgrownSealsKill

(* What has been sent to the client is not taken back.                     *)
LEMMA ErrorStays ==
  ASSUME IInv, Next, error
  PROVE  error'
<1>1. \A n : FinishResize(n) => error'
  BY DEF FinishResize
<1>2. ASSUME NEW b \in Buffers, NEW end \in 1..MaxSize, shm_pool_create_buffer(b, end)
      PROVE  error'
  BY <1>2 DEF shm_pool_create_buffer
<1>3. ASSUME NEW b \in Buffers, destroy_buffer(b) \/ RefPool(b) PROVE error'
  BY <1>3 DEF destroy_buffer, RefPool
<1>4. ASSUME NEW n \in 1..MaxSize, shm_pool_resize(n) PROVE error'
  BY <1>1, <1>4 DEF shm_pool_resize
<1>5. CASE destroy_pool
  BY <1>5 DEF destroy_pool
<1>6. CASE wl_shm_pool_unref
  BY <1>1, <1>6 DEF wl_shm_pool_unref
<1>7. QED
  BY <1>2, <1>3, <1>4, <1>5, <1>6 DEF Next

LEMMA PoolStepInv ==
  ASSUME AccessInv, ~killed, PoolStep
  PROVE  AccessInv'
<1>1. IInv'
  BY StepInv DEF AccessInv, PoolStep
<1>2. UNCHANGED <<file, sigbus_is_impossible, anonymous, accessing, sigbus_data, killed>>
  BY DEF PoolStep, accessVars
<1>3. AccessTypeOK' /\ accessing' \in [Threads -> Seq(Buffers)] /\ AccessesCounted'
  BY <1>1, <1>2 DEF AccessInv, AccessTypeOK, AccessesCounted, IInv
<1>4. OneLiveBufferEach'
  <2> SUFFICES ASSUME NEW t \in Threads, NEW i \in 1..Len(accessing[t])
               PROVE  accessing[t][i] = accessing[t][1] /\ buffer'[accessing[t][i]] = "live"
    BY <1>2 DEF OneLiveBufferEach
  <2>1. accessing[t] \in Seq(Buffers)
    BY DEF AccessInv
  <2>2. accessing[t] # << >>
    BY <2>1, EmptySeq
  <2>3. accessing[t][1] \in Accessed
    BY <2>2 DEF Accessed
  <2>4. buffer'[accessing[t][1]] = "live"
    BY <2>3 DEF PoolStep
  <2>5. QED
    BY <2>4 DEF AccessInv, OneLiveBufferEach
<1>5. FaultsReported'
  BY <1>2, ErrorStays DEF AccessInv, FaultsReported, PoolStep
<1>6. OnlyOutgrownSealsKill'
  BY <1>2 DEF OnlyOutgrownSealsKill
<1>7. QED
  BY <1>1, <1>3, <1>4, <1>5, <1>6 DEF AccessInv

LEMMA ResizeFileInv ==
  ASSUME AccessInv, ~killed, NEW n \in 0..MaxSize, ResizeFile(n)
  PROVE  AccessInv'
<1>1. IInv'
  BY VarsInv DEF AccessInv, ResizeFile
<1>2. UNCHANGED <<sigbus_is_impossible, anonymous, accessing, sigbus_data, killed>> /\ file' = n
  BY DEF ResizeFile
<1>3. buffer' = buffer /\ error' = error
  BY DEF ResizeFile, vars
<1>4. AccessTypeOK'
  BY <1>1, <1>2 DEF AccessInv, AccessTypeOK, IInv
<1>5. QED
  BY <1>1, <1>2, <1>3, <1>4
     DEF AccessInv, AccessesCounted, OneLiveBufferEach, FaultsReported, OnlyOutgrownSealsKill

LEMMA BeginAccessInv ==
  ASSUME AccessInv, ~killed, NEW t \in Threads, NEW b \in Buffers,
         wl_shm_buffer_begin_access(t, b)
  PROVE  AccessInv'
<1>1. IInv'
  BY VarsInv DEF AccessInv, wl_shm_buffer_begin_access
<1>2. UNCHANGED <<file, sigbus_is_impossible, anonymous, killed>>
  BY DEF wl_shm_buffer_begin_access
<1>3. buffer' = buffer /\ error' = error
  BY DEF wl_shm_buffer_begin_access, vars
<1>4. /\ accessing[t] \in Seq(Buffers) /\ Len(accessing[t]) \in Nat
      /\ Len(accessing[t]) < MaxNesting /\ buffer[b] = "live"
      /\ accessing[t] # << >> => accessing[t][1] = b
  BY LenProperties DEF AccessInv, wl_shm_buffer_begin_access
<1>5. accessing' = [accessing EXCEPT ![t] = Append(accessing[t], b)]
  BY DEF wl_shm_buffer_begin_access
<1>6. /\ Append(accessing[t], b) \in Seq(Buffers) /\ Append(accessing[t], b) # << >>
      /\ Len(Append(accessing[t], b)) = Len(accessing[t]) + 1
      /\ \A i \in 1..Len(accessing[t]) : Append(accessing[t], b)[i] = accessing[t][i]
      /\ Append(accessing[t], b)[Len(accessing[t]) + 1] = b
  BY <1>4, AppendProperties
<1>7. /\ accessing' \in [Threads -> Seq(Buffers)]
      /\ \A u \in Threads : accessing'[u] = IF u = t THEN Append(accessing[t], b) ELSE accessing[u]
  BY <1>5, <1>6 DEF AccessInv
<1>8. \A u \in Threads : accessing'[u] \in Seq(Buffers) /\ Len(accessing'[u]) <= MaxNesting
  BY <1>4, <1>6, <1>7, NestingAssumption DEF AccessInv, AccessTypeOK
<1>9. OneLiveBufferEach'
  <2> SUFFICES ASSUME NEW u \in Threads, NEW i \in 1..Len(accessing'[u])
               PROVE  accessing'[u][i] = accessing'[u][1] /\ buffer'[accessing'[u][i]] = "live"
    BY DEF OneLiveBufferEach
  <2>1. CASE u # t
    BY <1>3, <1>7, <2>1 DEF AccessInv, OneLiveBufferEach
  <2>2. CASE u = t
    <3>a. Len(accessing'[u]) = Len(accessing[t]) + 1 /\ Len(accessing[t]) \in Nat
      BY <1>4, <1>6, <1>7, <2>2, LenProperties
    <3>1. i \in 1..Len(accessing[t]) \/ i = Len(accessing[t]) + 1
      BY <3>a
    <3>2. i \in 1..Len(accessing[t]) => accessing[t][i] = accessing[t][1] /\ accessing[t] # << >>
      BY <1>4, EmptySeq DEF AccessInv, OneLiveBufferEach
    <3>3. accessing[t] # << >> => 1 \in 1..Len(accessing[t])
      BY <1>4, EmptySeq
    <3>4. accessing'[t][1] = b
      <4>1. CASE accessing[t] = << >>
        <5>1. Len(accessing[t]) + 1 = 1
          BY <4>1, EmptySeq
        <5>2. QED
          BY <1>6, <1>7, <5>1
      <4>2. CASE accessing[t] # << >>
        BY <1>4, <1>6, <1>7, <3>3, <4>2
      <4>3. QED
        BY <4>1, <4>2
    <3>5. accessing'[t][i] = b
      BY <1>4, <1>6, <1>7, <3>1, <3>2
    <3>6. QED
      BY <1>3, <1>4, <2>2, <3>4, <3>5
  <2>3. QED
    BY <2>1, <2>2
<1>10. CASE sigbus_is_impossible
  <2>1. sigbus_data' = sigbus_data
    BY <1>10 DEF wl_shm_buffer_begin_access
  <2>2. AccessTypeOK' /\ AccessesCounted' /\ FaultsReported' /\ OnlyOutgrownSealsKill'
    BY <1>1, <1>2, <1>3, <1>8, <1>10, <2>1
       DEF AccessInv, IInv, AccessTypeOK, AccessesCounted, FaultsReported, OnlyOutgrownSealsKill
  <2>3. QED
    BY <1>1, <1>7, <1>9, <2>2 DEF AccessInv
<1>11. CASE ~sigbus_is_impossible
  <2> DEFINE d == sigbus_data[t]
             e == [d EXCEPT !.current_pool = "pool", !.access_count = d.access_count + 1]
  <2>1. /\ d \in [current_pool : {"NULL", "pool"}, access_count : 0..MaxNesting,
                  fallback_mapping_used : BOOLEAN]
        /\ d.access_count = Len(accessing[t])
    BY <1>11 DEF AccessInv, AccessTypeOK, AccessesCounted
  <2>2. sigbus_data' = [sigbus_data EXCEPT ![t] = e]
    BY <1>11 DEF wl_shm_buffer_begin_access
  <2>3. /\ e \in [current_pool : {"NULL", "pool"}, access_count : 0..MaxNesting,
                  fallback_mapping_used : BOOLEAN]
        /\ e.current_pool = "pool" /\ e.access_count = Len(accessing[t]) + 1
        /\ e.fallback_mapping_used = d.fallback_mapping_used
    <3> DEFINE c == [d EXCEPT !.current_pool = "pool"]
    <3> HIDE DEF d
    <3>1. /\ c \in [current_pool : {"NULL", "pool"}, access_count : 0..MaxNesting,
                    fallback_mapping_used : BOOLEAN]
          /\ c.current_pool = "pool" /\ c.access_count = Len(accessing[t])
          /\ c.fallback_mapping_used = d.fallback_mapping_used
      BY <2>1
    <3>2. e = [c EXCEPT !.access_count = Len(accessing[t]) + 1]
      BY <2>1
    <3> HIDE DEF c, e
    <3>3. QED
      BY <1>4, <3>1, <3>2, NestingAssumption
  <2> HIDE DEF d, e
  <2>4. /\ sigbus_data' \in [Threads -> [current_pool : {"NULL", "pool"},
                                         access_count : 0..MaxNesting,
                                         fallback_mapping_used : BOOLEAN]]
        /\ \A u \in Threads : sigbus_data'[u] = IF u = t THEN e ELSE sigbus_data[u]
    BY <2>2, <2>3 DEF AccessInv, AccessTypeOK
  <2>5. AccessTypeOK'
    BY <1>1, <1>2, <1>8, <2>4 DEF AccessInv, IInv, AccessTypeOK
  <2>6. AccessesCounted'
    BY <1>2, <1>6, <1>7, <1>11, <2>3, <2>4 DEF AccessInv, AccessesCounted
  <2>7. FaultsReported'
    BY <1>2, <1>3, <2>3, <2>4 DEF AccessInv, FaultsReported, d
  <2>8. OnlyOutgrownSealsKill'
    BY <1>2 DEF OnlyOutgrownSealsKill
  <2>9. QED
    BY <1>1, <1>7, <1>9, <2>5, <2>6, <2>7, <2>8 DEF AccessInv
<1>12. QED
  BY <1>10, <1>11

LEMMA ReadPastFileInv ==
  ASSUME AccessInv, ~killed, NEW t \in Threads, ReadPastFile(t)
  PROVE  AccessInv'
<1>1. IInv'
  BY VarsInv DEF AccessInv, ReadPastFile
<1>2. UNCHANGED <<buffer, size, error, file, sigbus_is_impossible, accessing>>
  BY DEF ReadPastFile, vars, sizeVars
<1>3. accessing[t] # << >> /\ file < extent[accessing[t][1]] /\ sigbus_handler(t)
  BY DEF ReadPastFile
<1>4. OneLiveBufferEach'
  BY <1>2 DEF AccessInv, OneLiveBufferEach
<1>5. CASE sigbus_data[t].current_pool = "NULL"
  <2>1. killed' = TRUE /\ UNCHANGED <<anonymous, sigbus_data>>
    BY <1>3, <1>5 DEF sigbus_handler
  <2>2. AccessTypeOK' /\ AccessesCounted' /\ FaultsReported'
    BY <1>1, <1>2, <2>1 DEF AccessInv, IInv, AccessTypeOK, AccessesCounted, FaultsReported
  <2>3. sigbus_is_impossible
    BY <1>3, <1>5 DEF AccessInv, AccessesCounted
  <2>4. file < size
    <3>1. accessing[t] \in Seq(Buffers) /\ 1 \in 1..Len(accessing[t])
      BY <1>3, EmptySeq DEF AccessInv
    <3>2. accessing[t][1] \in LiveBuffers
      BY <3>1, ElementOfSeq DEF AccessInv, OneLiveBufferEach, LiveBuffers
    <3>3. extent[accessing[t][1]] <= size /\ extent[accessing[t][1]] \in Nat
      BY <3>2, SizesAssumption DEF AccessInv, IInv, TypeOK, LiveBuffers
    <3>4. file \in Nat /\ size \in Nat
      BY SizesAssumption DEF AccessInv, AccessTypeOK, TypeOK
    <3>5. QED
      BY <1>3, <3>3, <3>4
  <2>5. QED
    BY <1>1, <1>2, <1>4, <2>1, <2>2, <2>3, <2>4 DEF AccessInv, OnlyOutgrownSealsKill
<1>6. CASE sigbus_data[t].current_pool # "NULL"
  <2> DEFINE e == [sigbus_data[t] EXCEPT !.fallback_mapping_used = TRUE]
  <2>1. sigbus_data' = [sigbus_data EXCEPT ![t] = e] /\ anonymous' = TRUE /\ UNCHANGED killed
    BY <1>3, <1>6 DEF sigbus_handler
  <2>2. /\ e \in [current_pool : {"NULL", "pool"}, access_count : 0..MaxNesting,
                  fallback_mapping_used : BOOLEAN]
        /\ e.fallback_mapping_used
        /\ e.access_count = sigbus_data[t].access_count
        /\ e.current_pool = sigbus_data[t].current_pool
    BY DEF AccessInv, AccessTypeOK
  <2>3. ~sigbus_is_impossible
    BY <1>6 DEF AccessInv, AccessesCounted, NoAccess
  <2> HIDE DEF e
  <2>4. /\ sigbus_data' \in [Threads -> [current_pool : {"NULL", "pool"},
                                         access_count : 0..MaxNesting,
                                         fallback_mapping_used : BOOLEAN]]
        /\ \A u \in Threads : sigbus_data'[u] = IF u = t THEN e ELSE sigbus_data[u]
    BY <2>1, <2>2 DEF AccessInv, AccessTypeOK
  <2>5. AccessTypeOK'
    BY <1>1, <1>2, <2>1, <2>4 DEF AccessInv, IInv, AccessTypeOK
  <2>6. AccessesCounted'
    BY <1>2, <1>3, <2>2, <2>3, <2>4 DEF AccessInv, AccessesCounted
  <2>7. FaultsReported'
    BY <2>2, <2>4 DEF FaultsReported
  <2>8. QED
    BY <1>1, <1>2, <1>4, <2>1, <2>5, <2>6, <2>7 DEF AccessInv, OnlyOutgrownSealsKill
<1>7. QED
  BY <1>5, <1>6

(* What is left after the last access of a sequence has ended.             *)
LEMMA TailOfAccesses ==
  ASSUME NEW s \in Seq(Buffers), s # << >>
  PROVE  /\ Tail(s) \in Seq(Buffers) /\ Len(Tail(s)) = Len(s) - 1 /\ Len(s) \in Nat \ {0}
         /\ Tail(s) # << >> <=> Len(s) # 1
         /\ \A i \in 1..Len(Tail(s)) : i + 1 \in 1..Len(s) /\ Tail(s)[i] = s[i + 1]
<1>1. /\ Tail(s) \in Seq(Buffers) /\ Len(Tail(s)) = Len(s) - 1
      /\ \A i \in 1..Len(Tail(s)) : Tail(s)[i] = s[i + 1]
  BY HeadTailProperties
<1>2. Len(s) \in Nat \ {0}
  BY EmptySeq
<1>3. Len(Tail(s)) = 0 <=> Tail(s) = << >>
  BY <1>1, EmptySeq
<1>4. QED
  BY <1>1, <1>2, <1>3

LEMMA EndAccessInv ==
  ASSUME AccessInv, ~killed, NEW t \in Threads, wl_shm_buffer_end_access(t)
  PROVE  AccessInv'
<1>1. /\ UNCHANGED <<pool, buffer, extent, refVars, sizeVars, cached>>
      /\ UNCHANGED <<file, sigbus_is_impossible, anonymous, killed>>
      /\ accessing[t] # << >> /\ accessing' = [accessing EXCEPT ![t] = Tail(accessing[t])]
  BY DEF wl_shm_buffer_end_access
<1>2. error' \in BOOLEAN /\ (error => error')
  BY DEF wl_shm_buffer_end_access, AccessInv, IInv, TypeOK
<1>3. IInv'
  <2>1. LiveBuffers' = LiveBuffers
    BY <1>1 DEF LiveBuffers
  <2>2. QED
    BY <1>1, <1>2, <2>1
       DEF AccessInv, refVars, sizeVars, IInv, TypeOK, InternalReferences,
           MappedWhileReferenced, NoCacheWithoutReference, DeferredResizeApplied
<1>4. accessing[t] \in Seq(Buffers)
  BY DEF AccessInv
<1>5. /\ accessing' \in [Threads -> Seq(Buffers)]
      /\ \A u \in Threads : accessing'[u] = IF u = t THEN Tail(accessing[t]) ELSE accessing[u]
  BY <1>1, <1>4, TailOfAccesses DEF AccessInv
<1>6. \A u \in Threads : accessing'[u] \in Seq(Buffers) /\ Len(accessing'[u]) <= MaxNesting
  BY <1>1, <1>4, <1>5, TailOfAccesses, NestingAssumption DEF AccessInv, AccessTypeOK
<1>7. OneLiveBufferEach'
  <2> SUFFICES ASSUME NEW u \in Threads, NEW i \in 1..Len(accessing'[u])
               PROVE  accessing'[u][i] = accessing'[u][1] /\ buffer[accessing'[u][i]] = "live"
    BY <1>1 DEF OneLiveBufferEach
  <2>1. CASE u # t
    BY <1>5, <2>1 DEF AccessInv, OneLiveBufferEach
  <2>2. CASE u = t
    <3>1. /\ i + 1 \in 1..Len(accessing[t]) /\ 1 + 1 \in 1..Len(accessing[t])
          /\ accessing'[t][i] = accessing[t][i + 1] /\ accessing'[t][1] = accessing[t][1 + 1]
      <4>1. i \in 1..Len(Tail(accessing[t])) /\ 1 \in 1..Len(Tail(accessing[t]))
        BY <1>1, <1>4, <1>5, <2>2, TailOfAccesses
      <4>2. QED
        BY <1>1, <1>4, <1>5, <4>1, TailOfAccesses
    <3>2. QED
      BY <2>2, <3>1 DEF AccessInv, OneLiveBufferEach
  <2>3. QED
    BY <2>1, <2>2
<1>8. CASE sigbus_is_impossible
  <2>1. UNCHANGED <<sigbus_data, error>>
    BY <1>8 DEF wl_shm_buffer_end_access
  <2>2. AccessTypeOK' /\ AccessesCounted' /\ FaultsReported'
    BY <1>1, <1>3, <1>6, <1>8, <2>1
       DEF AccessInv, IInv, AccessTypeOK, AccessesCounted, FaultsReported
  <2>3. QED
    BY <1>1, <1>3, <1>5, <1>7, <2>2 DEF AccessInv, OnlyOutgrownSealsKill
<1>9. CASE ~sigbus_is_impossible
  <2>1. /\ sigbus_data[t] \in [current_pool : {"NULL", "pool"}, access_count : 0..MaxNesting,
                               fallback_mapping_used : BOOLEAN]
        /\ sigbus_data[t].access_count = Len(accessing[t])
        /\ sigbus_data[t].current_pool = "pool"
    BY <1>1, <1>9 DEF AccessInv, AccessTypeOK, AccessesCounted
  <2>2. PICK e \in [current_pool : {"NULL", "pool"}, access_count : 0..MaxNesting,
                   fallback_mapping_used : BOOLEAN] :
          /\ sigbus_data' = [sigbus_data EXCEPT ![t] = e]
          /\ e.access_count = Len(accessing[t]) - 1
          /\ e.current_pool = "pool" <=> Len(accessing[t]) # 1
          /\ e.fallback_mapping_used => Len(accessing[t]) # 1
          /\ sigbus_data[t].fallback_mapping_used => e.fallback_mapping_used \/ error'
    <3>1. CASE Len(accessing[t]) = 1
      <4>1. sigbus_data' = [sigbus_data EXCEPT ![t] = NoAccess]
        BY <1>9, <2>1, <3>1 DEF wl_shm_buffer_end_access
      <4>2. sigbus_data[t].fallback_mapping_used => error'
        BY <1>9, <2>1, <3>1 DEF wl_shm_buffer_end_access
      <4>3. NoAccess \in [current_pool : {"NULL", "pool"}, access_count : 0..MaxNesting,
                          fallback_mapping_used : BOOLEAN]
        BY NestingAssumption DEF NoAccess
      <4>4. /\ NoAccess.access_count = 0 /\ NoAccess.current_pool = "NULL"
            /\ ~NoAccess.fallback_mapping_used
        BY DEF NoAccess
      <4> HIDE DEF NoAccess
      <4>5. /\ NoAccess.access_count = Len(accessing[t]) - 1
            /\ NoAccess.current_pool = "pool" <=> Len(accessing[t]) # 1
            /\ NoAccess.fallback_mapping_used => Len(accessing[t]) # 1
        BY <3>1, <4>4
      <4>6. QED
        BY <4>1, <4>2, <4>3, <4>5, Zenon
    <3>2. CASE Len(accessing[t]) # 1
      <4> DEFINE e == [sigbus_data[t] EXCEPT !.access_count = Len(accessing[t]) - 1]
      <4>1. sigbus_data' = [sigbus_data EXCEPT ![t] = e]
        BY <1>9, <2>1, <3>2 DEF wl_shm_buffer_end_access
      <4>2. Len(accessing[t]) - 1 \in 0..MaxNesting
        BY <1>1, <1>4, TailOfAccesses, NestingAssumption DEF AccessInv, AccessTypeOK
      <4>3. /\ e \in [current_pool : {"NULL", "pool"}, access_count : 0..MaxNesting,
                      fallback_mapping_used : BOOLEAN]
            /\ e.access_count = Len(accessing[t]) - 1 /\ e.current_pool = "pool"
            /\ e.fallback_mapping_used = sigbus_data[t].fallback_mapping_used
        BY <2>1, <4>2
      <4> HIDE DEF e
      <4>4. QED
        BY <3>2, <4>1, <4>3
    <3>3. QED
      BY <3>1, <3>2
  <2>3. /\ sigbus_data' \in [Threads -> [current_pool : {"NULL", "pool"},
                                         access_count : 0..MaxNesting,
                                         fallback_mapping_used : BOOLEAN]]
        /\ \A u \in Threads : sigbus_data'[u] = IF u = t THEN e ELSE sigbus_data[u]
    BY <2>2 DEF AccessInv, AccessTypeOK
  <2>4. AccessTypeOK'
    BY <1>1, <1>3, <1>6, <2>3 DEF AccessInv, IInv, AccessTypeOK
  <2>5. AccessesCounted'
    BY <1>1, <1>4, <1>5, <1>9, <2>2, <2>3, TailOfAccesses DEF AccessInv, AccessesCounted
  <2>6. FaultsReported'
    BY <1>1, <1>2, <2>2, <2>3 DEF AccessInv, FaultsReported
  <2>7. QED
    BY <1>1, <1>3, <1>5, <1>7, <2>4, <2>5, <2>6 DEF AccessInv, OnlyOutgrownSealsKill
<1>10. QED
  BY <1>8, <1>9

LEMMA AccessInvariance == AccessSpec => []AccessInv
<1>1. ASSUME AccessInv, [AccessNext]_<<vars, accessVars>> PROVE AccessInv'
  <2>1. CASE ~killed /\ PoolStep
    BY <1>1, <2>1, PoolStepInv
  <2>2. ASSUME ~killed, NEW n \in 0..MaxSize, ResizeFile(n) PROVE AccessInv'
    BY <1>1, <2>2, ResizeFileInv
  <2>3. ASSUME ~killed, NEW t \in Threads, NEW b \in Buffers, wl_shm_buffer_begin_access(t, b)
        PROVE  AccessInv'
    BY <1>1, <2>3, BeginAccessInv
  <2>4. ASSUME ~killed, NEW t \in Threads, ReadPastFile(t) PROVE AccessInv'
    BY <1>1, <2>4, ReadPastFileInv
  <2>5. ASSUME ~killed, NEW t \in Threads, wl_shm_buffer_end_access(t) PROVE AccessInv'
    BY <1>1, <2>5, EndAccessInv
  <2>6. CASE UNCHANGED <<vars, accessVars>>
    <3>1. IInv'
      BY <1>1, <2>6, VarsInv DEF AccessInv
    <3>2. UNCHANGED <<buffer, size, error, accessVars>>
      BY <2>6 DEF vars, sizeVars
    <3>3. QED
      BY <1>1, <3>1, <3>2
         DEF accessVars, AccessInv, IInv, AccessTypeOK, AccessesCounted, OneLiveBufferEach,
             FaultsReported, OnlyOutgrownSealsKill
  <2>7. QED
    BY <1>1, <2>1, <2>2, <2>3, <2>4, <2>5, <2>6 DEF AccessNext
<1>2. QED
  BY <1>1, AccessInitInv, PTL DEF AccessSpec

-----------------------------------------------------------------------------

(* With any number of threads that nest accesses to any depth, the         *)
(* client's truncating its file ends no compositor but one that trusted a  *)
(* seal the pool has outgrown, and every fault is reported when the        *)
(* outermost access ends.                                                  *)
THEOREM ReadersAreProtected == AccessSpec => []AccessProtected
BY AccessInvariance, PTL DEF AccessInv, AccessProtected

(* The threads that read leave what is proved of the pool as it is: its    *)
(* memory is mapped while it is used, and deferred resizes are not lost.   *)
THEOREM PoolOfReaders ==
  AccessSpec => [](MappedWhileUsed /\ BuffersAreMapped /\ CachedPointersStable
                     /\ DeferredResizeApplied)
<1>1. AccessInv => MappedWhileUsed /\ BuffersAreMapped /\ CachedPointersStable
                     /\ DeferredResizeApplied
  BY MemoryIsMapped DEF AccessInv, IInv
<1>2. QED
  BY <1>1, AccessInvariance, PTL
=============================================================================

------------------------------- MODULE ShmAccess -------------------------------
(***************************************************************************)
(* Reading a pool's memory from the threads of the compositor              *)
(* (wl_shm_buffer_begin_access, wl_shm_buffer_end_access and the handler   *)
(* for SIGBUS, untitled/src/wayland-shm.c), on top of ShmPool.  The client *)
(* may change the size of the file behind the pool at any time, unless it  *)
(* is sealed; reading past its end raises SIGBUS in the thread that reads. *)
(*                                                                         *)
(* The compositor is taken to follow the rules: a thread reads under an    *)
(* external reference and while the buffer lives, and nests accesses to    *)
(* one buffer only.  Running out of memory is left out.                    *)
(***************************************************************************)
EXTENDS ShmPool, Sequences

CONSTANTS Threads,      \* the compositor's threads that read
          MaxNesting    \* bound: accesses of a thread within each other

ASSUME NestingAssumption == MaxNesting \in Nat

VARIABLES file,         \* the size of the file, in the unit of the pool's
          sigbus_is_impossible,
          anonymous,    \* the mapping has been replaced by empty memory
          accessing,    \* accessing[t]: the buffer of each begin_access under way
          sigbus_data,  \* sigbus_data[t]: what the thread keeps for the handler
          killed        \* SIGBUS was raised again, and ended the compositor

accessVars == <<file, sigbus_is_impossible, anonymous, accessing, sigbus_data, killed>>

NoAccess == [current_pool |-> "NULL", access_count |-> 0, fallback_mapping_used |-> FALSE]

(* shm_create_pool looks for F_SEAL_SHRINK and at the file's size, once.   *)
AccessInit ==
  /\ Init
  /\ file \in 0..MaxSize
  /\ sigbus_is_impossible \in {FALSE, file >= size}
  /\ anonymous = FALSE /\ killed = FALSE
  /\ accessing = [t \in Threads |-> << >>]
  /\ sigbus_data = [t \in Threads |-> NoAccess]

Accessed == {accessing[t][1] : t \in {u \in Threads : accessing[u] # << >>}}

(* The pool's own operations, as far as the threads that read allow them.  *)
PoolStep ==
  /\ Next
  /\ \A b \in Accessed : buffer'[b] = "live"
  /\ Accessed # {} => external_refcount' > 0
  /\ UNCHANGED accessVars

(* The client's ftruncate; a sealed file can still grow.                   *)
ResizeFile(n) ==
  /\ n # file /\ (sigbus_is_impossible => n > file)
  /\ file' = n
  /\ UNCHANGED <<vars, sigbus_is_impossible, anonymous, accessing, sigbus_data, killed>>

wl_shm_buffer_begin_access(t, b) ==
  /\ buffer[b] = "live" /\ external_refcount > 0
  /\ Len(accessing[t]) < MaxNesting
  /\ accessing[t] # << >> => accessing[t][1] = b
  /\ accessing' = [accessing EXCEPT ![t] = Append(@, b)]
  /\ sigbus_data' =
       IF sigbus_is_impossible THEN sigbus_data
       ELSE [sigbus_data EXCEPT ![t].current_pool = "pool", ![t].access_count = @ + 1]
  /\ UNCHANGED <<vars, file, sigbus_is_impossible, anonymous, killed>>

(* sigbus_handler: a fault within the pool that the thread is accessing    *)
(* replaces the whole mapping, for all threads and from then on.           *)
sigbus_handler(t) ==
  IF sigbus_data[t].current_pool = "NULL"
  THEN killed' = TRUE /\ UNCHANGED <<anonymous, sigbus_data>>
  ELSE /\ sigbus_data' = [sigbus_data EXCEPT ![t].fallback_mapping_used = TRUE]
       /\ anonymous' = TRUE
       /\ UNCHANGED killed

(* A thread reads the last row of its buffer, which the file ends before.  *)
ReadPastFile(t) ==
  /\ accessing[t] # << >>
  /\ ~anonymous /\ file < extent[accessing[t][1]]
  /\ sigbus_handler(t)
  /\ UNCHANGED <<vars, file, sigbus_is_impossible, accessing>>

(* Faulty: forgets the pool with the first end_access.                     *)
EndAtOnce(t) ==
  /\ accessing[t] # << >>
  /\ accessing' = [accessing EXCEPT ![t] = Tail(@)]
  /\ IF sigbus_is_impossible THEN UNCHANGED <<sigbus_data, error>>
     ELSE /\ sigbus_data' = [sigbus_data EXCEPT ![t] = NoAccess]
          /\ error' = (error \/ sigbus_data[t].fallback_mapping_used)
  /\ UNCHANGED <<pool, buffer, extent, refVars, sizeVars, cached>>
  /\ UNCHANGED <<file, sigbus_is_impossible, anonymous, killed>>

(* The client is told when the outermost access ends.                      *)
wl_shm_buffer_end_access(t) ==
  /\ accessing[t] # << >>
  /\ accessing' = [accessing EXCEPT ![t] = Tail(@)]
  /\ IF sigbus_is_impossible THEN UNCHANGED <<sigbus_data, error>>
     ELSE IF sigbus_data[t].access_count = 1
     THEN /\ sigbus_data' = [sigbus_data EXCEPT ![t] = NoAccess]
          /\ error' = (error \/ sigbus_data[t].fallback_mapping_used)
     ELSE /\ sigbus_data' = [sigbus_data EXCEPT ![t].access_count = @ - 1]
          /\ UNCHANGED error
  /\ UNCHANGED <<pool, buffer, extent, refVars, sizeVars, cached>>
  /\ UNCHANGED <<file, sigbus_is_impossible, anonymous, killed>>

AccessNext ==
  /\ ~killed
  /\ \/ PoolStep
     \/ \E n \in 0..MaxSize : ResizeFile(n)
     \/ \E t \in Threads : \/ \E b \in Buffers : wl_shm_buffer_begin_access(t, b)
                           \/ ReadPastFile(t)
                           \/ wl_shm_buffer_end_access(t)

AccessSpec == AccessInit /\ [][AccessNext]_<<vars, accessVars>>

-----------------------------------------------------------------------------

AccessTypeOK ==
  /\ TypeOK
  /\ file \in 0..MaxSize
  /\ sigbus_is_impossible \in BOOLEAN /\ anonymous \in BOOLEAN /\ killed \in BOOLEAN
  /\ \A t \in Threads : /\ accessing[t] \in Seq(Buffers)
                        /\ Len(accessing[t]) <= MaxNesting
  /\ sigbus_data \in [Threads -> [current_pool : {"NULL", "pool"},
                                  access_count : 0..MaxNesting,
                                  fallback_mapping_used : BOOLEAN]]

(* "the client will be sent an error event when wl_shm_buffer_end_access   *)
(* is called": whoever had the mapping replaced is told by the outermost   *)
(* end of an access, and no thread ends its accesses without.              *)
FaultsReported ==
  anonymous => error \/ \E t \in Threads : sigbus_data[t].fallback_mapping_used

(* An access is counted as long as it lasts, so that it survives the       *)
(* file's truncation, whatever other accesses begin and end.  The one      *)
(* exception: that SIGBUS is impossible is decided when the pool is made,  *)
(* and a resize may take the pool past the end of its sealed file.         *)
OnlyOutgrownSealsKill == killed => sigbus_is_impossible /\ file < size

(* Reading is protected from the client's truncating its file, and the     *)
(* client hears of it.                                                     *)
AccessProtected == AccessTypeOK /\ FaultsReported /\ OnlyOutgrownSealsKill
=============================================================================

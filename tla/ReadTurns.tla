------------------------------- MODULE ReadTurns -------------------------------
(***************************************************************************)
(* How the threads of a client take turns in reading the display's socket  *)
(* (untitled/src/wayland-client.c): the protocol of reader_count,          *)
(* read_serial and reader_cond, whatever else the threads do.              *)
(*                                                                         *)
(* A thread says with wl_display_prepare_read_queue that it means to read. *)
(* It then cancels, or calls wl_display_read_events, in which all threads  *)
(* but the last sleep until the serial changes.                            *)
(***************************************************************************)
EXTENDS Naturals, FiniteSets

CONSTANT Threads

VARIABLES reader_count, read_serial,
          failed,   \* last_error is set
          phase,    \* phase[t]: "out", "prepared" or "asleep"
          serial    \* serial[t]: read_serial when t last fell asleep

vars == <<reader_count, read_serial, failed, phase, serial>>

Init == /\ reader_count = 0 /\ read_serial = 0 /\ failed = FALSE
        /\ phase = [t \in Threads |-> "out"]
        /\ serial = [t \in Threads |-> 0]

(* wl_display_prepare_read_queue, when the queue is empty.                 *)
Prepare(t) == /\ phase[t] = "out"
              /\ phase' = [phase EXCEPT ![t] = "prepared"]
              /\ reader_count' = reader_count + 1
              /\ UNCHANGED <<read_serial, failed, serial>>

(* cancel_read: for the thread's own reasons, or because of an error.      *)
Cancel(t) == /\ phase[t] = "prepared"
             /\ phase' = [phase EXCEPT ![t] = "out"]
             /\ reader_count' = reader_count - 1
             /\ read_serial' = IF reader_count = 1 THEN read_serial + 1 ELSE read_serial
             /\ UNCHANGED <<failed, serial>>

(* read_events: the last thread reads, which may fail, and wakes the others*)
Read(t) == /\ phase[t] = "prepared" /\ ~failed /\ reader_count = 1
           /\ phase' = [phase EXCEPT ![t] = "out"]
           /\ reader_count' = 0
           /\ read_serial' = read_serial + 1
           /\ failed' \in BOOLEAN
           /\ UNCHANGED serial

Sleep(t) == /\ phase[t] = "prepared" /\ ~failed /\ reader_count > 1
            /\ phase' = [phase EXCEPT ![t] = "asleep"]
            /\ reader_count' = reader_count - 1
            /\ serial' = [serial EXCEPT ![t] = read_serial]
            /\ UNCHANGED <<read_serial, failed>>

WakeUp(t) == /\ phase[t] = "asleep" /\ serial[t] # read_serial
             /\ phase' = [phase EXCEPT ![t] = "out"]
             /\ UNCHANGED <<reader_count, read_serial, failed, serial>>

(* display_fatal_error, outside of a read.                                 *)
Fail == /\ ~failed /\ failed' = TRUE
        /\ read_serial' = read_serial + 1
        /\ UNCHANGED <<reader_count, phase, serial>>

(* display_protocol_error, which wakes nobody.                             *)
ProtocolError == /\ failed' = TRUE
                 /\ UNCHANGED <<reader_count, read_serial, phase, serial>>

Next == \/ \E t \in Threads : Prepare(t) \/ Cancel(t) \/ Read(t) \/ Sleep(t) \/ WakeUp(t)
        \/ Fail \/ ProtocolError

Spec == Init /\ [][Next]_vars

-----------------------------------------------------------------------------

Prepared == {t \in Threads : phase[t] = "prepared"}

(* reader_count counts the threads that have yet to read or to cancel, in  *)
(* whatever order they come and go.                                        *)
ReadersCounted == reader_count = Cardinality(Prepared)

(* A thread that sleeps without a wake-up under way sleeps because another *)
(* is still to read or to cancel, and that one will wake it: an error that *)
(* wakes nobody, as a protocol error does not, strands no one.             *)
NoSleeperForgotten ==
  \A t \in Threads : phase[t] = "asleep" /\ serial[t] = read_serial => Prepared # {}
=============================================================================

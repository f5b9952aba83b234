---------------------------- MODULE ReadTurns_proofs ----------------------------
(***************************************************************************)
(* Proofs about ReadTurns, for every finite set of threads.                *)
(*                                                                         *)
(* The serial a thread has noted is never ahead of read_serial, so moving  *)
(* read_serial on wakes every sleeper; and since reader_count counts the   *)
(* prepared threads, a thread that falls asleep or cancels while the count *)
(* is above 1 leaves one behind that will move it on.                      *)
(***************************************************************************)
EXTENDS ReadTurns, FiniteSetTheorems, TLAPS

TypeOK == /\ reader_count \in Nat /\ read_serial \in Nat
          /\ failed \in BOOLEAN
          /\ phase \in [Threads -> {"out", "prepared", "asleep"}]
          /\ serial \in [Threads -> Nat]

SerialsBehind == \A t \in Threads : serial[t] <= read_serial

IInv == TypeOK /\ ReadersCounted /\ SerialsBehind /\ NoSleeperForgotten

(* Prepared threads stay finitely many.                                    *)
LEMMA PreparedFinite ==
  ASSUME IsFiniteSet(Threads) PROVE IsFiniteSet(Prepared)
<1>1. Prepared \subseteq Threads BY DEF Prepared
<1>2. QED BY <1>1, FS_Subset

(* A prepared thread is counted, and without it there is one fewer.        *)
LEMMA OneFewer ==
  ASSUME IsFiniteSet(Threads), ReadersCounted, TypeOK,
         NEW t \in Threads, phase[t] = "prepared"
  PROVE  /\ reader_count >= 1
         /\ Cardinality(Prepared \ {t}) = reader_count - 1
         /\ reader_count > 1 => Prepared \ {t} # {}
<1>1. IsFiniteSet(Prepared) BY PreparedFinite
<1>2. t \in Prepared BY DEF Prepared
<1>3. /\ IsFiniteSet(Prepared \ {t})
      /\ Cardinality(Prepared \ {t}) = Cardinality(Prepared) - 1
  BY <1>1, <1>2, FS_RemoveElement
<1>4. Cardinality(Prepared \ {t}) \in Nat BY <1>3, FS_CardinalityType
<1>5. (Prepared \ {t} = {}) => Cardinality(Prepared \ {t}) = 0 BY FS_EmptySet
<1>6. reader_count = Cardinality(Prepared) /\ reader_count \in Nat
  BY DEF ReadersCounted, TypeOK
<1>7. QED BY <1>3, <1>4, <1>5, <1>6, SMT

LEMMA InitInv == Init => IInv
<1> SUFFICES ASSUME Init PROVE IInv OBVIOUS
<1> USE DEF Init
<1>1. Prepared = {} BY DEF Prepared
<1>2. Cardinality({}) = 0 BY FS_EmptySet
<1>3. TypeOK BY DEF TypeOK
<1>4. ReadersCounted BY <1>1, <1>2 DEF ReadersCounted
<1>5. SerialsBehind BY DEF SerialsBehind
<1>6. NoSleeperForgotten BY DEF NoSleeperForgotten
<1>7. QED BY <1>3, <1>4, <1>5, <1>6 DEF IInv

LEMMA PrepareInv ==
  ASSUME IsFiniteSet(Threads), IInv, NEW t \in Threads, Prepare(t) PROVE IInv'
<1> USE DEF IInv, Prepare
<1>1. TypeOK' BY DEF TypeOK
<1>2. Prepared' = Prepared \cup {t} BY DEF Prepared, TypeOK
<1>3. t \notin Prepared BY DEF Prepared
<1>4. Cardinality(Prepared') = Cardinality(Prepared) + 1
  BY <1>2, <1>3, PreparedFinite, FS_AddElement
<1>5. ReadersCounted' BY <1>4 DEF ReadersCounted
<1>6. SerialsBehind' BY DEF SerialsBehind
<1>7. NoSleeperForgotten' BY <1>2 DEF NoSleeperForgotten
<1>8. QED BY <1>1, <1>5, <1>6, <1>7

(* Leaving the prepared threads, and moving read_serial on when the last   *)
(* does, forgets no one.                                                   *)
LEMMA LeaveInv ==
  ASSUME IsFiniteSet(Threads), IInv, NEW t \in Threads, phase[t] = "prepared",
         phase' = [phase EXCEPT ![t] = "out"], reader_count' = reader_count - 1,
         read_serial' = IF reader_count = 1 THEN read_serial + 1 ELSE read_serial,
         failed' \in BOOLEAN, UNCHANGED serial
  PROVE  IInv'
<1> USE DEF IInv
<1>1. /\ reader_count >= 1
      /\ Cardinality(Prepared \ {t}) = reader_count - 1
      /\ reader_count > 1 => Prepared \ {t} # {}
  BY OneFewer
<1>2. Prepared' = Prepared \ {t} BY DEF Prepared, TypeOK
<1>3. TypeOK' BY <1>1 DEF TypeOK
<1>4. ReadersCounted' BY <1>1, <1>2 DEF ReadersCounted
<1>5. SerialsBehind' BY DEF SerialsBehind, TypeOK
<1>6. NoSleeperForgotten'
  <2>1. CASE reader_count = 1
    <3>1. \A u \in Threads : serial'[u] # read_serial'
      BY <2>1 DEF SerialsBehind, TypeOK
    <3>2. QED BY <3>1 DEF NoSleeperForgotten
  <2>2. CASE reader_count # 1
    <3>1. Prepared' # {} BY <1>1, <1>2, <2>2 DEF TypeOK
    <3>2. QED BY <3>1 DEF NoSleeperForgotten
  <2>3. QED BY <2>1, <2>2
<1>7. QED BY <1>3, <1>4, <1>5, <1>6

LEMMA SleepInv ==
  ASSUME IsFiniteSet(Threads), IInv, NEW t \in Threads, Sleep(t) PROVE IInv'
<1> USE DEF IInv, Sleep
<1>1. /\ Cardinality(Prepared \ {t}) = reader_count - 1
      /\ Prepared \ {t} # {}
  BY OneFewer
<1>2. Prepared' = Prepared \ {t} BY DEF Prepared, TypeOK
<1>3. TypeOK' BY DEF TypeOK
<1>4. ReadersCounted' BY <1>1, <1>2 DEF ReadersCounted
<1>5. SerialsBehind' BY DEF SerialsBehind, TypeOK
<1>6. NoSleeperForgotten' BY <1>1, <1>2 DEF NoSleeperForgotten
<1>7. QED BY <1>3, <1>4, <1>5, <1>6

(* Waking up or failing leaves the prepared threads alone.                 *)
LEMMA OtherInv ==
  ASSUME IInv, \/ \E t \in Threads : WakeUp(t)
               \/ Fail
               \/ ProtocolError
               \/ UNCHANGED vars
  PROVE  IInv'
<1> USE DEF IInv, WakeUp, Fail, ProtocolError, vars
<1>1. Prepared' = Prepared BY DEF Prepared, TypeOK
<1>2. TypeOK'
  <2>1. failed' \in BOOLEAN BY DEF TypeOK
  <2>2. /\ reader_count' \in Nat /\ read_serial' \in Nat
        /\ phase' \in [Threads -> {"out", "prepared", "asleep"}]
        /\ serial' \in [Threads -> Nat]
    BY DEF TypeOK
  <2>3. QED BY <2>1, <2>2 DEF TypeOK
<1>3. ReadersCounted' BY <1>1 DEF ReadersCounted
<1>4. SerialsBehind' BY DEF SerialsBehind, TypeOK
<1>5. NoSleeperForgotten' BY <1>1 DEF NoSleeperForgotten, SerialsBehind, TypeOK
<1>6. QED BY <1>2, <1>3, <1>4, <1>5

LEMMA StepInv == ASSUME IsFiniteSet(Threads) PROVE IInv /\ [Next]_vars => IInv'
<1> SUFFICES ASSUME IInv, [Next]_vars PROVE IInv' OBVIOUS
<1>1. CASE \E t \in Threads : Prepare(t) BY <1>1, PrepareInv
<1>2. CASE \E t \in Threads : Cancel(t)
  <2>1. PICK t \in Threads : Cancel(t) BY <1>2
  <2>2. failed' \in BOOLEAN BY <2>1 DEF Cancel, IInv, TypeOK
  <2>3. QED BY <2>1, <2>2, LeaveInv DEF Cancel
<1>3. CASE \E t \in Threads : Read(t)
  <2>1. PICK t \in Threads : Read(t) BY <1>3
  <2>2. /\ phase[t] = "prepared" /\ phase' = [phase EXCEPT ![t] = "out"]
        /\ reader_count' = reader_count - 1
        /\ read_serial' = IF reader_count = 1 THEN read_serial + 1 ELSE read_serial
    BY <2>1 DEF Read
  <2>3. failed' \in BOOLEAN /\ UNCHANGED serial BY <2>1 DEF Read
  <2>4. QED BY <2>2, <2>3, LeaveInv
<1>4. CASE \E t \in Threads : Sleep(t) BY <1>4, SleepInv
<1>5. CASE (\E t \in Threads : WakeUp(t)) \/ Fail \/ ProtocolError \/ UNCHANGED vars
  BY <1>5, OtherInv
<1>6. QED BY <1>1, <1>2, <1>3, <1>4, <1>5 DEF Next

LEMMA AlwaysInv == ASSUME IsFiniteSet(Threads) PROVE Spec => []IInv
<1>1. Init => IInv BY InitInv
<1>2. IInv /\ [Next]_vars => IInv' BY StepInv
<1>3. QED BY <1>1, <1>2, PTL DEF Spec

(* reader_count is the number of threads that are to read or to cancel,    *)
(* however many threads there are and in whatever order they come and go   *)
(* (wayland-client.c:1604 and :1809).                                      *)
THEOREM ReadersAreCounted == ASSUME IsFiniteSet(Threads) PROVE Spec => []ReadersCounted
<1>1. IInv => ReadersCounted BY DEF IInv
<1>2. QED BY <1>1, AlwaysInv, PTL

(* No thread sleeps on reader_cond without another that will wake it, also *)
(* after an error that is broadcast to nobody (wayland-client.c:207).      *)
THEOREM SleepersAreWoken == ASSUME IsFiniteSet(Threads) PROVE Spec => []NoSleeperForgotten
<1>1. IInv => NoSleeperForgotten BY DEF IInv
<1>2. QED BY <1>1, AlwaysInv, PTL
=============================================================================

-------------------------------- MODULE Channel --------------------------------
(***************************************************************************)
(* What one direction of a connection promises: messages arrive whole, in  *)
(* the order in which they were sent, each with its own file descriptors,  *)
(* and none twice.  Several may arrive at once.  Messages under way when   *)
(* the connection ends never do.                                           *)
(***************************************************************************)
EXTENDS Naturals, Sequences

VARIABLES sent, received

Init == sent = <<>> /\ received = <<>>

IsPrefixOf(s, t) == \E n \in 0..Len(t) : s = SubSeq(t, 1, n)

Send    == /\ Len(sent') > Len(sent) /\ IsPrefixOf(sent, sent')
           /\ UNCHANGED received
Receive == /\ Len(received') > Len(received)
           /\ IsPrefixOf(received, received') /\ IsPrefixOf(received', sent')
           /\ UNCHANGED sent

Next == Send \/ Receive
Spec == Init /\ [][Next]_<<sent, received>>
=============================================================================

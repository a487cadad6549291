------------------------------ MODULE Stream ------------------------------
(***************************************************************************)
(* What the input side of a session promises the player: the text the mud  *)
(* sends is shown once, in the order it was sent.                          *)
(***************************************************************************)
EXTENDS Naturals, Sequences

VARIABLES sent, shown

Init == sent = <<>> /\ shown = <<>>

Write == /\ \E n \in 1..Len(sent') : sent = SubSeq(sent', 1, Len(sent') - n)
         /\ UNCHANGED shown

Show == /\ \E n \in Len(shown) + 1 .. Len(sent) : shown' = SubSeq(sent, 1, n)
        /\ UNCHANGED sent

Next == Write \/ Show

Spec == Init /\ [][Next]_<<sent, shown>>
=============================================================================

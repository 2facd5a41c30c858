----------------------------- MODULE MCDmDelivery -----------------------------
(* DmDelivery for TLC.  Messages are interchangeable.                       *)
EXTENDS DmDelivery, TLC

Symmetry == Permutations(Msgs)
=============================================================================

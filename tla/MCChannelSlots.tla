---------------------------- MODULE MCChannelSlots ----------------------------
(* ChannelSlots for TLC.  Channel keys are interchangeable.                 *)
EXTENDS ChannelSlots, TLC

Symmetry == Permutations(Keys)
=============================================================================

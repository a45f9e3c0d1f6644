---------------------------- MODULE MCKillSwitch ----------------------------
(* Instances of KillSwitch for TLC. *)
EXTENDS KillSwitch, TLC

CONSTANTS s1, s2

TwoSlots == {s1, s2}
Alike == Permutations(TwoSlots)
=============================================================================

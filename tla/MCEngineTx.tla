----------------------------- MODULE MCEngineTx -----------------------------
(* Instances of EngineTx for TLC. *)
EXTENDS EngineTx, TLC

CONSTANTS m1, m2, big

MsgPair == {m1, m2}
OneMsg == {m1}
OneLarge == {big}
Alike == Permutations(MsgPair)
=============================================================================

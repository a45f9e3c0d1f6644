----------------------------- MODULE MCHostLink -----------------------------
(* Instances of HostLink for TLC. *)
EXTENDS HostLink, TLC

CONSTANTS i1, i2, i3, o1, o2

ThreeIn == {i1, i2, i3}
OneOut == {o1}
TwoOut == {o1, o2}
AllCalls == {"get", "send", "conf"}
SendOnly == {"send"}
GetAndConf == {"get", "conf"}
=============================================================================

--------------------------- MODULE MCFragTransfer ---------------------------
(* An instance of FragTransfer for TLC: one sender that asks for             *)
(* acknowledgements and one that does not compete for one reassembly slot.   *)
EXTENDS FragTransfer

CONSTANTS a, b

TwoSources == {a, b}
OnlyA == {a}
OneAndTwo == [s \in TwoSources |-> IF s = a THEN 1 ELSE 2]
JustA == [s \in OnlyA |-> 1]
=============================================================================

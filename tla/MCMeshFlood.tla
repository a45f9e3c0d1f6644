---------------------------- MODULE MCMeshFlood -----------------------------
(* An instance of MeshFlood for TLC: a line of three nodes whose ends cannot *)
(* hear each other, so that copies come back to those who relayed them;    *)
(* windows that remember one sender; sequence numbers that wrap between    *)
(* the first two messages of a node.                                       *)
EXTENDS MeshFlood

Three == {"a", "b", "c"}
Line == [n \in Three |-> IF n = "b" THEN {"a", "c"} ELSE {"b"}]
NoneStrong == {}
All == "all"
Message(s, d, a, h, k) == [src |-> s, dst |-> d, areq |-> a, hops |-> h, number |-> k]
Traffic == {Message("a", "c", TRUE, 0, 0), Message("a", "c", TRUE, 2, 1),
            Message("a", All, FALSE, 1, 2), Message("c", All, FALSE, 3, 0)}
Routes == [n \in Three |->
             CASE n = "a" -> [k \in {"c"} |-> "b"] [] n = "c" -> [k \in {"a"} |-> "b"]
               [] n = "b" -> [k \in {"a", "c"} |-> k]]
BothKinds == {"flooding", "static_drop"}
=============================================================================

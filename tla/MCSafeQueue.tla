----------------------------- MODULE MCSafeQueue -----------------------------
(* SafeQueue with three consumers, for TLC. *)
EXTENDS SafeQueue, TLC

CONSTANTS c1, c2, c3, v1, v2

ThreeConsumers == {c1, c2, c3}
TwoValues == {v1, v2}

AllOperations == {"dequeue", "get", "get2"}
=============================================================================

----------------------------- MODULE MCDlmsList -----------------------------
(* Two meters and an autoclose counter of two bits: three ENABLE AUTO CLOSE  *)
(* commands reach its limit and a fourth wraps it.  The list fills two pages *)
(* and starts a third; the broadcast connection is in it, and one meter is   *)
(* twice.  Three START_CYCLES cross DLMSoTCP's own queries in every order.   *)
EXTENDS DlmsList

MCNode   == {1, 2}
MCNodeOf == [k \in 0 .. 4 |-> CASE k \in {0, 3} -> 1 [] k = 1 -> 0 [] k \in {2, 4} -> 2]
=============================================================================

----------------------------- MODULE MCMngLayer -----------------------------
(* Pages of two records, and five records: two full pages and a short one.   *)
(* The emulator stays silent: DLMSoTCP has the management layer to itself.   *)
EXTENDS MngLayer
=============================================================================

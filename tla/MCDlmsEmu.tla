----------------------------- MODULE MCDlmsEmu -----------------------------
(* Two nodes besides node 0, so that one can be skipped, left behind or be    *)
(* the only one, and two blocks, which the double increment turns into the   *)
(* numbers 1 and 3.  Two events out of turn give three threads of control.   *)
EXTENDS DlmsEmu
=============================================================================

---------------------------- MODULE MCDlmsQueue ----------------------------
(* Four buffers, a limit of two seconds and eight messages: enough to give   *)
(* up several confirms, to have a late one pop somebody else's message, to   *)
(* reuse every buffer and to run out of them.  The run that exhausts the     *)
(* pool has the code's five.                                                 *)
EXTENDS DlmsQueue
=============================================================================

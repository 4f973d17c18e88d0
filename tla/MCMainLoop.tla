----------------------------- MODULE MCMainLoop -----------------------------
(* The CLI, which keeps all its clients, and DLMSoTCP, which keeps one, with *)
(* two slots each.  Two listeners, the serial port, every client and one     *)
(* newcomer for each server take the numbers 1 to MaxFd = 7, so that no      *)
(* accept waits for a descriptor, the CLI's slots fill up and a third client *)
(* is turned away, and closed numbers move from one server to the other.     *)
EXTENDS MainLoop

MCPair == {2, 3}
MCOnlyDlms == {3}
=============================================================================

---------------------------- MODULE MCCliReports ----------------------------
(* Two nodes, two changes and two commands: two lists out together, a list   *)
(* that becomes empty, and a client's read of each PIB before and after the  *)
(* daemon's own.                                                             *)
EXTENDS CliReports
=============================================================================

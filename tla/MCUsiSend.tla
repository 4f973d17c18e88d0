---------------------------- MODULE MCUsiSend ----------------------------
(* Frames of two bytes, two of which fit the buffer and a third does not,    *)
(* and an index of three bits; two requests with the base node at a call's   *)
(* start.                                                                    *)
EXTENDS UsiSend
=============================================================================

--------------------------- MODULE MCUsiReceive ---------------------------
(* Four frames, with an escaped mark, an escaped escape, none and both; the  *)
(* first byte of each is its header.  Two bytes are damaged at any place and *)
(* time.  Two frames of the longest kind fit the backlog.                    *)
EXTENDS UsiReceive

MCFrame   == 1 .. 4
MCContent == <<<<11, Mark>>, <<12, Esc>>, <<13, 23>>, <<14, Esc, Mark>>>>
=============================================================================

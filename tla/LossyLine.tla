----------------------------- MODULE LossyLine -----------------------------
(***************************************************************************)
(* What the serial framing promises of the base node's frames, numbered in *)
(* the order they are sent: each is handed over at most once, whole, and   *)
(* in that order.  Frames may be missed.                                   *)
(***************************************************************************)
EXTENDS Naturals, Sequences

VARIABLES sent,   \* frames the base node has sent
          got     \* frames handed over, oldest first

LineInit == sent = 0 /\ got = <<>>

SendFrame == sent' = sent + 1 /\ got' = got

HandOverFrame(f) ==
  /\ f \in 1 .. sent /\ \A i \in 1 .. Len(got) : got[i] < f
  /\ got' = Append(got, f) /\ sent' = sent

LineNext == SendFrame \/ \E f \in 1 .. sent : HandOverFrame(f)

LineSpec == LineInit /\ [][LineNext]_<<sent, got>>
=============================================================================

----------------------------- MODULE FifoRelay -----------------------------
(***************************************************************************)
(* What the DLMSoTCP relay promises the concentrator, without buffers,     *)
(* confirms or clocks: accepted messages are numbered in the order they    *)
(* arrive, and each is handed to the PRIME stack once, in that order.      *)
(***************************************************************************)
EXTENDS Naturals, Sequences

VARIABLES
  waiting,   \* accepted and not yet handed over
  out        \* handed over, oldest first

relayVars == <<waiting, out>>

RelayInit == waiting = <<>> /\ out = <<>>

Number == Len(out) + Len(waiting) + 1    \* the next message accepted

Accept == waiting' = Append(waiting, Number) /\ UNCHANGED out

HandOver(queue) ==
  /\ queue # <<>>
  /\ out' = Append(out, Head(queue))
  /\ waiting' = Tail(queue)

\* A message may be accepted and one handed over in the same step.
RelayNext == Accept \/ HandOver(waiting) \/ HandOver(Append(waiting, Number))

RelaySpec == RelayInit /\ [][RelayNext]_relayVars
=============================================================================

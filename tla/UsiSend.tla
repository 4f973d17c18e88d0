------------------------------ MODULE UsiSend ------------------------------
(***************************************************************************)
(* hal_usi.c, transmission, as the PRIME API uses it: how a call of        *)
(* PrimeApi becomes bytes on the serial port.  The caller builds its       *)
(* request in the one uc_serial_buf, hal_usi_send_cmd copies it to the one *)
(* puc_txbuf0, encodes it there, and writes until us_idx_in is zero.       *)
(* _process_msg sends frames on to PRIME Manager's client the same way.    *)
(* The emulator's timer handler sends too, between any two steps of either *)
(* and with the same buffers; the device may take less than it is given,   *)
(* or nothing.                                                             *)
(*                                                                         *)
(* All frames are FrameLen bytes.  Bytes are not told apart, only whose    *)
(* frame, if anybody's, the buffer holds.                                  *)
(***************************************************************************)
EXTENDS PrimeApi, Integers, FiniteSets

CONSTANTS
  FrameLen,   \* bytes of an encoded frame
  TxSize,     \* TXAUX_SIZE, 1000 in the code
  Word,       \* us_idx_in is a uint16_t: 65536 in the code
  MaxAsked    \* bound: requests with the base node at a time

ASSUME TxAssumption ==
  /\ FrameLen \in Nat \ {0} /\ TxSize \in Nat /\ Word \in Nat /\ MaxAsked \in Nat
  /\ TxSize < Word

VARIABLES
  stage,      \* where the main thread's transmission is
  payload,    \* the request in uc_serial_buf, and then in the transmission buffer
  mainLen,    \* the main thread's us_len, once it has encoded
  reg,        \* what it is about to take off us_idx_in, and then to store there
  idxIn,      \* usi_cfg_param.us_idx_in
  wrote,      \* what the transmission has put on the line so far
  disturbed,  \* the timer handler came after the transmission had its request built
  slipped     \* a write, or a signal about a write, once made us_idx_in lose count

txVars  == <<stage, payload, mainLen, reg, idxIn, wrote, disturbed, slipped>>
usiVars == <<apiVars, txVars>>

InLoop == {"ready", "writing", "written", "loaded"}   \* the write loop
Stage  == {"none", "selected", "built", "copied"} \cup InLoop

\* What is no request: a frame for PRIME Manager's client, a frame nobody made, and
\* one the device refused.
Forwarded == [app |-> Nobody, what |-> "forwarded"]
Mixed     == [app |-> Nobody, what |-> "mixed"]
Refused   == [app |-> Nobody, what |-> "refused"]

UsiInit ==
  /\ ApiInit
  /\ stage = "none" /\ payload = Idle /\ mainLen = 0 /\ reg = 0 /\ idxIn = 0
  /\ wrote = {} /\ disturbed = FALSE /\ slipped = FALSE

\* Fault: the index is a number without bounds.
MinusUnbounded(a, b) == a - b

\* what a uint16_t holds after a subtraction
Minus(a, b) == (a - b) % Word

-----------------------------------------------------------------------------
(* The main thread: prime_..._request, hal_usi_send_cmd, _usi_encode_and_send. *)

\* A call begins, or an answer is handed over, and its callback may begin one.
ApiStep ==
  /\ stage = "none"
  /\ \/ Cardinality(asked) < MaxAsked /\ \E r \in Request : Call(r)
     \/ NetworkInd
     \/ \E r \in asked : Answer(r) \/ DataCfm(r)
  /\ stage' = IF inCall' = Idle THEN "none" ELSE "selected"
  /\ UNCHANGED <<payload, mainLen, reg, idxIn, wrote, disturbed, slipped>>

\* the call fills uc_serial_buf
Build ==
  /\ stage = "selected"
  /\ stage' = "built" /\ payload' = inCall
  /\ UNCHANGED <<apiVars, mainLen, reg, idxIn, wrote, disturbed, slipped>>

\* _process_msg has a frame for PRIME Manager's client; it stays in the reception buffer
Forward ==
  /\ stage = "none"
  /\ stage' = "built" /\ payload' = Forwarded
  /\ UNCHANGED <<apiVars, mainLen, reg, idxIn, wrote, disturbed, slipped>>

\* what the transmission in progress is to send
Own == IF inCall = Idle THEN Forwarded ELSE inCall

\* The transmission is over, and its call.  A request whose frame is on the line whole
\* reaches the base node or gets lost; its answer is read when the call has returned.
Return ==
  /\ stage' = "none" /\ payload' = Idle /\ mainLen' = 0 /\ reg' = 0
  /\ wrote' = {} /\ disturbed' = FALSE /\ UNCHANGED slipped
  /\ \/ inCall = Idle /\ UNCHANGED apiVars
     \/ /\ inCall # Idle
        /\ inCall' = Idle /\ misrouted' = {} /\ UNCHANGED <<selected, overlapped>>
        /\ \E arrived \in SUBSET (wrote \cap Request) : asked' = asked \cup arrived

\* hal_usi_send_cmd's check, and the one of _usi_encode_and_send
HasRoom == Minus(TxSize, idxIn) >= FrameLen
Fits    == idxIn + FrameLen <= TxSize

\* USI_STATUS_RX_BUFFER_OVERFLOW, USI_STATUS_TX_BUFFER_OVERFLOW: nobody looks at them
NoRoom ==
  /\ stage = "built" /\ ~(HasRoom /\ Fits)
  /\ Return /\ UNCHANGED idxIn

\* Header and payload go to the start of the buffer, check sum and escapes to where
\* us_idx_in says: a frame only when that is the start too.
Copied(p) == IF idxIn = 0 THEN p ELSE Mixed

Copy ==
  /\ stage = "built" /\ HasRoom /\ Fits
  /\ stage' = "copied" /\ payload' = Copied(payload)
  /\ mainLen' = idxIn + FrameLen
  /\ UNCHANGED <<apiVars, reg, idxIn, wrote, disturbed, slipped>>

Encode ==
  /\ stage = "copied"
  /\ stage' = "ready" /\ idxIn' = mainLen
  /\ UNCHANGED <<apiVars, payload, mainLen, reg, wrote, disturbed, slipped>>

\* while (us_idx_in): nothing is left, and the call returns ...
AllSent ==
  /\ stage = "ready" /\ idxIn = 0
  /\ Return /\ UNCHANGED idxIn

\* ... or it writes once more
GoOn ==
  /\ stage = "ready" /\ idxIn # 0
  /\ stage' = "writing"
  /\ UNCHANGED <<apiVars, payload, mainLen, reg, idxIn, wrote, disturbed, slipped>>

\* Every write starts at the start of the buffer and asks for all of it.
WriteAll ==
  /\ stage = "writing"
  /\ stage' = "written" /\ reg' = mainLen /\ wrote' = wrote \cup {payload}
  /\ UNCHANGED <<apiVars, payload, mainLen, idxIn, disturbed, slipped>>

\* A part of the frame; a check sum is never right by chance.
WritePart ==
  /\ stage = "writing"
  /\ stage' = "written" /\ reg' \in 1 .. mainLen - 1 /\ wrote' = wrote \cup {Mixed}
  /\ slipped' = TRUE
  /\ UNCHANGED <<apiVars, payload, mainLen, idxIn, disturbed>>

\* Fault: the frame stays in the buffer.
WriteFailsKeeping ==
  /\ stage = "writing"
  /\ stage' = "written" /\ reg' = 0 /\ wrote' = wrote \cup {Refused}
  /\ UNCHANGED <<apiVars, payload, mainLen, idxIn, disturbed, slipped>>

\* "Discard msg"
WriteFails ==
  /\ stage = "writing"
  /\ stage' = "written" /\ reg' = mainLen /\ wrote' = wrote \cup {Refused}
  /\ UNCHANGED <<apiVars, payload, mainLen, idxIn, disturbed, slipped>>

\* us_idx_in -= ...: it is read, and what is left stored; then on with the loop, or,
\* refused, back to the caller.
Load ==
  /\ stage = "written"
  /\ stage' = "loaded" /\ reg' = Minus(idxIn, reg)
  /\ UNCHANGED <<apiVars, payload, mainLen, idxIn, wrote, disturbed, slipped>>

Store ==
  /\ stage = "loaded"
  /\ idxIn' = reg
  /\ \/ /\ Refused \notin wrote
        /\ stage' = "ready" /\ reg' = 0
        /\ UNCHANGED <<apiVars, payload, mainLen, wrote, disturbed, slipped>>
     \/ Refused \in wrote /\ Return

Write == AllSent \/ GoOn \/ WriteAll \/ WritePart \/ WriteFails \/ Load \/ Store

-----------------------------------------------------------------------------
(* The timer handler, which runs to its end: the same steps on the same buffers. *)

\* What it does to the request or the frame of the transmission it interrupts.  One that
\* had just been copied may be taken, with its check sum, for the handler's own.
Overwrites ==
  /\ \/ stage = "built" /\ payload' = IF inCall = Idle THEN payload ELSE EmuRequest
     \/ stage = "copied" /\ HasRoom /\ payload' \in {Mixed, Copied(EmuRequest)}
     \/ stage \in InLoop /\ HasRoom /\ payload' = Mixed
     \/ stage \in {"none", "selected"} /\ UNCHANGED payload
     \/ stage \in InLoop \cup {"copied"} /\ ~HasRoom /\ UNCHANGED payload
  /\ disturbed' = (stage \notin {"none", "selected"})
  /\ UNCHANGED <<stage, mainLen, reg, wrote, inCall>>

\* Fault: the handler sends without selecting its application.
SignalSelectsNot == EmuRequest \notin asked /\ misrouted' = {} /\ UNCHANGED <<selected, overlapped>>

SignalSelects == EmuRequest \notin asked /\ Select(Emu) /\ misrouted' = {}

SignalRefused ==
  /\ SignalSelects /\ Overwrites
  /\ ~(HasRoom /\ Fits)
  /\ UNCHANGED <<asked, idxIn, slipped>>

\* it comes between the loop's condition and the subtraction that belongs to it
AboutToSubtract == stage \in {"writing", "written"}

\* The device takes all of the frame, or none.
SignalSends ==
  /\ SignalSelects /\ Overwrites
  /\ HasRoom /\ Fits
  /\ idxIn' = 0
  /\ asked' \in {asked} \cup {asked \cup {r} : r \in {Copied(EmuRequest)} \cap Request}
  /\ slipped' = (slipped \/ AboutToSubtract)

\* The device takes a part; then the loop asks for all again, any number of times, until
\* the device refuses all of it or us_idx_in happens to be zero.  What was taken before
\* a refusal is anything but a whole frame.
SignalSendsPart ==
  /\ SignalSelects /\ Overwrites
  /\ HasRoom /\ Fits
  /\ LET n == idxIn + FrameLen
     IN  n > 1 /\ \E taken \in (0 .. Word - 1) \ {n} : idxIn' = Minus(0, taken)
  /\ asked' \in {asked} \cup {asked \cup {r} : r \in {Copied(EmuRequest)} \cap Request}
  /\ slipped' = TRUE

Main   == ApiStep \/ Build \/ Forward \/ NoRoom \/ Copy \/ Encode \/ Write
Signal == SignalRefused \/ SignalSends \/ SignalSendsPart

UsiNext == Main \/ Signal

UsiSpec == UsiInit /\ [][UsiNext]_usiVars

-----------------------------------------------------------------------------
\* Type invariant, PrimeApi's included.
UsiTypeOK ==
  /\ ApiTypeOK
  /\ stage \in Stage
  /\ inCall # Idle => stage # "none"
  /\ stage = "selected" => inCall # Idle
  /\ payload \in Request \cup {Idle, Mixed, Forwarded}
  /\ mainLen \in 0 .. TxSize /\ reg \in 0 .. Word - 1 /\ idxIn \in 0 .. Word - 1
  /\ wrote \in SUBSET (Request \cup {Mixed, Refused, Forwarded})
  /\ disturbed \in BOOLEAN /\ slipped \in BOOLEAN

\* A transmission no signal came into puts its own frame on the line, and nothing else,
\* or the device refused it, or it is longer than the empty buffer: whatever the signals
\* before it interrupted, if us_idx_in never lost count.
UndisturbedIsSent ==
  [][stage # "none" /\ stage' = "none" /\ ~disturbed /\ ~slipped
     => wrote \in {{Own}, {Refused}} \/ FrameLen > TxSize]_usiVars

\* Nothing is left in the transmission buffer between transmissions, unless a write once
\* took a part, or a signal once came between the loop's condition and its subtraction:
\* at every other point of a transmission a signal does no lasting damage.
IdleIsReady == ~slipped /\ stage = "none" => idxIn = 0

\* "Discard msg" (hal_usi.c:642): a request the device does not take is gone when the
\* call returns, and does not stand in the way of the next.
DiscardEmpties ==
  [][inCall # Idle /\ inCall' = Idle /\ Refused \in wrote /\ ~disturbed => idxIn' = 0]_usiVars

\* "Adjust buffer values depending on sent chars" (hal_usi.c:639): once a request has
\* been written whole, nothing of it is left to write.
SentIsTakenOff ==
  [][stage = "loaded" /\ stage' = "ready" /\ wrote = {inCall} => idxIn' = 0]_usiVars
=============================================================================

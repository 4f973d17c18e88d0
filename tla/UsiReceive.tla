----------------------------- MODULE UsiReceive -----------------------------
(***************************************************************************)
(* hal_usi.c, reception.  The base node's frames come between two marks,   *)
(* with marks and escapes in the content escaped.  A read() may cut them   *)
(* anywhere and the line may damage them; each call of hal_usi_process     *)
(* reads once and takes one frame at most out of the buffer.  A frame that *)
(* had to be waited for is checked for its length: this is how the         *)
(* receiver finds out that it takes a closing mark for an opening one.     *)
(*                                                                         *)
(* A frame is its number.  Its first byte stands for the header, which     *)
(* tells length and protocol; its check sum finds every damage.  The base  *)
(* node never has more than Backlog bytes unread, buffer included: beyond  *)
(* that read() is allowed to write past the buffer (hal_usi.c:807).        *)
(***************************************************************************)
EXTENDS Integers, Sequences, FiniteSets, SequencesExt

CONSTANTS
  Frame,      \* the frames, 1 .. n in the order they are sent
  Content,    \* what each holds, before escaping
  MinLen,     \* shortest content there is (4 in the code, header of two bytes)
  Cap,        \* TXAUX_SIZE, 1000 in the code
  Backlog,    \* bound: see above
  MaxDamage   \* bound: bytes the line damages

\* Bytes: 5 stands for noise, larger ones for all that need no escape.
Zero == 0  Mark == 1  Esc == 2  EscMark == 3  EscEsc == 4  Noise == 5

ASSUME RxAssumption ==
  /\ Cardinality(Frame) \in Nat /\ Frame = 1 .. Cardinality(Frame)
  /\ Content \in [Frame -> Seq(Nat)]
  /\ MinLen \in Nat \ {0} /\ Cap \in Nat /\ Backlog \in Nat /\ MaxDamage \in Nat
  /\ \A f, g \in Frame : Len(Content[f]) >= MinLen /\ (Content[f] = Content[g] => f = g)
  /\ 2 * Backlog <= Cap

\* The check sum tells a frame from all else: the byte that stands for it is found
\* nowhere else, and no damage makes one.
ASSUME CheckSumAssumption ==
  \A f, g \in Frame :
    /\ Content[g][1] > Noise
    /\ \A i \in 1 .. Len(Content[f]) : Content[f][i] = Content[g][1] => f = g /\ i = 1

VARIABLES
  rxBuf,      \* puc_rxbuf0
  rxSize,     \* usi_rx_buf.us_size
  checkLen,   \* sb_check_len
  line,       \* bytes on their way, the driver's buffer included
  sentF,      \* frames sent
  delivered,  \* frames handed to a serialization function
  damage,     \* bytes damaged
  calm        \* the last frames sent that each found the receiver settled, undamaged

rxVars == <<rxBuf, rxSize, checkLen, line, sentF, delivered, damage, calm>>

Escaped(b) == CASE b = Mark -> <<Esc, EscMark>>
                [] b = Esc  -> <<Esc, EscEsc>>
                [] OTHER    -> <<b>>

Stuffed(c) == FlattenSeq([i \in 1 .. Len(c) |-> Escaped(c[i])])

Encoded(f) == <<Mark>> \o Stuffed(Content[f]) \o <<Mark>>

\* memchr for a mark in n bytes from position p: its position, if there is one
FirstMark(b, p, n) ==
  {i \in p .. p + n - 1 : b[i] = Mark /\ \A j \in p .. i - 1 : b[j] # Mark}

RxInit ==
  /\ rxBuf = [i \in 1 .. Cap |-> Zero] /\ rxSize = 0 /\ checkLen = FALSE
  /\ line = <<>> /\ sentF = 0 /\ delivered = <<>> /\ damage = 0 /\ calm = <<>>

-----------------------------------------------------------------------------
(* hal_usi_process. *)

\* Fault: what is left behind is not overwritten.
ShiftWithoutPadding(b, k, n) == [i \in 1 .. Cap |-> IF i <= n - k THEN b[i + k] ELSE b[i]]

\* _usi_shift_buffer_left: k of n bytes
ShiftLeft(b, k, n) ==
  [i \in 1 .. Cap |-> IF i <= n - k THEN b[i + k] ELSE IF i <= n THEN Zero ELSE b[i]]

UnknownEscape(s) ==
  \E i \in 1 .. Len(s) - 1 : s[i] = Esc /\ s[i + 1] \notin {EscMark, EscEsc}

\* Fault: the byte after an escape is kept as it is.
DecodedAsIs(s) == SelectSeq(s, LAMBDA b : b # Esc)

\* _decode_copy; nothing for an unknown escape
Decoded(s) ==
  LET plain(i) == IF s[i] # Esc \/ i = Len(s) THEN s[i]
                  ELSE IF s[i + 1] = EscMark THEN Mark ELSE Esc
      upTo[i \in 0 .. Len(s)] ==
        IF i = 0 THEN <<>>
        ELSE IF i > 1 /\ s[i - 1] = Esc THEN upTo[i - 1] ELSE Append(upTo[i - 1], plain(i))
  IN IF UnknownEscape(s) THEN <<>> ELSE upTo[Len(s)]

\* Fault: every length is right.
LengthUnchecked(d) == {TRUE}

\* _check_integrity_len: what it may say of decoded content d.  A header out of the
\* middle of a frame may claim any length.
LengthCheck(d) ==
  IF Len(d) < MinLen THEN {FALSE}
  ELSE IF \E f \in Frame : d[1] = Content[f][1]
       THEN {\E f \in Frame : d[1] = Content[f][1] /\ Len(d) = Len(Content[f])}
       ELSE BOOLEAN

\* _doEoMsg and _process_msg
CheckSumOk(d) == {f \in Frame : d = Content[f]}

HandOver(d) ==
  delivered' = IF CheckSumOk(d) = {} THEN delivered
               ELSE Append(delivered, CHOOSE f \in CheckSumOk(d) : TRUE)

\* The buffer after a read of n bytes
Filled(n) ==
  [i \in 1 .. Cap |-> IF rxSize < i /\ i <= rxSize + n THEN line[i - rxSize] ELSE rxBuf[i]]

\* Fault: the bytes are thrown away and not overwritten.
NoMarkKeeps(b, all) ==
  /\ FirstMark(b, 1, all) = {}
  /\ rxSize' = 0 /\ rxBuf' = b
  /\ UNCHANGED <<checkLen, delivered>>

\* No mark in all the bytes there are: they are thrown away.
NoMark(b, all) ==
  /\ FirstMark(b, 1, all) = {}
  /\ rxSize' = 0 /\ rxBuf' = [i \in 1 .. Cap |-> IF i <= all THEN Zero ELSE b[i]]
  /\ UNCHANGED <<checkLen, delivered>>

\* One mark.  The second search is as long as the first, and so reads beyond what
\* is pending.
OneMark(b, all) == \E i \in FirstMark(b, 1, all) : FirstMark(b, i + 1, all) = {}

\* One mark: wait for the rest.
Wait(b, all) ==
  /\ OneMark(b, all)
  /\ checkLen' = TRUE
  /\ rxSize' = all /\ rxBuf' = b
  /\ UNCHANGED delivered

\* Fault: one byte too many is taken off.
DropOneMore(b, k, all) == rxBuf' = ShiftLeft(b, k, all) /\ rxSize' = all - k - 1

DropFirst(b, k, all) == rxBuf' = ShiftLeft(b, k, all) /\ rxSize' = all - k

\* Two marks: the frame between them; or, when its length shows that they are the
\* end of one frame and the start of another, all before the second mark is dropped.
TakeFrame(b, all) ==
  /\ checkLen' = FALSE
  /\ \E first \in FirstMark(b, 1, all) : \E last \in FirstMark(b, first + 1, all) :
       \E d \in {Decoded(SubSeq(b, first + 1, last - 1))} :
         \/ /\ checkLen /\ FALSE \in LengthCheck(d)
            /\ DropFirst(b, last - 1, all) /\ UNCHANGED delivered
         \/ /\ ~checkLen \/ TRUE \in LengthCheck(d)
            /\ DropFirst(b, last, all) /\ HandOver(d)

Process(n) ==
  /\ rxSize + n > 0
  /\ line' = SubSeq(line, n + 1, Len(line))
  /\ \E b \in {Filled(n)} :
       NoMark(b, rxSize + n) \/ Wait(b, rxSize + n) \/ TakeFrame(b, rxSize + n)
  /\ UNCHANGED <<sentF, damage, calm>>

\* select() found the port readable, and the 10 ms timeout; read() does not block.
PortReadable == \E n \in 1 .. Len(line) : Process(n)
LoopTimeout  == Process(0)

-----------------------------------------------------------------------------
(* The base node and the line. *)

\* Nothing to do before more bytes come: where a frame sent in peace finds the receiver.
Settled == line = <<>> /\ (rxSize = 0 \/ (checkLen /\ OneMark(rxBuf, rxSize)))

Emit ==
  /\ sentF < Cardinality(Frame)
  /\ rxSize + Len(line) + Len(Encoded(sentF + 1)) <= Backlog
  /\ sentF' = sentF + 1
  /\ line' = line \o Encoded(sentF')
  /\ calm' = IF Settled THEN Append(calm, sentF') ELSE <<>>
  /\ UNCHANGED <<rxBuf, rxSize, checkLen, delivered, damage>>

\* A byte is lost, or turned into another.
Damage ==
  /\ damage < MaxDamage /\ damage' = damage + 1
  /\ \E i \in 1 .. Len(line), instead \in {<<>>, <<Mark>>, <<Esc>>, <<Noise>>} :
       line' = SubSeq(line, 1, i - 1) \o instead \o SubSeq(line, i + 1, Len(line))
  /\ calm' = <<>>
  /\ UNCHANGED <<rxBuf, rxSize, checkLen, sentF, delivered>>

RxNext == Emit \/ Damage \/ PortReadable \/ LoopTimeout

RxSpec == RxInit /\ [][RxNext]_rxVars /\ WF_rxVars(PortReadable) /\ WF_rxVars(LoopTimeout)

-----------------------------------------------------------------------------
(* The two bytes of the header that hold the length, the low bits of the second *)
(* being the protocol type; and the bit of the third the PRIME API protocol     *)
(* adds, above its command.                                                     *)
LenHi(len) == (len \div 4) % 256
LenLo(len) == (len % 4) * 64
LenEx(len) == ((len \div 1024) % 2) * 128

LenOf(hi, lo)      == hi * 4 + lo \div 64
XLenOf(hi, lo, ex) == LenOf(hi, lo) + ((ex \div 128) % 2) * 1024

-----------------------------------------------------------------------------
\* Type invariant.
RxTypeOK ==
  /\ rxBuf \in [1 .. Cap -> Nat] /\ rxSize \in 0 .. Backlog /\ checkLen \in BOOLEAN
  /\ line \in Seq(Nat) /\ rxSize + Len(line) <= Backlog
  /\ sentF \in 0 .. Cardinality(Frame) /\ damage \in 0 .. MaxDamage
  /\ delivered \in Seq(Frame) /\ calm \in Seq(Frame)

\* The search for the second mark goes on beyond the bytes received, and finds
\* nothing there: everything beyond them is zero after every shift and discard.
StaleIsZero == \A i \in 1 .. Cap : i > rxSize => rxBuf[i] = Zero

\* However the reads cut the frames and whatever the line does to them, frames are
\* handed over whole, at most once and in the order they were sent.
Line == INSTANCE LossyLine WITH sent <- sentF, got <- delivered
LineImplemented == Line!LineSpec

\* After any damage, the receiver may miss the first frame it gets in peace and no
\* other: it never stays one mark out of step.
ResyncLosesOne ==
  Settled => \A i \in 2 .. Len(calm) : \E k \in 1 .. Len(delivered) : delivered[k] = calm[i]

\* On a line that damages nothing every frame is handed over, however it was cut.
EveryFrameArrives ==
  \A f \in Frame :
    (sentF >= f) ~> (damage > 0 \/ \E k \in 1 .. Len(delivered) : delivered[k] = f)
=============================================================================

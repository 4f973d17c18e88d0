-------------------------- MODULE UsiReceiveProofs --------------------------
(***************************************************************************)
(* Proofs about UsiReceive, for every set of frames, content, buffer and   *)
(* backlog.                                                                *)
(*                                                                         *)
(* Decoding what was escaped gives back the content (by induction on the   *)
(* content, on sets of numbers).  Whatever a step leaves in the buffer, it *)
(* leaves zeros after it, so the over-long second search finds nothing,    *)
(* and a call takes a prefix of the unread bytes away (Consumes).  Hence   *)
(*   - after a wrong step the frames that come in peace are handed over    *)
(*     but the last one or the first (CalmInv): what is unread has no mark *)
(*     to wait for, or ends in the frame, with one mark before it at most; *)
(*   - frames are handed over once and in order, whatever the damage       *)
(*     (InOrder): the headers unread are ordered, after those handed over. *)
(* Last, the header carries every length its reader can ask for.           *)
(***************************************************************************)
EXTENDS UsiReceive, TLAPS, SequenceTheorems, WellFoundedInduction

-----------------------------------------------------------------------------
(* Induction over data: on the set of the numbers for which a statement holds. *)

LEMMA LeastExists ==
  ASSUME NEW S, S \subseteq Nat, S # {}
  PROVE  \E x \in S : \A y \in S : x <= y
<1> DEFINE Less == {p \in Nat \X Nat : p[1] < p[2]}
<1>1. IsWellFoundedOn(Less, Nat)
  BY NatLessThanWellFounded DEF OpToRel
<1>2. PICK x \in S : \A y \in S : ~(<<y, x>> \in Less)
  BY <1>1, WFMin
<1>3. ASSUME NEW y \in S PROVE x <= y
  <2>1. x \in Nat /\ y \in Nat /\ (y < x => <<y, x>> \in Less)
    OBVIOUS
  <2>2. QED
    BY <1>2, <2>1
<1>4. QED
  BY <1>3

LEMMA SetInduction ==
  ASSUME NEW S, 0 \in S, \A k \in Nat : k \in S => k + 1 \in S
  PROVE  \A k \in Nat : k \in S
<1> SUFFICES ASSUME NEW k \in Nat, k \notin S PROVE FALSE
  OBVIOUS
<1> DEFINE Out == {i \in Nat : i \notin S}
<1>1. PICK m \in Out : \A y \in Out : m <= y
  BY LeastExists
<1>2. m # 0 /\ m - 1 \in Nat /\ m - 1 \notin Out
  BY <1>1
<1>3. m - 1 \in S /\ (m - 1) + 1 = m
  BY <1>2
<1>4. QED
  BY <1>1, <1>3


\* g is computed from c in n steps, each from the one before.
Chain(g, n, c, F) == g[0] = c /\ \A i \in 1 .. n : g[i] = F[i][g[i - 1]]

LEMMA ChainExists ==
  ASSUME NEW n \in Nat, NEW S, NEW c \in S, NEW F \in [1 .. n -> [S -> S]]
  PROVE  \E g \in [0 .. n -> S] : Chain(g, n, c, F)
<1> DEFINE Up(k) ==
             \E g \in [0 .. k -> S] : g[0] = c /\ \A i \in 1 .. k : g[i] = F[i][g[i - 1]]
           T == {k \in Nat : k <= n => Up(k)}
<1>1. 0 \in T
  <2>1. Up(0)
    <3> WITNESS [i \in 0 .. 0 |-> c] \in [0 .. 0 -> S]
    <3> QED
      OBVIOUS
  <2>2. QED
    BY <2>1
<1>2. ASSUME NEW k \in Nat, k \in T, k + 1 <= n PROVE Up(k + 1)
  <2>1. Up(k)
    BY <1>2
  <2>2. PICK g \in [0 .. k -> S] : g[0] = c /\ \A i \in 1 .. k : g[i] = F[i][g[i - 1]]
    BY <2>1
  <2> DEFINE new == F[k + 1][g[k]]
             h == [i \in 0 .. k + 1 |-> IF i = k + 1 THEN new ELSE g[i]]
  <2>3. new \in S
    <3>1. k \in 0 .. k /\ k + 1 \in 1 .. n
      BY <1>2
    <3>2. F[k + 1] \in [S -> S] /\ g[k] \in S
      BY <3>1
    <3>3. QED
      BY <3>2
  <2> HIDE DEF new
  <2>4. h \in [0 .. k + 1 -> S]
    BY <2>3
  <2>5. h[0] = c
    BY <2>2
  <2>6. ASSUME NEW i \in 1 .. k + 1 PROVE h[i] = F[i][h[i - 1]]
    <3>1. CASE i = k + 1
      <4>1. h[i] = new /\ h[i - 1] = g[k]
        BY <3>1
      <4>2. QED
        BY <3>1, <4>1 DEF new
    <3>2. CASE i # k + 1
      <4>1. i \in 1 .. k /\ h[i] = g[i] /\ h[i - 1] = g[i - 1]
        BY <3>2
      <4>2. QED
        BY <2>2, <4>1
    <3>3. QED
      BY <3>1, <3>2
  <2> HIDE DEF h
  <2>7. QED
    BY <2>4, <2>5, <2>6
<1> HIDE DEF Up
<1>3. \A k \in Nat : k \in T => k + 1 \in T
  BY <1>2
<1> HIDE DEF T
<1>4. \A k \in Nat : k \in T
  BY <1>1, <1>3, SetInduction
<1>5. n \in T /\ n <= n
  BY <1>4
<1>6. Up(n)
  BY <1>5 DEF T
<1>7. QED
  BY <1>6 DEF Up, Chain

\* The concatenations of the first, the first two, ... of a sequence of sequences.
Concats(g, s) == g[0] = <<>> /\ \A i \in 1 .. Len(s) : g[i] = g[i - 1] \o s[i]

LEMMA ConcatsExist ==
  ASSUME NEW S, NEW s \in Seq(Seq(S))
  PROVE  \E g \in [0 .. Len(s) -> Seq(S)] : Concats(g, s)
<1> DEFINE F == [i \in 1 .. Len(s) |-> [x \in Seq(S) |-> x \o s[i]]]
<1>1. ASSUME NEW i \in 1 .. Len(s), NEW x \in Seq(S) PROVE x \o s[i] \in Seq(S)
  BY ElementOfSeq, ConcatProperties
<1>2. F \in [1 .. Len(s) -> [Seq(S) -> Seq(S)]]
  BY <1>1
<1>3. \A i \in 1 .. Len(s), x \in Seq(S) : F[i][x] = x \o s[i]
  OBVIOUS
<1> HIDE DEF F
<1>4. Len(s) \in Nat /\ <<>> \in Seq(S)
  OBVIOUS
<1>5. \E g \in [0 .. Len(s) -> Seq(S)] : Chain(g, Len(s), <<>>, F)
  BY <1>2, <1>4, ChainExists
<1>6. PICK g \in [0 .. Len(s) -> Seq(S)] :
        g[0] = <<>> /\ \A i \in 1 .. Len(s) : g[i] = F[i][g[i - 1]]
  BY <1>5 DEF Chain
<1>7. ASSUME NEW i \in 1 .. Len(s) PROVE g[i - 1] \in Seq(S)
  <2>1. i - 1 \in 0 .. Len(s)
    BY <1>4
  <2>2. QED
    BY <2>1
<1>8. ASSUME NEW i \in 1 .. Len(s) PROVE g[i] = g[i - 1] \o s[i]
  BY <1>3, <1>6, <1>7
<1>9. QED
  BY <1>6, <1>8 DEF Concats

\* FlattenSeq is the last of them.
LEMMA FlattenIsLast ==
  ASSUME NEW S, NEW s \in Seq(Seq(S)), NEW g \in [0 .. Len(s) -> Seq(S)], Concats(g, s)
  PROVE  FlattenSeq(s) = g[Len(s)]
<1> DEFINE f == CHOOSE f : f = [i \in 1 .. Len(s) |-> IF i = 1 THEN s[i] ELSE f[i - 1] \o s[i]]
<1>1. Len(s) \in Nat /\ (Len(s) = 0 <=> s = <<>>)
  OBVIOUS
<1>2. CASE Len(s) = 0
  BY <1>1, <1>2 DEF FlattenSeq, Concats
<1>3. CASE Len(s) # 0
  <2>1. FlattenSeq(s) = f[Len(s)]
    BY <1>3 DEF FlattenSeq
  <2>2. ASSUME NEW i \in 1 .. Len(s) PROVE g[i] = IF i = 1 THEN s[i] ELSE g[i - 1] \o s[i]
    <3>1. g[i] = g[i - 1] \o s[i] /\ g[0] = <<>>
      BY DEF Concats
    <3>2. s[i] \in Seq(S)
      BY ElementOfSeq
    <3>3. <<>> \o s[i] = s[i]
      BY <3>2, ConcatEmptySeq
    <3>4. i = 1 => g[i - 1] = g[0]
      OBVIOUS
    <3>5. QED
      BY <3>1, <3>3, <3>4
  <2> DEFINE h == [i \in 1 .. Len(s) |-> g[i]]
  <2>3. h = [i \in 1 .. Len(s) |-> IF i = 1 THEN s[i] ELSE h[i - 1] \o s[i]]
    BY <2>2
  <2>4. f = [i \in 1 .. Len(s) |-> IF i = 1 THEN s[i] ELSE f[i - 1] \o s[i]]
    <3> HIDE DEF h
    <3>1. QED
      BY <2>3, Zenon
  <2> HIDE DEF f
  <2> DEFINE T == {k \in Nat : k + 1 <= Len(s) => f[k + 1] = g[k + 1]}
  <2>5. 0 \in T
    BY <2>2, <2>4
  <2>6. ASSUME NEW k \in Nat, k \in T PROVE k + 1 \in T
    <3> SUFFICES ASSUME k + 2 <= Len(s) PROVE f[k + 2] = g[k + 2]
      OBVIOUS
    <3>1. k + 2 \in 1 .. Len(s) /\ k + 2 # 1 /\ (k + 2) - 1 = k + 1 /\ k + 1 <= Len(s)
      BY <1>1
    <3>2. f[k + 1] = g[k + 1]
      BY <2>6, <3>1
    <3>3. f[k + 2] = f[k + 1] \o s[k + 2]
      BY <2>4, <3>1
    <3>4. g[k + 2] = g[k + 1] \o s[k + 2]
      BY <2>2, <3>1
    <3>5. QED
      BY <3>2, <3>3, <3>4
  <2> HIDE DEF T
  <2>7. \A k \in Nat : k \in T
    BY <2>5, <2>6, SetInduction
  <2>8. Len(s) - 1 \in T
    BY <1>1, <1>3, <2>7
  <2>9. f[Len(s)] = g[Len(s)]
    BY <1>1, <1>3, <2>8 DEF T
  <2>10. QED
    BY <2>1, <2>9
<1>4. QED
  BY <1>2, <1>3

LEMMA FlattenType ==
  ASSUME NEW S, NEW s \in Seq(Seq(S))
  PROVE  FlattenSeq(s) \in Seq(S)
<1>1. PICK g \in [0 .. Len(s) -> Seq(S)] : Concats(g, s)
  BY ConcatsExist
<1>2. FlattenSeq(s) = g[Len(s)]
  BY <1>1, FlattenIsLast
<1>3. Len(s) \in 0 .. Len(s)
  OBVIOUS
<1>4. QED
  BY <1>2, <1>3

LEMMA FlattenAppend ==
  ASSUME NEW S, NEW s \in Seq(Seq(S)), NEW x \in Seq(S)
  PROVE  FlattenSeq(Append(s, x)) = FlattenSeq(s) \o x
<1> DEFINE t == Append(s, x)
<1>1. t \in Seq(Seq(S)) /\ Len(s) \in Nat /\ Len(t) = Len(s) + 1
      /\ t[Len(t)] = x /\ \A i \in 1 .. Len(s) : t[i] = s[i]
  OBVIOUS
<1> HIDE DEF t
<1>2. PICK g \in [0 .. Len(t) -> Seq(S)] : Concats(g, t)
  BY <1>1, ConcatsExist
<1> DEFINE h == [i \in 0 .. Len(s) |-> g[i]]
<1>3. h \in [0 .. Len(s) -> Seq(S)]
  BY <1>1
<1>4. Concats(h, s)
  <2>1. h[0] = <<>>
    BY <1>1, <1>2 DEF Concats
  <2>2. ASSUME NEW i \in 1 .. Len(s) PROVE h[i] = h[i - 1] \o s[i]
    <3>1. i \in 1 .. Len(t) /\ i - 1 \in 0 .. Len(s) /\ i \in 0 .. Len(s)
      BY <1>1
    <3>2. QED
      BY <1>1, <1>2, <3>1 DEF Concats
  <2>3. QED
    BY <2>1, <2>2 DEF Concats
<1>5. FlattenSeq(s) = h[Len(s)] /\ FlattenSeq(t) = g[Len(t)]
  BY <1>1, <1>2, <1>3, <1>4, FlattenIsLast
<1>6. g[Len(t)] = g[Len(s)] \o x /\ h[Len(s)] = g[Len(s)]
  <2>1. Len(t) \in 1 .. Len(t) /\ Len(t) - 1 = Len(s) /\ Len(s) \in 0 .. Len(s)
    BY <1>1
  <2>2. QED
    BY <1>1, <1>2, <2>1 DEF Concats
<1>7. QED
  BY <1>5, <1>6 DEF t

-----------------------------------------------------------------------------
(* Escaping, and what decoding makes of it. *)

\* A sequence that is not empty is one element longer than its front.
LEMMA FrontAndLast ==
  ASSUME NEW S, NEW c \in Seq(S), Len(c) # 0
  PROVE  /\ Front(c) \in Seq(S) /\ c[Len(c)] \in S /\ Len(Front(c)) = Len(c) - 1
         /\ c = Append(Front(c), c[Len(c)])
<1>1. /\ Len(c) \in Nat /\ Len(c) \in 1 .. Len(c) /\ c[Len(c)] \in S
      /\ Len(c) - 1 \in Nat /\ (Len(c) - 1) + 1 = Len(c)
  OBVIOUS
<1> DEFINE d == Front(c)
<1>2. d \in Seq(S) /\ Len(d) = Len(c) - 1 /\ \A i \in 1 .. Len(c) - 1 : d[i] = c[i]
  BY <1>1 DEF Front
<1> HIDE DEF d
<1> DEFINE x == c[Len(c)]
           e == Append(d, x)
<1>3. /\ e \in Seq(S) /\ Len(e) = Len(d) + 1 /\ e[Len(d) + 1] = x
      /\ \A i \in 1 .. Len(d) : e[i] = d[i]
  <2>1. x \in S
    BY <1>1
  <2> HIDE DEF x
  <2>2. QED
    BY <1>2, <2>1
<1> HIDE DEF e
<1>4. \A i \in 1 .. Len(c) : e[i] = c[i]
  <2>1. \A n \in Nat : \A i \in 1 .. n : i = n \/ i \in 1 .. n - 1
    OBVIOUS
  <2>2. QED
    BY <1>1, <1>2, <1>3, <2>1
<1>5. c = e
  BY <1>1, <1>2, <1>3, <1>4, SeqEqual
<1>6. QED
  BY <1>1, <1>2, <1>5 DEF d, e

Pieces(c) == [i \in 1 .. Len(c) |-> Escaped(c[i])]

LEMMA EscapedFacts ==
  ASSUME NEW b \in Nat
  PROVE  /\ Escaped(b) \in Seq(Nat)
         /\ b = Mark => Escaped(b) = <<Esc, EscMark>>
         /\ b = Esc => Escaped(b) = <<Esc, EscEsc>>
         /\ b \notin {Mark, Esc} => Escaped(b) = <<b>>
BY DEF Escaped, Mark, Esc, EscMark, EscEsc

LEMMA PiecesFacts ==
  ASSUME NEW c \in Seq(Nat)
  PROVE  Pieces(c) \in Seq(Seq(Nat)) /\ Len(Pieces(c)) = Len(c)
<1>1. \A i \in 1 .. Len(c) : c[i] \in Nat /\ Escaped(c[i]) \in Seq(Nat)
  BY ElementOfSeq, EscapedFacts
<1>2. QED
  BY <1>1 DEF Pieces

LEMMA StuffedFacts ==
  ASSUME NEW c \in Seq(Nat)
  PROVE  /\ Stuffed(c) \in Seq(Nat) /\ Stuffed(<<>>) = <<>>
         /\ \A b \in Nat : Stuffed(Append(c, b)) = Stuffed(c) \o Escaped(b)
<1>1. \A d : Stuffed(d) = FlattenSeq(Pieces(d))
  BY DEF Stuffed, Pieces
<1>2. Stuffed(c) \in Seq(Nat)
  BY <1>1, PiecesFacts, FlattenType
<1>3. Stuffed(<<>>) = <<>>
  <2>1. Pieces(<<>>) \in Seq(Seq(Nat)) /\ Len(Pieces(<<>>)) = 0
    <3>1. <<>> \in Seq(Nat) /\ Len(<<>>) = 0
      OBVIOUS
    <3>2. QED
      BY <3>1, PiecesFacts
  <2>2. Pieces(<<>>) = <<>>
    BY <2>1
  <2>3. FlattenSeq(<<>>) = <<>>
    BY DEF FlattenSeq
  <2>4. QED
    BY <1>1, <2>2, <2>3
<1>4. ASSUME NEW b \in Nat PROVE Stuffed(Append(c, b)) = Stuffed(c) \o Escaped(b)
  <2> DEFINE d == Append(c, b)
             q == Append(Pieces(c), Escaped(b))
  <2>1. d \in Seq(Nat) /\ Len(d) = Len(c) + 1 /\ Len(c) \in Nat /\ d[Len(c) + 1] = b
        /\ \A i \in 1 .. Len(c) : d[i] = c[i]
    OBVIOUS
  <2>2. Pieces(c) \in Seq(Seq(Nat)) /\ Len(Pieces(c)) = Len(c) /\ Escaped(b) \in Seq(Nat)
    BY PiecesFacts, EscapedFacts
  <2>3. Pieces(d) \in Seq(Seq(Nat)) /\ Len(Pieces(d)) = Len(d)
    BY <2>1, PiecesFacts
  <2>4. q \in Seq(Seq(Nat)) /\ Len(q) = Len(c) + 1 /\ q[Len(c) + 1] = Escaped(b)
        /\ \A i \in 1 .. Len(c) : q[i] = Pieces(c)[i]
    BY <2>1, <2>2
  <2>5. \A i \in 1 .. Len(d) : Pieces(d)[i] = q[i]
    BY <2>1, <2>4 DEF Pieces
  <2> HIDE DEF d, q
  <2>6. Pieces(d) = q
    BY <2>1, <2>3, <2>4, <2>5, SeqEqual
  <2>7. FlattenSeq(q) = FlattenSeq(Pieces(c)) \o Escaped(b)
    BY <2>2, FlattenAppend DEF q
  <2>8. QED
    BY <1>1, <2>6, <2>7 DEF d
<1>5. QED
  BY <1>2, <1>3, <1>4

\* The byte the decoder keeps of position i.
Plain(s, i) ==
  IF s[i] # Esc \/ i = Len(s) THEN s[i] ELSE IF s[i + 1] = EscMark THEN Mark ELSE Esc

\* g[i] is what the decoder has kept of the first i bytes of s.
Decodes(g, s) ==
  /\ g[0] = <<>>
  /\ \A i \in 1 .. Len(s) :
       g[i] = IF i > 1 /\ s[i - 1] = Esc THEN g[i - 1] ELSE Append(g[i - 1], Plain(s, i))

LEMMA DecodedIsLast ==
  ASSUME NEW s \in Seq(Nat), ~UnknownEscape(s),
         NEW g \in [0 .. Len(s) -> Seq(Nat)], Decodes(g, s)
  PROVE  Decoded(s) = g[Len(s)]
<1> DEFINE f == CHOOSE f :
             f = [i \in 0 .. Len(s) |->
                   IF i = 0 THEN <<>>
                   ELSE IF i > 1 /\ s[i - 1] = Esc THEN f[i - 1]
                        ELSE Append(f[i - 1], Plain(s, i))]
<1>1. Len(s) \in Nat
  OBVIOUS
<1>2. Decoded(s) = f[Len(s)]
  BY DEF Decoded, Plain
<1>3. g = [i \in 0 .. Len(s) |->
            IF i = 0 THEN <<>>
            ELSE IF i > 1 /\ s[i - 1] = Esc THEN g[i - 1] ELSE Append(g[i - 1], Plain(s, i))]
  <2>1. ASSUME NEW i \in 0 .. Len(s)
        PROVE  g[i] = IF i = 0 THEN <<>>
                      ELSE IF i > 1 /\ s[i - 1] = Esc THEN g[i - 1]
                           ELSE Append(g[i - 1], Plain(s, i))
    <3>1. i # 0 => i \in 1 .. Len(s)
      BY <1>1
    <3>2. QED
      BY <3>1 DEF Decodes
  <2>2. QED
    BY <2>1
<1>4. f = [i \in 0 .. Len(s) |->
            IF i = 0 THEN <<>>
            ELSE IF i > 1 /\ s[i - 1] = Esc THEN f[i - 1] ELSE Append(f[i - 1], Plain(s, i))]
  BY <1>3, Zenon
<1> HIDE DEF f
<1> DEFINE T == {k \in Nat : k <= Len(s) => f[k] = g[k]}
<1>5. 0 \in T
  BY <1>1, <1>4 DEF Decodes
<1>6. ASSUME NEW k \in Nat, k \in T PROVE k + 1 \in T
  <2> SUFFICES ASSUME k + 1 <= Len(s) PROVE f[k + 1] = g[k + 1]
    OBVIOUS
  <2>1. k + 1 \in 1 .. Len(s) /\ k + 1 \in 0 .. Len(s) /\ k + 1 # 0 /\ (k + 1) - 1 = k
    BY <1>1
  <2>2. f[k] = g[k]
    BY <1>6, <2>1
  <2>3. g[k + 1] = IF k + 1 > 1 /\ s[k] = Esc THEN g[k] ELSE Append(g[k], Plain(s, k + 1))
    BY <2>1 DEF Decodes
  <2>4. f[k + 1] = IF k + 1 > 1 /\ s[k] = Esc THEN f[k] ELSE Append(f[k], Plain(s, k + 1))
    BY <1>4, <2>1
  <2>5. QED
    BY <2>2, <2>3, <2>4
<1> HIDE DEF T
<1>7. \A k \in Nat : k \in T
  BY <1>5, <1>6, SetInduction
<1>8. f[Len(s)] = g[Len(s)]
  BY <1>1, <1>7 DEF T
<1>9. QED
  BY <1>2, <1>8

\* What escaping makes of a content: no mark, no escape but before one of its two codes,
\* and bytes the decoder can follow to the content's end.
WellStuffed(s, c) ==
  /\ Len(s) >= Len(c)
  /\ \A i \in 1 .. Len(s) : s[i] # Mark
  /\ \A i \in 1 .. Len(s) : s[i] = Esc => i < Len(s) /\ s[i + 1] \in {EscMark, EscEsc}
  /\ \E g \in [0 .. Len(s) -> Seq(Nat)] : Decodes(g, s) /\ g[Len(s)] = c

\* One byte more, as it is.
LEMMA StuffedPlain ==
  ASSUME NEW s \in Seq(Nat), NEW c \in Seq(Nat), WellStuffed(s, c),
         NEW b \in Nat, b \notin {Mark, Esc}
  PROVE  WellStuffed(Append(s, b), Append(c, b))
<1> DEFINE t == Append(s, b)
           n == Len(s)
<1>1. n = Len(s) /\ n \in Nat /\ t \in Seq(Nat) /\ Len(t) = n + 1 /\ t[n + 1] = b
      /\ \A i \in 1 .. n : t[i] = s[i] /\ i \in 1 .. n + 1
  OBVIOUS
<1>2. /\ n >= Len(c)
      /\ \A i \in 1 .. n : s[i] # Mark
      /\ \A i \in 1 .. n : s[i] = Esc => i < n /\ s[i + 1] \in {EscMark, EscEsc}
  BY DEF WellStuffed
<1>3. PICK g \in [0 .. n -> Seq(Nat)] :
        /\ g[0] = <<>> /\ g[n] = c
        /\ \A i \in 1 .. n :
             g[i] = IF i > 1 /\ s[i - 1] = Esc THEN g[i - 1] ELSE Append(g[i - 1], Plain(s, i))
  BY DEF WellStuffed, Decodes
<1> HIDE DEF t, n
<1>4. \A i \in 1 .. n + 1 : i = n + 1 \/ i \in 1 .. n
  BY <1>1
<1> DEFINE h == [i \in 0 .. n + 1 |-> IF i = n + 1 THEN Append(c, b) ELSE g[i]]
<1>5. h \in [0 .. n + 1 -> Seq(Nat)] /\ h[n + 1] = Append(c, b)
      /\ \A i \in 0 .. n : h[i] = g[i]
  BY <1>1
<1> HIDE DEF h
<1>6. ASSUME NEW i \in 1 .. n + 1
      PROVE  h[i] = IF i > 1 /\ t[i - 1] = Esc THEN h[i - 1] ELSE Append(h[i - 1], Plain(t, i))
  <2>1. CASE i = n + 1
    <3>1. Plain(t, i) = b /\ h[i - 1] = c
      BY <1>1, <1>3, <1>5, <2>1 DEF Plain
    <3>2. ~(i > 1 /\ t[i - 1] = Esc)
      <4>1. i > 1 => i - 1 \in 1 .. n /\ t[i - 1] = s[i - 1] /\ ~(i - 1 < n)
        BY <1>1, <2>1
      <4>2. QED
        BY <1>2, <4>1
    <3>3. QED
      BY <1>5, <2>1, <3>1, <3>2
  <2>2. CASE i \in 1 .. n
    <3>1. Plain(t, i) = Plain(s, i)
      <4>1. s[i] = Esc => i < n /\ i + 1 \in 1 .. n
        BY <1>1, <1>2, <2>2
      <4>2. QED
        BY <1>1, <2>2, <4>1 DEF Plain
    <3>2. h[i] = g[i] /\ h[i - 1] = g[i - 1] /\ (i > 1 => t[i - 1] = s[i - 1])
      <4>1. i \in 0 .. n /\ i - 1 \in 0 .. n /\ (i > 1 => i - 1 \in 1 .. n)
        BY <1>1, <2>2
      <4>2. QED
        BY <1>1, <1>5, <4>1
    <3>3. QED
      BY <1>3, <2>2, <3>1, <3>2
  <2>3. QED
    BY <1>4, <2>1, <2>2
<1>7. Decodes(h, t)
  BY <1>1, <1>3, <1>5, <1>6 DEF Decodes
<1>8. \A i \in 1 .. n + 1 : t[i] # Mark
  BY <1>1, <1>2, <1>4
<1>9. ASSUME NEW i \in 1 .. n + 1, t[i] = Esc PROVE i < n + 1 /\ t[i + 1] \in {EscMark, EscEsc}
  <2>1. i \in 1 .. n /\ s[i] = Esc
    BY <1>1, <1>4, <1>9
  <2>2. i < n /\ s[i + 1] \in {EscMark, EscEsc}
    BY <1>2, <2>1
  <2>3. i + 1 \in 1 .. n
    BY <1>1, <2>1, <2>2
  <2>4. t[i + 1] = s[i + 1]
    BY <1>1, <2>3
  <2>5. QED
    BY <1>1, <2>2, <2>4
<1>10. h[Len(t)] = Append(c, b) /\ Len(t) >= Len(Append(c, b))
  <2>1. Len(Append(c, b)) = Len(c) + 1 /\ Len(c) \in Nat
    OBVIOUS
  <2>2. QED
    BY <1>1, <1>2, <1>5, <2>1
<1>11. QED
  BY <1>1, <1>5, <1>7, <1>8, <1>9, <1>10 DEF WellStuffed, t

\* One byte more, a mark or an escape, as two.
LEMMA StuffedEscape ==
  ASSUME NEW s \in Seq(Nat), NEW c \in Seq(Nat), WellStuffed(s, c),
         NEW b \in {Mark, Esc}, NEW code, code = IF b = Mark THEN EscMark ELSE EscEsc
  PROVE  WellStuffed(s \o <<Esc, code>>, Append(c, b))
<1> DEFINE t == s \o <<Esc, code>>
           n == Len(s)
<1>1. /\ n = Len(s) /\ n \in Nat /\ t \in Seq(Nat) /\ Len(t) = n + 2
      /\ t[n + 1] = Esc /\ t[n + 2] = code
      /\ \A i \in 1 .. n : t[i] = s[i] /\ i \in 1 .. n + 2
  <2>1. <<Esc, code>> \in Seq(Nat) /\ Len(<<Esc, code>>) = 2
        /\ <<Esc, code>>[1] = Esc /\ <<Esc, code>>[2] = code
    BY DEF Esc, EscMark, EscEsc
  <2>2. /\ t \in Seq(Nat) /\ Len(t) = n + 2 /\ n \in Nat
        /\ \A i \in 1 .. n + 2 : t[i] = IF i <= n THEN s[i] ELSE <<Esc, code>>[i - n]
    BY <2>1, ConcatProperties
  <2> HIDE DEF t
  <2>3. t[n + 1] = Esc /\ t[n + 2] = code
    <3>1. n + 1 \in 1 .. n + 2 /\ ~(n + 1 <= n) /\ (n + 1) - n = 1
          /\ n + 2 \in 1 .. n + 2 /\ ~(n + 2 <= n) /\ (n + 2) - n = 2
      BY <2>2
    <3>2. QED
      BY <2>1, <2>2, <3>1
  <2>4. \A i \in 1 .. n : t[i] = s[i] /\ i \in 1 .. n + 2
    <3>1. \A i \in 1 .. n : i \in 1 .. n + 2 /\ i <= n
      BY <2>2
    <3>2. QED
      BY <2>2, <3>1
  <2>5. QED
    BY <2>2, <2>3, <2>4
<1>2. /\ n >= Len(c)
      /\ \A i \in 1 .. n : s[i] # Mark
      /\ \A i \in 1 .. n : s[i] = Esc => i < n /\ s[i + 1] \in {EscMark, EscEsc}
  BY DEF WellStuffed
<1>3. PICK g \in [0 .. n -> Seq(Nat)] :
        /\ g[0] = <<>> /\ g[n] = c
        /\ \A i \in 1 .. n :
             g[i] = IF i > 1 /\ s[i - 1] = Esc THEN g[i - 1] ELSE Append(g[i - 1], Plain(s, i))
  BY DEF WellStuffed, Decodes
<1> HIDE DEF t, n
<1>4. \A i \in 1 .. n + 2 : i = n + 2 \/ i = n + 1 \/ i \in 1 .. n
  <2>1. n \in Nat
    BY <1>1
  <2>2. QED
    BY <2>1
<1>5. Append(c, b) \in Seq(Nat) /\ Len(Append(c, b)) = Len(c) + 1 /\ Len(c) \in Nat
  BY DEF Mark, Esc
<1> DEFINE h == [i \in 0 .. n + 2 |-> IF i > n THEN Append(c, b) ELSE g[i]]
<1>6. h \in [0 .. n + 2 -> Seq(Nat)] /\ h[n + 1] = Append(c, b) /\ h[n + 2] = Append(c, b)
      /\ \A i \in 0 .. n : h[i] = g[i]
  BY <1>1, <1>5
<1> HIDE DEF h
<1>7. ASSUME NEW i \in 1 .. n + 2
      PROVE  h[i] = IF i > 1 /\ t[i - 1] = Esc THEN h[i - 1] ELSE Append(h[i - 1], Plain(t, i))
  <2>1. CASE i = n + 2
    <3>1. i > 1 /\ i - 1 = n + 1
      BY <1>1, <2>1
    <3>2. QED
      BY <1>1, <1>6, <2>1, <3>1
  <2>2. CASE i = n + 1
    <3>1. Plain(t, i) = b
      BY <1>1, <2>2 DEF Plain, Mark, Esc, EscMark, EscEsc
    <3>2. h[i - 1] = c
      BY <1>1, <1>3, <1>6, <2>2
    <3>3. ~(i > 1 /\ t[i - 1] = Esc)
      <4>1. i > 1 => i - 1 \in 1 .. n /\ t[i - 1] = s[i - 1] /\ ~(i - 1 < n)
        BY <1>1, <2>2
      <4>2. QED
        BY <1>2, <4>1
    <3>4. QED
      BY <1>6, <2>2, <3>1, <3>2, <3>3
  <2>3. CASE i \in 1 .. n
    <3>1. Plain(t, i) = Plain(s, i)
      <4>1. i \in 1 .. n + 1 /\ t[i] = s[i] /\ i # n + 1
        BY <1>1, <2>3
      <4>2. CASE s[i] = Esc
        <5>1. i < n /\ i + 1 \in 1 .. n
          BY <1>1, <1>2, <2>3, <4>2
        <5>2. t[i + 1] = s[i + 1]
          BY <1>1, <5>1
        <5>3. i # Len(t) /\ i # Len(s)
          BY <1>1, <4>1, <5>1
        <5>4. QED
          BY <4>1, <4>2, <5>2, <5>3 DEF Plain
      <4>3. CASE s[i] # Esc
        BY <4>1, <4>3 DEF Plain
      <4>4. QED
        BY <4>2, <4>3
    <3>2. h[i] = g[i] /\ h[i - 1] = g[i - 1] /\ (i > 1 => t[i - 1] = s[i - 1])
      <4>1. i \in 0 .. n /\ i - 1 \in 0 .. n /\ (i > 1 => i - 1 \in 1 .. n)
        BY <1>1, <2>3
      <4>2. QED
        BY <1>1, <1>6, <4>1
    <3>3. QED
      BY <1>3, <2>3, <3>1, <3>2
  <2>4. QED
    BY <1>4, <2>1, <2>2, <2>3
<1>8. Decodes(h, t)
  BY <1>1, <1>3, <1>6, <1>7 DEF Decodes
<1>9. \A i \in 1 .. n + 2 : t[i] # Mark
  <2>1. t[n + 1] # Mark /\ t[n + 2] # Mark
    BY <1>1 DEF Mark, Esc, EscMark, EscEsc
  <2>2. \A i \in 1 .. n : t[i] # Mark
    BY <1>1, <1>2
  <2>3. QED
    BY <1>4, <2>1, <2>2
<1>10. ASSUME NEW i \in 1 .. n + 2, t[i] = Esc
       PROVE  i < n + 2 /\ t[i + 1] \in {EscMark, EscEsc}
  <2>1. CASE i = n + 2
    BY <1>1, <1>10, <2>1 DEF Esc, EscMark, EscEsc
  <2>2. CASE i = n + 1
    BY <1>1, <2>2
  <2>3. CASE i \in 1 .. n
    <3>1. s[i] = Esc
      BY <1>1, <1>10, <2>3
    <3>2. i < n /\ s[i + 1] \in {EscMark, EscEsc}
      BY <1>2, <2>3, <3>1
    <3>3. i + 1 \in 1 .. n
      BY <1>1, <2>3, <3>2
    <3>4. t[i + 1] = s[i + 1]
      BY <1>1, <3>3
    <3>5. QED
      BY <1>1, <3>2, <3>4
  <2>4. QED
    BY <1>4, <2>1, <2>2, <2>3
<1>11. h[Len(t)] = Append(c, b) /\ Len(t) >= Len(Append(c, b))
  BY <1>1, <1>2, <1>5, <1>6
<1>12. QED
  BY <1>1, <1>6, <1>8, <1>9, <1>10, <1>11 DEF WellStuffed, t

\* Every content is well stuffed.
LEMMA StuffedIsWell ==
  ASSUME NEW c \in Seq(Nat)
  PROVE  Stuffed(c) \in Seq(Nat) /\ WellStuffed(Stuffed(c), c)
<1> DEFINE T == {k \in Nat : \A d \in Seq(Nat) : Len(d) = k => WellStuffed(Stuffed(d), d)}
<1>1. 0 \in T
  <2> SUFFICES ASSUME NEW d \in Seq(Nat), Len(d) = 0 PROVE WellStuffed(Stuffed(d), d)
    OBVIOUS
  <2>1. d = <<>> /\ Stuffed(d) = <<>>
    BY StuffedFacts
  <2>2. WellStuffed(<<>>, <<>>)
    <3>1. Decodes([i \in 0 .. 0 |-> <<>>], <<>>)
      BY DEF Decodes
    <3>2. [i \in 0 .. 0 |-> <<>>] \in [0 .. 0 -> Seq(Nat)] /\ Len(<<>>) = 0
          /\ [i \in 0 .. 0 |-> <<>>][0] = <<>>
      OBVIOUS
    <3>3. \E g \in [0 .. 0 -> Seq(Nat)] : Decodes(g, <<>>) /\ g[0] = <<>>
      BY <3>1, <3>2
    <3>4. QED
      BY <3>3 DEF WellStuffed
  <2>3. QED
    BY <2>1, <2>2
<1>2. ASSUME NEW k \in Nat, k \in T PROVE k + 1 \in T
  <2> SUFFICES ASSUME NEW d \in Seq(Nat), Len(d) = k + 1 PROVE WellStuffed(Stuffed(d), d)
    OBVIOUS
  <2> DEFINE e == Front(d)
             b == d[Len(d)]
  <2>1. e \in Seq(Nat) /\ b \in Nat /\ Len(e) = k /\ d = Append(e, b)
    BY FrontAndLast
  <2> HIDE DEF e, b
  <2>2. Stuffed(e) \in Seq(Nat) /\ WellStuffed(Stuffed(e), e)
        /\ Stuffed(d) = Stuffed(e) \o Escaped(b)
    BY <1>2, <2>1, StuffedFacts
  <2>3. CASE b \notin {Mark, Esc}
    <3>1. Escaped(b) = <<b>>
      BY <2>1, <2>3, EscapedFacts
    <3>2. Stuffed(d) = Stuffed(e) \o <<b>>
      BY <2>2, <3>1
    <3>3. \A s \in Seq(Nat) : s \o <<b>> = Append(s, b)
      OBVIOUS
    <3>4. WellStuffed(Append(Stuffed(e), b), Append(e, b))
      BY <2>1, <2>2, <2>3, StuffedPlain
    <3>5. QED
      BY <2>1, <2>2, <3>2, <3>3, <3>4
  <2>4. CASE b \in {Mark, Esc}
    <3>1. Escaped(b) = <<Esc, IF b = Mark THEN EscMark ELSE EscEsc>>
      BY <2>4, EscapedFacts DEF Mark, Esc
    <3>2. QED
      BY <2>1, <2>2, <2>4, <3>1, StuffedEscape
  <2>5. QED
    BY <2>3, <2>4
<1> HIDE DEF T
<1>3. \A k \in Nat : k \in T
  BY <1>1, <1>2, SetInduction
<1>4. Len(c) \in T
  BY <1>3
<1>5. QED
  BY <1>4, StuffedFacts DEF T

\* Decoding gives back what was escaped, whatever marks and escapes it holds.
THEOREM DecodingInvertsEscaping ==
  ASSUME NEW c \in Seq(Nat)
  PROVE  Decoded(Stuffed(c)) = c
<1> DEFINE s == Stuffed(c)
<1>1. s \in Seq(Nat) /\ WellStuffed(s, c)
  BY StuffedIsWell
<1> HIDE DEF s
<1>2. ~UnknownEscape(s)
  BY <1>1 DEF WellStuffed, UnknownEscape
<1>3. PICK g \in [0 .. Len(s) -> Seq(Nat)] : Decodes(g, s) /\ g[Len(s)] = c
  BY <1>1 DEF WellStuffed
<1>4. Decoded(s) = c
  BY <1>1, <1>2, <1>3, DecodedIsLast
<1>5. QED
  BY <1>4 DEF s


\* A frame on the line: two marks, and none between them.
LEMMA EncodedFacts ==
  ASSUME NEW f \in Frame
  PROVE  /\ Content[f] \in Seq(Nat) /\ Len(Content[f]) \in Nat \ {0}
         /\ Encoded(f) \in Seq(Nat) /\ Stuffed(Content[f]) \in Seq(Nat)
         /\ Len(Stuffed(Content[f])) \in Nat
         /\ Len(Encoded(f)) = Len(Stuffed(Content[f])) + 2
         /\ Encoded(f)[1] = Mark /\ Encoded(f)[Len(Encoded(f))] = Mark
         /\ \A i \in 1 .. Len(Stuffed(Content[f])) :
              Encoded(f)[i + 1] = Stuffed(Content[f])[i] /\ Stuffed(Content[f])[i] # Mark
<1> DEFINE s == Stuffed(Content[f])
           n == Len(s)
           m == <<Mark>>
           ms == m \o s
           e == ms \o m
<1>1. Content[f] \in Seq(Nat) /\ Len(Content[f]) \in Nat \ {0}
  BY RxAssumption
<1>2. s \in Seq(Nat) /\ WellStuffed(s, Content[f])
  BY <1>1, StuffedIsWell
<1>3. n \in Nat /\ \A i \in 1 .. n : s[i] # Mark
  BY <1>2 DEF WellStuffed
<1>4. m \in Seq(Nat) /\ Len(m) = 1 /\ m[1] = Mark
  BY DEF Mark
<1>5. Encoded(f) = e
  BY DEF Encoded
<1> HIDE DEF s, m
<1>6. /\ ms \in Seq(Nat) /\ Len(ms) = n + 1
      /\ \A i \in 1 .. n + 1 : ms[i] = IF i <= 1 THEN m[i] ELSE s[i - 1]
  <2>1. /\ ms \in Seq(Nat) /\ Len(ms) = Len(m) + Len(s)
        /\ \A i \in 1 .. Len(m) + Len(s) : ms[i] = IF i <= Len(m) THEN m[i] ELSE s[i - Len(m)]
    BY <1>2, <1>4, ConcatProperties
  <2>2. Len(m) + Len(s) = n + 1
    BY <1>3, <1>4
  <2>3. QED
    BY <1>4, <2>1, <2>2
<1> HIDE DEF ms
<1>7. /\ e \in Seq(Nat) /\ Len(e) = n + 2
      /\ \A i \in 1 .. n + 2 : e[i] = IF i <= n + 1 THEN ms[i] ELSE m[i - (n + 1)]
  <2>1. /\ e \in Seq(Nat) /\ Len(e) = Len(ms) + Len(m)
        /\ \A i \in 1 .. Len(ms) + Len(m) :
             e[i] = IF i <= Len(ms) THEN ms[i] ELSE m[i - Len(ms)]
    BY <1>4, <1>6, ConcatProperties
  <2>2. Len(ms) + Len(m) = n + 2
    BY <1>3, <1>4, <1>6
  <2>3. QED
    BY <1>6, <2>1, <2>2
<1> HIDE DEF n, e
<1>8. e[1] = Mark
  <2>1. 1 \in 1 .. n + 1 /\ 1 \in 1 .. n + 2 /\ 1 <= n + 1
    BY <1>3
  <2>2. e[1] = ms[1] /\ ms[1] = m[1]
    BY <1>6, <1>7, <2>1
  <2>3. QED
    BY <1>4, <2>2
<1>9. e[n + 2] = Mark
  <2>1. n + 2 \in 1 .. n + 2 /\ ~(n + 2 <= n + 1) /\ (n + 2) - (n + 1) = 1
    BY <1>3
  <2>2. QED
    BY <1>4, <1>7, <2>1
<1>10. ASSUME NEW i \in 1 .. n PROVE e[i + 1] = s[i]
  <2>1. i + 1 \in 1 .. n + 1 /\ i + 1 \in 1 .. n + 2 /\ ~(i + 1 <= 1) /\ (i + 1) - 1 = i
        /\ i + 1 <= n + 1
    BY <1>3
  <2>2. QED
    BY <1>6, <1>7, <2>1
<1>11. QED
  BY <1>1, <1>2, <1>3, <1>5, <1>7, <1>8, <1>9, <1>10 DEF n, s

-----------------------------------------------------------------------------
(* One call of hal_usi_process. *)

\* The bytes received and not yet taken, and those still on the line.
Unread ==
  [i \in 1 .. rxSize + Len(line) |-> IF i <= rxSize THEN rxBuf[i] ELSE line[i - rxSize]]

LEMMA UnreadFacts ==
  ASSUME RxTypeOK
  PROVE  /\ rxSize \in Nat /\ Len(line) \in Nat
         /\ Unread \in Seq(Nat) /\ Len(Unread) = rxSize + Len(line)
<1>1. rxSize \in Nat /\ Len(line) \in Nat /\ rxSize <= Backlog /\ Backlog <= Cap
      /\ Backlog \in Nat /\ Cap \in Nat /\ rxBuf \in [1 .. Cap -> Nat] /\ line \in Seq(Nat)
  BY RxAssumption DEF RxTypeOK
<1>2. ASSUME NEW i \in 1 .. rxSize + Len(line)
      PROVE  (IF i <= rxSize THEN rxBuf[i] ELSE line[i - rxSize]) \in Nat
  <2>1. CASE i <= rxSize
    <3>1. i \in 1 .. Cap
      BY <1>1, <2>1
    <3>2. QED
      BY <1>1, <2>1, <3>1
  <2>2. CASE ~(i <= rxSize)
    <3>1. i - rxSize \in 1 .. Len(line)
      BY <1>1, <2>2
    <3>2. QED
      BY <1>1, <2>2, <3>1, ElementOfSeq
  <2>3. QED
    BY <2>1, <2>2
<1>3. Unread \in [1 .. rxSize + Len(line) -> Nat]
  BY <1>2 DEF Unread
<1> DEFINE k == rxSize + Len(line)
<1>4. k \in Nat
  BY <1>1
<1>5. Unread \in Seq(Nat) /\ Len(Unread) = k
  <2>1. Unread \in [1 .. k -> Nat]
    BY <1>3
  <2> HIDE DEF k
  <2>2. QED
    BY <1>4, <2>1
<1>6. QED
  BY <1>1, <1>5

\* After a read the buffer begins with the unread bytes; beyond these it is zero.
LEMMA FilledFacts ==
  ASSUME RxTypeOK, StaleIsZero, NEW n \in 0 .. Len(line)
  PROVE  /\ rxSize + n \in Nat /\ 2 * (rxSize + n) <= Cap /\ Cap \in Nat
         /\ rxSize + n <= Len(Unread) /\ rxSize + n <= Backlog
         /\ Filled(n) \in [1 .. Cap -> Nat]
         /\ \A i \in 1 .. rxSize + n : i \in 1 .. Cap /\ Filled(n)[i] = Unread[i]
         /\ \A i \in 1 .. Cap : i > rxSize + n => Filled(n)[i] = Zero
<1>1. rxSize \in Nat /\ Len(line) \in Nat /\ rxSize + Len(line) <= Backlog /\ 2 * Backlog <= Cap
      /\ Backlog \in Nat /\ Cap \in Nat /\ rxBuf \in [1 .. Cap -> Nat] /\ line \in Seq(Nat)
  BY RxAssumption DEF RxTypeOK
<1>2. ASSUME NEW i \in 1 .. Cap
      PROVE  (IF rxSize < i /\ i <= rxSize + n THEN line[i - rxSize] ELSE rxBuf[i]) \in Nat
  <2>1. CASE rxSize < i /\ i <= rxSize + n
    <3>1. i - rxSize \in 1 .. Len(line)
      BY <1>1, <2>1
    <3>2. line[i - rxSize] \in Nat
      BY <1>1, <3>1, ElementOfSeq
    <3>3. QED
      BY <2>1, <3>2
  <2>2. CASE ~(rxSize < i /\ i <= rxSize + n)
    <3>1. rxBuf[i] \in Nat
      BY <1>1
    <3>2. QED
      BY <2>2, <3>1
  <2>3. QED
    BY <2>1, <2>2
<1>3. Filled(n) \in [1 .. Cap -> Nat]
  BY <1>2 DEF Filled
<1>4. \A i \in 1 .. rxSize + n : i \in 1 .. Cap /\ Filled(n)[i] = Unread[i]
  BY <1>1 DEF Filled, Unread
<1>5. \A i \in 1 .. Cap : i > rxSize + n => Filled(n)[i] = Zero
  BY <1>1 DEF Filled, StaleIsZero
<1>6. QED
  BY <1>1, <1>3, <1>4, <1>5, UnreadFacts

\* The first k unread bytes are gone.
Drops(k) ==
  /\ Len(Unread') = Len(Unread) - k
  /\ \A i \in 1 .. Len(Unread) - k : Unread'[i] = Unread[i + k]

\* A buffer that is left with the bytes after the first k leaves the rest unread.
LEMMA DropsFirst ==
  ASSUME RxTypeOK, StaleIsZero, NEW n \in 0 .. Len(line), NEW k \in 0 .. rxSize + n,
         line' = SubSeq(line, n + 1, Len(line)), rxSize' = (rxSize + n) - k,
         \A i \in 1 .. rxSize' : rxBuf'[i] = Filled(n)[i + k]
  PROVE  /\ line' \in Seq(Nat) /\ Len(line') = Len(line) - n
         /\ Drops(k)
<1> DEFINE all == rxSize + n
<1>1. /\ rxSize \in Nat /\ Len(line) \in Nat /\ line \in Seq(Nat)
      /\ Len(Unread) = rxSize + Len(line) /\ all \in Nat /\ n \in Nat /\ k \in Nat /\ k <= all
  BY UnreadFacts DEF RxTypeOK
<1>2. /\ line' \in Seq(Nat) /\ Len(line') = Len(line) - n
      /\ \A i \in 1 .. Len(line) - n : line'[i] = line[i + n]
  <2>1. n + 1 \in Int /\ Len(line) \in Int /\ \A i \in n + 1 .. Len(line) : line[i] \in Nat
    BY <1>1, ElementOfSeq
  <2>2. /\ line' \in Seq(Nat)
        /\ Len(line') = IF n + 1 <= Len(line) THEN Len(line) - (n + 1) + 1 ELSE 0
        /\ \A i \in 1 .. Len(line) - (n + 1) + 1 : line'[i] = line[(n + 1) + i - 1]
    BY <2>1, SubSeqProperties
  <2>3. QED
    BY <1>1, <2>2
<1> DEFINE u == Unread'
           len == Len(Unread)
           left == rxSize'
           rest == line'
           buf == rxBuf'
<1>3. u = [i \in 1 .. left + Len(rest) |-> IF i <= left THEN buf[i] ELSE rest[i - left]]
  BY DEF Unread
<1>4. /\ left = all - k /\ Len(rest) = Len(line) - n /\ len = rxSize + Len(line)
      /\ n <= Len(line) /\ \A i \in 1 .. left : buf[i] = Filled(n)[i + k]
      /\ \A i \in 1 .. Len(line) - n : rest[i] = line[i + n]
  BY <1>1, <1>2
<1> HIDE DEF u, left, rest, buf, len
<1>5. left + Len(rest) = len - k /\ left \in Nat /\ len - k \in Nat
  <2>1. /\ left = (rxSize + n) - k /\ Len(rest) = Len(line) - n /\ len = rxSize + Len(line)
        /\ n <= Len(line) /\ k <= rxSize + n
        /\ rxSize \in Nat /\ n \in Nat /\ k \in Nat /\ Len(line) \in Nat
    BY <1>1, <1>4
  <2>2. QED
    BY <2>1
<1>6. Len(u) = len - k
  BY <1>3, <1>5
<1>7. ASSUME NEW i \in 1 .. len - k PROVE u[i] = Unread[i + k]
  <2>1. CASE i <= left
    <3>1. i \in 1 .. left /\ i \in 1 .. left + Len(rest) /\ i + k \in 1 .. all
      <4>1. i \in 1 .. left
        BY <1>5, <2>1
      <4>2. all \in Nat /\ k \in Nat /\ left = all - k
        BY <1>1, <1>4
      <4>3. QED
        BY <1>5, <4>1, <4>2
    <3>2. u[i] = buf[i]
      BY <1>3, <2>1, <3>1
    <3>3. QED
      BY <1>4, <3>1, <3>2, FilledFacts
  <2>2. CASE ~(i <= left)
    <3>1. u[i] = rest[i - left] /\ i - left \in 1 .. Len(line) - n
      BY <1>1, <1>3, <1>4, <1>5, <2>2
    <3>2. u[i] = line[(i - left) + n]
      BY <1>4, <3>1
    <3>3. (i - left) + n = (i + k) - rxSize /\ ~(i + k <= rxSize)
          /\ i + k \in 1 .. rxSize + Len(line)
      BY <1>1, <1>4, <1>5, <2>2
    <3>4. Unread[i + k] = line[(i + k) - rxSize]
      BY <3>3 DEF Unread
    <3>5. QED
      BY <3>2, <3>3, <3>4
  <2>3. QED
    BY <2>1, <2>2
<1>8. QED
  BY <1>2, <1>6, <1>7 DEF Drops, u, len

\* What a call that sees the first n unread bytes makes of them, k being gone after it.
Discards(n, k) ==
  /\ k = n /\ \A i \in 1 .. n : Unread[i] # Mark
  /\ UNCHANGED <<checkLen, delivered>>

Waits(n, k) == k = 0 /\ checkLen' = TRUE /\ UNCHANGED delivered

Takes(n, k) ==
  /\ checkLen' = FALSE
  /\ \E first, last \in 1 .. n :
       /\ first < last /\ Unread[first] = Mark /\ Unread[last] = Mark
       /\ \A i \in 1 .. last - 1 : Unread[i] = Mark => i = first
       /\ \E d \in {Decoded(SubSeq(Unread, first + 1, last - 1))} :
            \/ k = last - 1 /\ checkLen /\ FALSE \in LengthCheck(d) /\ UNCHANGED delivered
            \/ k = last /\ (~checkLen \/ TRUE \in LengthCheck(d)) /\ HandOver(d)

LEMMA SameSubSeq ==
  ASSUME NEW s, NEW t, NEW m \in Int, NEW n \in Int,
         \A i \in m .. n : s[i] \in Nat /\ s[i] = t[i]
  PROVE  /\ SubSeq(s, m, n) = SubSeq(t, m, n) /\ SubSeq(s, m, n) \in Seq(Nat)
         /\ Len(SubSeq(s, m, n)) = IF m <= n THEN n - m + 1 ELSE 0
         /\ \A i \in 1 .. n - m + 1 : SubSeq(s, m, n)[i] = s[m + i - 1]
<1> DEFINE u == SubSeq(s, m, n)
           v == SubSeq(t, m, n)
<1>1. /\ u \in Seq(Nat) /\ Len(u) = IF m <= n THEN n - m + 1 ELSE 0
      /\ \A i \in 1 .. n - m + 1 : u[i] = s[m + i - 1]
  BY SubSeqProperties
<1>2. /\ v \in Seq(Nat) /\ Len(v) = IF m <= n THEN n - m + 1 ELSE 0
      /\ \A i \in 1 .. n - m + 1 : v[i] = t[m + i - 1]
  <2>1. \A i \in m .. n : t[i] \in Nat
    OBVIOUS
  <2>2. QED
    BY <2>1, SubSeqProperties
<1> HIDE DEF u, v
<1>3. ASSUME NEW i \in 1 .. Len(u) PROVE u[i] = v[i]
  <2>1. i \in 1 .. n - m + 1 /\ m + i - 1 \in m .. n
    BY <1>1
  <2>2. QED
    BY <1>1, <1>2, <2>1
<1>4. u = v
  BY <1>1, <1>2, <1>3, SeqEqual
<1>5. QED
  BY <1>1, <1>4 DEF u, v

\* The two marks a frame is taken between are among the bytes received, and the first
\* two of them.
LEMMA MarksFacts ==
  ASSUME RxTypeOK, StaleIsZero, NEW n \in 0 .. Len(line),
         NEW first \in FirstMark(Filled(n), 1, rxSize + n),
         NEW last \in FirstMark(Filled(n), first + 1, rxSize + n)
  PROVE  /\ first \in 1 .. rxSize + n /\ last \in 1 .. rxSize + n /\ first < last
         /\ Unread[first] = Mark /\ Unread[last] = Mark
         /\ \A i \in 1 .. last - 1 : Unread[i] = Mark => i = first
         /\ SubSeq(Filled(n), first + 1, last - 1) = SubSeq(Unread, first + 1, last - 1)
<1> DEFINE b == Filled(n)
           all == rxSize + n
<1>1. /\ all \in Nat /\ 2 * all <= Cap /\ Cap \in Nat /\ b \in [1 .. Cap -> Nat]
      /\ \A i \in 1 .. all : i \in 1 .. Cap /\ b[i] = Unread[i]
      /\ \A i \in 1 .. Cap : i > all => b[i] = Zero
  BY FilledFacts
<1>2. first \in 1 .. 1 + all - 1 /\ b[first] = Mark /\ \A j \in 1 .. first - 1 : b[j] # Mark
  BY DEF FirstMark
<1>3. last \in first + 1 .. first + 1 + all - 1 /\ b[last] = Mark
      /\ \A j \in first + 1 .. last - 1 : b[j] # Mark
  BY DEF FirstMark
<1> HIDE DEF b, all
<1>4. first \in 1 .. all
  BY <1>1, <1>2
<1>5. last \in 1 .. Cap /\ first < last
  BY <1>1, <1>3, <1>4
<1>6. last <= all
  <2> SUFFICES ASSUME last > all PROVE FALSE
    BY <1>1, <1>5
  <2>1. b[last] = Zero
    BY <1>1, <1>5
  <2>2. QED
    BY <1>3, <2>1 DEF Mark, Zero
<1>7. last \in 1 .. all /\ \A i \in 1 .. last : i \in 1 .. all
  BY <1>1, <1>5, <1>6
<1>8. ASSUME NEW i \in 1 .. last - 1, Unread[i] = Mark PROVE i = first
  <2>1. i \in 1 .. all /\ b[i] = Mark
    <3>1. i \in 1 .. all
      BY <1>1, <1>7
    <3>2. QED
      BY <1>1, <1>8, <3>1
  <2>2. i < first => i \in 1 .. first - 1
    BY <1>4
  <2>3. i > first => i \in first + 1 .. last - 1
    BY <1>4, <1>7
  <2>4. QED
    BY <1>2, <1>3, <1>4, <2>1, <2>2, <2>3
<1>9. SubSeq(b, first + 1, last - 1) = SubSeq(Unread, first + 1, last - 1)
  <2>1. ASSUME NEW i \in first + 1 .. last - 1 PROVE b[i] \in Nat /\ b[i] = Unread[i]
    <3>1. i \in 1 .. all
      BY <1>1, <1>4, <1>7
    <3>2. QED
      BY <1>1, <3>1
  <2>2. first + 1 \in Int /\ last - 1 \in Int
    BY <1>4, <1>7
  <2> HIDE DEF b, all
  <2>3. QED
    BY <2>1, <2>2, SameSubSeq
<1>10. Unread[first] = Mark /\ Unread[last] = Mark
  BY <1>1, <1>2, <1>3, <1>4, <1>7
<1>11. QED
  BY <1>4, <1>5, <1>7, <1>8, <1>9, <1>10 DEF all, b

LEMMA ShiftedFacts ==
  ASSUME RxTypeOK, StaleIsZero, NEW n \in 0 .. Len(line), NEW k \in 0 .. rxSize + n
  PROVE  /\ ShiftLeft(Filled(n), k, rxSize + n) \in [1 .. Cap -> Nat]
         /\ \A i \in 1 .. (rxSize + n) - k :
              ShiftLeft(Filled(n), k, rxSize + n)[i] = Filled(n)[i + k]
<1> DEFINE b == Filled(n)
           all == rxSize + n
<1>1. all \in Nat /\ all <= Cap /\ Cap \in Nat /\ b \in [1 .. Cap -> Nat] /\ k \in 0 .. all
  <2>1. \A x, y \in Nat : 2 * x <= y => x <= y
    OBVIOUS
  <2>2. QED
    BY <2>1, FilledFacts
<1> HIDE DEF b, all
<1>2. ASSUME NEW i \in 1 .. Cap
      PROVE  (IF i <= all - k THEN b[i + k] ELSE IF i <= all THEN Zero ELSE b[i]) \in Nat
  <2>1. i <= all - k => i + k \in 1 .. Cap
    BY <1>1
  <2>2. (i <= all - k => b[i + k] \in Nat) /\ b[i] \in Nat /\ Zero \in Nat
    BY <1>1, <2>1 DEF Zero
  <2>3. QED
    BY <2>2
<1>3. ShiftLeft(b, k, all) \in [1 .. Cap -> Nat]
  BY <1>2 DEF ShiftLeft
<1>4. ASSUME NEW i \in 1 .. all - k PROVE ShiftLeft(b, k, all)[i] = b[i + k]
  <2>1. i \in 1 .. Cap /\ i <= all - k
    BY <1>1
  <2>2. QED
    BY <2>1 DEF ShiftLeft
<1>5. QED
  <2>1. \A i \in 1 .. all - k : ShiftLeft(b, k, all)[i] = b[i + k]
    BY <1>4
  <2>2. QED
    BY <1>3, <2>1, Zenon DEF b, all

\* A call that sees the first n unread bytes and leaves the rest after the first k.
Consumes(n, k) ==
  /\ k \in 0 .. n
  /\ Discards(n, k) \/ Waits(n, k) \/ Takes(n, k)
  /\ Drops(k) /\ line' \in Seq(Nat) /\ Len(line') = Len(line) - (n - rxSize)
  /\ rxBuf' \in [1 .. Cap -> Nat] /\ rxSize' = n - k

LEMMA ProcessFacts ==
  ASSUME RxTypeOK, StaleIsZero, NEW n \in 0 .. Len(line), Process(n)
  PROVE  /\ rxSize + n \in 1 .. Len(Unread) /\ rxSize + n <= Backlog
         /\ \E k : Consumes(rxSize + n, k)
<1> DEFINE b == Filled(n)
           all == rxSize + n
<1>1. /\ all \in Nat /\ 2 * all <= Cap /\ Cap \in Nat /\ b \in [1 .. Cap -> Nat]
      /\ \A i \in 1 .. all : i \in 1 .. Cap /\ b[i] = Unread[i]
      /\ all <= Len(Unread) /\ all <= Backlog
  BY FilledFacts
<1>2. /\ all > 0 /\ line' = SubSeq(line, n + 1, Len(line))
      /\ NoMark(b, all) \/ Wait(b, all) \/ TakeFrame(b, all)
  BY DEF Process
<1>3. all \in 1 .. Len(Unread) /\ all <= Backlog
  BY <1>1, <1>2, UnreadFacts
<1>4. ASSUME NEW k \in 0 .. all, Discards(all, k) \/ Waits(all, k) \/ Takes(all, k),
             rxBuf' \in [1 .. Cap -> Nat], rxSize' = all - k,
             \A i \in 1 .. all - k : rxBuf'[i] = b[i + k]
      PROVE  Consumes(all, k)
  <2>1. k \in 0 .. rxSize + n /\ rxSize' = (rxSize + n) - k
        /\ \A i \in 1 .. rxSize' : rxBuf'[i] = Filled(n)[i + k]
    BY <1>4
  <2>2. line' \in Seq(Nat) /\ Len(line') = Len(line) - n /\ Drops(k)
    BY <1>2, <2>1, DropsFirst
  <2>3. n = all - rxSize
    BY UnreadFacts
  <2> HIDE DEF all
  <2>4. QED
    BY <1>4, <2>2, <2>3 DEF Consumes
<1>5. ASSUME NoMark(b, all) PROVE \E k : Consumes(all, k)
  <2>1. /\ FirstMark(b, 1, all) = {} /\ rxSize' = 0 /\ UNCHANGED <<checkLen, delivered>>
        /\ rxBuf' = [i \in 1 .. Cap |-> IF i <= all THEN Zero ELSE b[i]]
    BY <1>5 DEF NoMark
  <2>2. \A i \in 1 .. all : Unread[i] # Mark
    <3> DEFINE Marks == {i \in Nat : i \in 1 .. all /\ b[i] = Mark}
    <3> SUFFICES ASSUME NEW i \in 1 .. all, Unread[i] = Mark PROVE FALSE
      OBVIOUS
    <3>1. i \in Marks /\ Marks \subseteq Nat
      BY <1>1
    <3> HIDE DEF Marks
    <3>2. PICK x \in Marks : \A y \in Marks : x <= y
      BY <3>1, LeastExists
    <3>3. x \in 1 .. all /\ b[x] = Mark
      BY <3>2 DEF Marks
    <3>4. ASSUME NEW j \in 1 .. x - 1, b[j] = Mark PROVE FALSE
      <4>1. j \in Nat /\ j \in 1 .. all /\ ~(x <= j)
        BY <1>1, <3>3
      <4>2. j \in Marks
        BY <3>4, <4>1 DEF Marks
      <4>3. QED
        BY <3>2, <4>1, <4>2
    <3>5. x \in 1 .. 1 + all - 1
      BY <1>1, <3>3
    <3>6. x \in FirstMark(b, 1, all)
      BY <3>3, <3>4, <3>5 DEF FirstMark
    <3>7. QED
      BY <2>1, <3>6
  <2>3. rxBuf' \in [1 .. Cap -> Nat]
    BY <1>1, <2>1 DEF Zero
  <2>4. Discards(all, all) /\ all \in 0 .. all /\ all - all = 0
    BY <1>1, <2>1, <2>2 DEF Discards
  <2>5. \A i \in 1 .. all - all : rxBuf'[i] = b[i + all]
    BY <2>4
  <2>6. Consumes(all, all)
    BY <1>4, <2>1, <2>3, <2>4, <2>5
  <2>7. QED
    BY <2>6
<1>6. ASSUME Wait(b, all) PROVE \E k : Consumes(all, k)
  <2>1. checkLen' = TRUE /\ rxSize' = all /\ rxBuf' = b /\ UNCHANGED delivered
    BY <1>6 DEF Wait
  <2>2. Waits(all, 0) /\ 0 \in 0 .. all /\ all - 0 = all
    BY <1>1, <2>1 DEF Waits
  <2>3. \A i \in 1 .. all - 0 : rxBuf'[i] = b[i + 0]
    BY <1>1, <2>1
  <2>4. Consumes(all, 0)
    BY <1>1, <1>4, <2>1, <2>2, <2>3
  <2>5. QED
    BY <2>4
<1>7. ASSUME TakeFrame(b, all) PROVE \E k : Consumes(all, k)
  <2> PICK first \in FirstMark(b, 1, all) : \E last \in FirstMark(b, first + 1, all) :
        \E d \in {Decoded(SubSeq(b, first + 1, last - 1))} :
          \/ checkLen /\ FALSE \in LengthCheck(d) /\ DropFirst(b, last - 1, all) /\ UNCHANGED delivered
          \/ (~checkLen \/ TRUE \in LengthCheck(d)) /\ DropFirst(b, last, all) /\ HandOver(d)
    BY <1>7 DEF TakeFrame
  <2>1. PICK last \in FirstMark(b, first + 1, all) :
        \E d \in {Decoded(SubSeq(b, first + 1, last - 1))} :
          \/ checkLen /\ FALSE \in LengthCheck(d) /\ DropFirst(b, last - 1, all) /\ UNCHANGED delivered
          \/ (~checkLen \/ TRUE \in LengthCheck(d)) /\ DropFirst(b, last, all) /\ HandOver(d)
    OBVIOUS
  <2>2. /\ first \in 1 .. all /\ last \in 1 .. all /\ first < last
        /\ Unread[first] = Mark /\ Unread[last] = Mark
        /\ \A i \in 1 .. last - 1 : Unread[i] = Mark => i = first
        /\ SubSeq(b, first + 1, last - 1) = SubSeq(Unread, first + 1, last - 1)
    <3>1. first \in FirstMark(Filled(n), 1, rxSize + n)
          /\ last \in FirstMark(Filled(n), first + 1, rxSize + n)
      OBVIOUS
    <3> HIDE DEF all, b
    <3>2. /\ first \in 1 .. rxSize + n /\ last \in 1 .. rxSize + n /\ first < last
          /\ Unread[first] = Mark /\ Unread[last] = Mark
          /\ \A i \in 1 .. last - 1 : Unread[i] = Mark => i = first
          /\ SubSeq(Filled(n), first + 1, last - 1) = SubSeq(Unread, first + 1, last - 1)
      BY <3>1, MarksFacts
    <3>3. QED
      BY <3>2 DEF all, b
  <2>3. \E k \in {last - 1, last} : Takes(all, k) /\ DropFirst(b, k, all)
    <3>1. checkLen' = FALSE
      BY <1>7 DEF TakeFrame
    <3> HIDE DEF all, b
    <3>2. QED
      BY <2>1, <2>2, <3>1 DEF Takes
  <2>4. PICK k \in {last - 1, last} : Takes(all, k) /\ DropFirst(b, k, all)
    BY <2>3
  <2>5. k \in 0 .. all
    <3> HIDE DEF all, b
    <3>1. first \in Nat /\ last \in Nat /\ first < last /\ last <= all /\ all \in Nat
      BY <1>1, <2>2
    <3>2. QED
      BY <3>1
  <2>6. rxSize' = all - k /\ rxBuf' = ShiftLeft(b, k, all)
    BY <2>4 DEF DropFirst
  <2>7. rxBuf' \in [1 .. Cap -> Nat] /\ \A i \in 1 .. all - k : rxBuf'[i] = b[i + k]
    <3>1. /\ ShiftLeft(b, k, all) \in [1 .. Cap -> Nat]
          /\ \A i \in 1 .. all - k : ShiftLeft(b, k, all)[i] = b[i + k]
      BY <2>5, ShiftedFacts
    <3> HIDE DEF all, b
    <3>2. QED
      BY <2>6, <3>1
  <2>8. Consumes(all, k)
    BY <1>4, <2>4, <2>5, <2>6, <2>7
  <2>9. QED
    BY <2>8
<1>8. \E k : Consumes(all, k)
  BY <1>2, <1>5, <1>6, <1>7
<1>9. QED
  BY <1>3, <1>8

-----------------------------------------------------------------------------
(* The types, and the zeros beyond the bytes received. *)

RxInv == RxTypeOK /\ StaleIsZero

LEMMA RxInitInv == RxInit => RxInv
<1> SUFFICES ASSUME RxInit PROVE RxInv
  OBVIOUS
<1>1. /\ rxSize = 0 /\ checkLen = FALSE /\ line = <<>> /\ sentF = 0 /\ delivered = <<>>
      /\ damage = 0 /\ calm = <<>> /\ rxBuf = [i \in 1 .. Cap |-> Zero]
  BY DEF RxInit
<1>2. rxBuf \in [1 .. Cap -> Nat] /\ \A i \in 1 .. Cap : rxBuf[i] = Zero
  BY <1>1 DEF Zero
<1>3. line \in Seq(Nat) /\ Len(line) = 0 /\ delivered \in Seq(Frame) /\ calm \in Seq(Frame)
  BY <1>1
<1>4. 0 \in 0 .. Backlog /\ 0 \in 0 .. Cardinality(Frame) /\ 0 \in 0 .. MaxDamage /\ 0 + 0 <= Backlog
  BY RxAssumption
<1>5. RxTypeOK
  BY <1>1, <1>2, <1>3, <1>4 DEF RxTypeOK
<1>6. QED
  BY <1>2, <1>5 DEF RxInv, StaleIsZero

LEMMA ShiftLeftZeroes ==
  ASSUME NEW b, NEW k \in Int, NEW n \in Int, \A i \in 1 .. Cap : i > n => b[i] = Zero
  PROVE  \A i \in 1 .. Cap : i > n - k => ShiftLeft(b, k, n)[i] = Zero
BY DEF ShiftLeft

LEMMA ProcessZeroes ==
  ASSUME rxSize \in Int, StaleIsZero, NEW n \in Nat, Process(n)
  PROVE  StaleIsZero'
<1> DEFINE all == rxSize + n
<1>1. all \in Int
  OBVIOUS
<1>2. PICK b \in {Filled(n)} : NoMark(b, all) \/ Wait(b, all) \/ TakeFrame(b, all)
  BY DEF Process
<1>3. \A i \in 1 .. Cap : i > all => b[i] = Zero
  BY <1>1, <1>2 DEF Filled, StaleIsZero
<1>4. CASE NoMark(b, all)
  BY <1>1, <1>3, <1>4 DEF NoMark, StaleIsZero
<1>5. CASE Wait(b, all)
  BY <1>1, <1>3, <1>5 DEF Wait, StaleIsZero
<1>6. CASE TakeFrame(b, all)
  <2>1. PICK k \in Int : DropFirst(b, k, all)
    <3>1. \A p \in Int : \A i \in FirstMark(b, p, all) : i \in Int
      BY <1>1 DEF FirstMark
    <3>2. PICK first \in FirstMark(b, 1, all) : \E last \in FirstMark(b, first + 1, all) :
            DropFirst(b, last - 1, all) \/ DropFirst(b, last, all)
      BY <1>6 DEF TakeFrame
    <3>3. first \in Int
      BY <3>1
    <3>4. \A last \in FirstMark(b, first + 1, all) : last \in Int /\ last - 1 \in Int
      BY <3>1, <3>3
    <3>5. QED
      BY <3>2, <3>4
  <2>2. \A i \in 1 .. Cap : i > all - k => ShiftLeft(b, k, all)[i] = Zero
    BY <1>1, <1>3, ShiftLeftZeroes
  <2>3. QED
    BY <1>1, <2>1, <2>2 DEF DropFirst, StaleIsZero
<1>7. QED
  BY <1>2, <1>4, <1>5, <1>6

\* What is handed over is the one frame that holds these bytes.
LEMMA HandOverFacts ==
  ASSUME NEW d, HandOver(d)
  PROVE  \/ delivered' = delivered /\ \A f \in Frame : d # Content[f]
         \/ \E f \in Frame : d = Content[f] /\ delivered' = Append(delivered, f)
<1>1. CASE CheckSumOk(d) = {}
  BY <1>1 DEF HandOver, CheckSumOk
<1>2. CASE CheckSumOk(d) # {}
  <2>1. (CHOOSE f \in CheckSumOk(d) : TRUE) \in CheckSumOk(d)
    BY <1>2
  <2>2. delivered' = Append(delivered, CHOOSE f \in CheckSumOk(d) : TRUE)
    BY <1>2 DEF HandOver
  <2>3. QED
    BY <2>1, <2>2 DEF CheckSumOk
<1>3. QED
  BY <1>1, <1>2

LEMMA ConsumesDelivered ==
  ASSUME NEW n, NEW k, Consumes(n, k)
  PROVE  \/ delivered' = delivered
         \/ \E f \in Frame : delivered' = Append(delivered, f)
<1>1. CASE delivered' = delivered
  BY <1>1
<1>2. CASE \E d : HandOver(d)
  BY <1>2, HandOverFacts
<1>3. QED
  BY <1>1, <1>2 DEF Consumes, Discards, Waits, Takes

LEMMA ProcessTypes ==
  ASSUME RxInv, NEW n \in 0 .. Len(line), Process(n)
  PROVE  RxInv'
<1>1. RxTypeOK /\ StaleIsZero /\ rxSize \in Nat /\ Len(line) \in Nat /\ n \in Nat
  BY UnreadFacts DEF RxInv
<1>2. StaleIsZero'
  BY <1>1, ProcessZeroes
<1> DEFINE all == rxSize + n
<1>3. all \in 1 .. Len(Unread) /\ all <= Backlog /\ \E k : Consumes(all, k)
  BY <1>1, ProcessFacts
<1>4. PICK k : Consumes(all, k)
  BY <1>3
<1>5. /\ k \in 0 .. all /\ line' \in Seq(Nat) /\ Len(line') = Len(line) - (all - rxSize)
      /\ rxBuf' \in [1 .. Cap -> Nat] /\ rxSize' = all - k
  BY <1>4 DEF Consumes
<1>6. rxSize' \in 0 .. Backlog /\ rxSize' + Len(line') <= Backlog
  <2>1. Backlog \in Nat /\ rxSize + Len(line) <= Backlog
    BY RxAssumption DEF RxInv, RxTypeOK
  <2>2. QED
    BY <1>1, <1>3, <1>5, <2>1
<1>7. delivered' \in Seq(Frame)
  <2>1. delivered \in Seq(Frame)
    BY <1>1 DEF RxTypeOK
  <2>2. delivered' = delivered \/ \E f \in Frame : delivered' = Append(delivered, f)
    BY <1>4, ConsumesDelivered
  <2>3. QED
    BY <2>1, <2>2, AppendProperties
<1>8. checkLen' \in BOOLEAN
  BY <1>1, <1>4 DEF Consumes, Discards, Waits, Takes, RxTypeOK
<1>9. UNCHANGED <<sentF, damage, calm>>
  BY DEF Process
<1>10. RxTypeOK'
  BY <1>1, <1>5, <1>6, <1>7, <1>8, <1>9 DEF RxTypeOK
<1>11. QED
  BY <1>2, <1>10 DEF RxInv

LEMMA EmitFacts ==
  ASSUME RxTypeOK, Emit
  PROVE  /\ sentF' = sentF + 1 /\ sentF' \in Frame
         /\ line' \in Seq(Nat) /\ Len(line') = Len(line) + Len(Encoded(sentF'))
         /\ \A i \in 1 .. Len(line) + Len(Encoded(sentF')) :
              line'[i] = IF i <= Len(line) THEN line[i] ELSE Encoded(sentF')[i - Len(line)]
<1>1. sentF' = sentF + 1 /\ sentF < Cardinality(Frame) /\ line' = line \o Encoded(sentF')
  BY DEF Emit
<1>2. sentF' \in Frame
  BY <1>1, RxAssumption DEF RxTypeOK
<1>3. Encoded(sentF') \in Seq(Nat) /\ line \in Seq(Nat)
  BY <1>2, EncodedFacts DEF RxTypeOK
<1>4. QED
  BY <1>1, <1>2, <1>3, ConcatProperties

\* Of the bytes on the line one is gone, or is another now.
LEMMA DamageFacts ==
  ASSUME line \in Seq(Nat), Damage
  PROVE  \E at \in 1 .. Len(line), less \in {0, 1} :
           /\ line' \in Seq(Nat) /\ Len(line') = Len(line) - less
           /\ \A j \in 1 .. Len(line) - less :
                \/ j < at /\ line'[j] = line[j]
                \/ j >= at /\ line'[j] = line[j + less]
                \/ j = at /\ line'[j] <= Noise
<1>1. PICK at \in 1 .. Len(line), instead \in {<<>>, <<Mark>>, <<Esc>>, <<Noise>>} :
        line' = SubSeq(line, 1, at - 1) \o instead \o SubSeq(line, at + 1, Len(line))
  BY DEF Damage
<1> DEFINE before == SubSeq(line, 1, at - 1)
           after == SubSeq(line, at + 1, Len(line))
           first == before \o instead
           len == Len(instead)
           res == first \o after
<1>2. Len(line) \in Nat /\ \A i \in 1 .. Len(line) : line[i] \in Nat
  BY ElementOfSeq
<1>3. /\ before \in Seq(Nat) /\ Len(before) = at - 1
      /\ \A i \in 1 .. at - 1 : before[i] = line[i]
  <2>1. 1 \in Int /\ at - 1 \in Int /\ \A i \in 1 .. at - 1 : line[i] \in Nat
    BY <1>2
  <2>2. /\ before \in Seq(Nat) /\ Len(before) = IF 1 <= at - 1 THEN (at - 1) - 1 + 1 ELSE 0
        /\ \A i \in 1 .. (at - 1) - 1 + 1 : before[i] = line[1 + i - 1]
    BY <2>1, SubSeqProperties
  <2>3. QED
    BY <1>2, <2>2
<1>4. /\ after \in Seq(Nat) /\ Len(after) = Len(line) - at
      /\ \A i \in 1 .. Len(line) - at : after[i] = line[at + i]
  <2>1. at + 1 \in Int /\ Len(line) \in Int /\ \A i \in at + 1 .. Len(line) : line[i] \in Nat
    BY <1>2
  <2>2. /\ after \in Seq(Nat)
        /\ Len(after) = IF at + 1 <= Len(line) THEN Len(line) - (at + 1) + 1 ELSE 0
        /\ \A i \in 1 .. Len(line) - (at + 1) + 1 : after[i] = line[(at + 1) + i - 1]
    BY <2>1, SubSeqProperties
  <2> HIDE DEF after
  <2>3. Len(after) = Len(line) - at /\ Len(line) - (at + 1) + 1 = Len(line) - at
    BY <1>2, <2>2
  <2>4. ASSUME NEW i \in 1 .. Len(line) - at PROVE (at + 1) + i - 1 = at + i
    BY <1>2
  <2>5. ASSUME NEW i \in 1 .. Len(line) - at PROVE after[i] = line[at + i]
    BY <2>2, <2>3, <2>4
  <2>6. QED
    BY <2>2, <2>3, <2>5
<1>5. instead \in Seq(Nat) /\ len \in {0, 1} /\ (len = 1 => instead[1] <= Noise)
  <2>1. CASE instead = <<>>
    BY <2>1
  <2>2. CASE \E b \in {Mark, Esc, Noise} : instead = <<b>>
    <3>1. PICK b \in {Mark, Esc, Noise} : instead = <<b>>
      BY <2>2
    <3>2. b \in Nat /\ b <= Noise
      BY DEF Mark, Esc, Noise
    <3>3. QED
      BY <3>1, <3>2
  <2>3. QED
    BY <1>1, <2>1, <2>2
<1>6. line' = res
  BY <1>1
<1> HIDE DEF before, after, len
<1>7. /\ first \in Seq(Nat) /\ Len(first) = at - 1 + len
      /\ \A i \in 1 .. at - 1 + len : first[i] = IF i <= at - 1 THEN before[i] ELSE instead[i - (at - 1)]
  <2>1. /\ first \in Seq(Nat) /\ Len(first) = Len(before) + Len(instead)
        /\ \A i \in 1 .. Len(before) + Len(instead) :
             first[i] = IF i <= Len(before) THEN before[i] ELSE instead[i - Len(before)]
    <3>1. before \in Seq(Nat) /\ instead \in Seq(Nat)
      BY <1>3, <1>5
    <3>2. QED
      BY <3>1, ConcatProperties
  <2> HIDE DEF first
  <2>2. QED
    BY <1>3, <2>1 DEF len
<1> HIDE DEF first
<1>8. /\ res \in Seq(Nat) /\ Len(res) = Len(line) - (1 - len)
      /\ \A i \in 1 .. Len(line) - (1 - len) :
           res[i] = IF i <= at - 1 + len THEN first[i] ELSE after[i - (at - 1 + len)]
  <2>1. /\ res \in Seq(Nat) /\ Len(res) = Len(first) + Len(after)
        /\ \A i \in 1 .. Len(first) + Len(after) :
             res[i] = IF i <= Len(first) THEN first[i] ELSE after[i - Len(first)]
    BY <1>4, <1>7, ConcatProperties
  <2> HIDE DEF res
  <2>2. Len(first) + Len(after) = Len(line) - (1 - len) /\ Len(first) = at - 1 + len
    BY <1>2, <1>4, <1>5, <1>7
  <2>3. QED
    BY <2>1, <2>2
<1> HIDE DEF res
<1> DEFINE less == 1 - len
<1>9. less \in {0, 1}
  BY <1>5
<1>10. ASSUME NEW j \in 1 .. Len(line) - less
       PROVE  \/ j < at /\ res[j] = line[j]
              \/ j >= at /\ res[j] = line[j + less]
              \/ j = at /\ res[j] <= Noise
  <2>1. CASE j < at
    <3>1. j <= at - 1 + len /\ j \in 1 .. at - 1 + len /\ j <= at - 1 /\ j \in 1 .. at - 1
      BY <1>2, <1>5, <2>1
    <3>2. QED
      BY <1>3, <1>7, <1>8, <2>1, <3>1
  <2>2. CASE j = at /\ len = 1
    <3>1. j <= at - 1 + len /\ j \in 1 .. at - 1 + len /\ ~(j <= at - 1) /\ j - (at - 1) = 1
      BY <1>2, <2>2
    <3>2. QED
      BY <1>5, <1>7, <1>8, <2>2, <3>1
  <2>3. CASE j > at \/ (j = at /\ len = 0)
    <3>1. ~(j <= at - 1 + len) /\ j - (at - 1 + len) \in 1 .. Len(line) - at
          /\ at + (j - (at - 1 + len)) = j + less
      BY <1>2, <1>5, <2>3
    <3>2. res[j] = after[j - (at - 1 + len)]
      BY <1>8, <3>1
    <3>3. after[j - (at - 1 + len)] = line[at + (j - (at - 1 + len))]
      BY <1>4, <3>1
    <3>4. QED
      BY <2>3, <3>1, <3>2, <3>3
  <2>4. QED
    BY <1>2, <1>5, <2>1, <2>2, <2>3
<1>11. line' \in Seq(Nat) /\ Len(line') = Len(line) - less
  BY <1>6, <1>8
<1>12. \A j \in 1 .. Len(line) - less :
         \/ j < at /\ line'[j] = line[j]
         \/ j >= at /\ line'[j] = line[j + less]
         \/ j = at /\ line'[j] <= Noise
  BY <1>6, <1>10
<1> HIDE DEF less
<1>13. QED
  BY <1>9, <1>11, <1>12

LEMMA RxNextInv == RxInv /\ [RxNext]_rxVars => RxInv'
<1> SUFFICES ASSUME RxInv, [RxNext]_rxVars PROVE RxInv'
  OBVIOUS
<1>1. RxTypeOK /\ StaleIsZero /\ Len(line) \in Nat /\ rxSize \in Nat /\ Backlog \in Nat
  BY UnreadFacts, RxAssumption DEF RxInv
<1>2. CASE Emit
  <2>1. /\ sentF' = sentF + 1 /\ sentF' \in Frame /\ line' \in Seq(Nat)
        /\ Len(line') = Len(line) + Len(Encoded(sentF'))
    BY <1>1, <1>2, EmitFacts
  <2>2. rxSize + Len(line) + Len(Encoded(sentF')) <= Backlog
    BY <1>2 DEF Emit
  <2>3. Len(Encoded(sentF')) \in Nat
    BY <2>1, EncodedFacts
  <2>4. rxSize + Len(line') <= Backlog
    BY <1>1, <2>1, <2>2, <2>3
  <2>5. calm' \in Seq(Frame)
    <3>1. calm \in Seq(Frame) /\ (calm' = <<>> \/ calm' = Append(calm, sentF'))
      BY <1>1, <1>2 DEF Emit, RxTypeOK
    <3>2. <<>> \in Seq(Frame) /\ Append(calm, sentF') \in Seq(Frame)
      BY <2>1, <3>1, AppendProperties
    <3>3. QED
      BY <3>1, <3>2
  <2>6. sentF' \in 0 .. Cardinality(Frame)
    BY <2>1, RxAssumption
  <2>7. UNCHANGED <<rxBuf, rxSize, checkLen, delivered, damage>>
    BY <1>2 DEF Emit
  <2>8. QED
    BY <1>1, <2>1, <2>4, <2>5, <2>6, <2>7 DEF RxInv, RxTypeOK, StaleIsZero
<1>3. CASE Damage
  <2>1. line' \in Seq(Nat) /\ Len(line') \in Nat /\ Len(line') <= Len(line)
    <3>1. line \in Seq(Nat)
      BY <1>1 DEF RxTypeOK
    <3>2. PICK less \in {0, 1} : line' \in Seq(Nat) /\ Len(line') = Len(line) - less
      BY <1>3, <3>1, DamageFacts
    <3>3. Len(line') \in Nat
      BY <3>2
    <3>4. QED
      BY <1>1, <3>2, <3>3
  <2>2. damage' \in 0 .. MaxDamage /\ calm' = <<>>
        /\ UNCHANGED <<rxBuf, rxSize, checkLen, sentF, delivered>>
    BY <1>1, <1>3, RxAssumption DEF Damage, RxTypeOK
  <2>3. rxSize + Len(line') <= Backlog
    BY <1>1, <2>1 DEF RxTypeOK
  <2>4. calm' \in Seq(Frame)
    BY <2>2
  <2>5. QED
    BY <1>1, <2>1, <2>2, <2>3, <2>4 DEF RxInv, RxTypeOK, StaleIsZero
<1>4. CASE PortReadable \/ LoopTimeout
  <2>1. PICK n \in 0 .. Len(line) : Process(n)
    BY <1>1, <1>4 DEF PortReadable, LoopTimeout
  <2>2. QED
    BY <2>1, ProcessTypes
<1>5. CASE UNCHANGED rxVars
  BY <1>5 DEF rxVars, RxInv, RxTypeOK, StaleIsZero
<1>6. QED
  BY <1>2, <1>3, <1>4, <1>5 DEF RxNext

THEOREM RxInvariant == RxSpec => []RxInv
BY RxInitInv, RxNextInv, PTL DEF RxSpec

\* Type correctness; among it, that the bytes received never outgrow what the base node
\* may have sent.
THEOREM RxTypeCorrect == RxSpec => []RxTypeOK
<1>1. RxInv => RxTypeOK
  BY DEF RxInv
<1>2. QED
  BY RxInvariant, <1>1, PTL

\* The search for a second mark, which reads beyond the bytes received, never finds
\* one there.
THEOREM StaleAlwaysZero == RxSpec => []StaleIsZero
<1>1. RxInv => StaleIsZero
  BY DEF RxInv
<1>2. QED
  BY RxInvariant, <1>1, PTL

-----------------------------------------------------------------------------
(* The last of the frames sent in peace. *)

\* Either no mark is left unread but maybe as the last byte,
AtPeace == \A i \in 1 .. Len(Unread) - 1 : Unread[i] # Mark

EndsIn(p, f) ==
  /\ Len(Unread) = p + Len(Encoded(f))
  /\ \A i \in 1 .. Len(Encoded(f)) : Unread[p + i] = Encoded(f)[i]

\* or the unread bytes end in frame f.  The p bytes before it hold one mark, the last
\* of them if f is not the first of its kind, and the length is going to be checked.
Follows(p, f, once) ==
  /\ EndsIn(p, f)
  /\ p > 0 => /\ checkLen
              /\ \E q \in 1 .. p :
                   (once => q = p) /\ \A i \in 1 .. p : (Unread[i] = Mark) <=> (i = q)

Got(i) == \E k \in 1 .. Len(delivered) : delivered[k] = calm[i]

CalmInv ==
  calm # <<>> =>
    /\ \A i \in 2 .. Len(calm) - 1 : Got(i)
    /\ \/ AtPeace /\ (Len(calm) >= 2 => Got(Len(calm)))
       \/ \E p \in Nat : Follows(p, calm[Len(calm)], Len(calm) >= 2)

LEMMA NoFirstMark ==
  ASSUME NEW b, NEW p \in Nat, NEW n \in Nat, FirstMark(b, p, n) = {}
  PROVE  \A i \in p .. p + n - 1 : b[i] # Mark
<1> DEFINE Marks == {i \in Nat : i \in p .. p + n - 1 /\ b[i] = Mark}
<1> SUFFICES ASSUME NEW i \in p .. p + n - 1, b[i] = Mark PROVE FALSE
  OBVIOUS
<1>1. i \in Marks /\ Marks \subseteq Nat
  OBVIOUS
<1> HIDE DEF Marks
<1>2. PICK x \in Marks : \A y \in Marks : x <= y
  BY <1>1, LeastExists
<1>3. x \in Nat /\ x \in p .. p + n - 1 /\ b[x] = Mark
  BY <1>2 DEF Marks
<1>4. ASSUME NEW j \in p .. x - 1, b[j] = Mark PROVE FALSE
  <2>1. j \in Nat /\ j \in p .. p + n - 1 /\ ~(x <= j)
    BY <1>3
  <2>2. j \in Marks
    BY <1>4, <2>1 DEF Marks
  <2>3. QED
    BY <1>2, <2>1, <2>2
<1>5. x \in FirstMark(b, p, n)
  BY <1>3, <1>4 DEF FirstMark
<1>6. QED
  BY <1>5

\* A receiver that is settled has nothing, or waits with one mark.
LEMMA SettledFacts ==
  ASSUME RxTypeOK, Settled
  PROVE  /\ Len(Unread) \in Nat
         /\ Len(Unread) > 0 =>
              /\ checkLen
              /\ \E q \in 1 .. Len(Unread) :
                   \A i \in 1 .. Len(Unread) : (Unread[i] = Mark) <=> (i = q)
<1>1. rxSize \in Nat /\ line = <<>> /\ Len(line) = 0 /\ Len(Unread) = rxSize
  BY UnreadFacts DEF Settled
<1>2. \A i \in 1 .. rxSize : Unread[i] = rxBuf[i]
  BY <1>1 DEF Unread
<1> SUFFICES ASSUME rxSize > 0
             PROVE  checkLen /\ \E q \in 1 .. rxSize :
                                  \A i \in 1 .. rxSize : (Unread[i] = Mark) <=> (i = q)
  BY <1>1
<1>3. checkLen /\ OneMark(rxBuf, rxSize)
  BY <1>1 DEF Settled
<1>4. PICK q \in FirstMark(rxBuf, 1, rxSize) : FirstMark(rxBuf, q + 1, rxSize) = {}
  BY <1>3 DEF OneMark
<1>5. q \in 1 .. rxSize /\ rxBuf[q] = Mark /\ \A j \in 1 .. q - 1 : rxBuf[j] # Mark
  <2>1. 1 + rxSize - 1 = rxSize
    BY <1>1
  <2>2. QED
    BY <2>1 DEF FirstMark
<1>6. \A j \in q + 1 .. q + 1 + rxSize - 1 : rxBuf[j] # Mark
  <2>1. q + 1 \in Nat
    BY <1>5
  <2>2. QED
    BY <1>1, <1>4, <2>1, NoFirstMark
<1>7. ASSUME NEW i \in 1 .. rxSize, i # q PROVE rxBuf[i] # Mark
  <2>1. i \in 1 .. q - 1 \/ i \in q + 1 .. q + 1 + rxSize - 1
    BY <1>1, <1>5, <1>7
  <2>2. QED
    BY <1>5, <1>6, <2>1
<1>8. \A i \in 1 .. rxSize : (Unread[i] = Mark) <=> (i = q)
  BY <1>2, <1>5, <1>7
<1>9. QED
  BY <1>3, <1>5, <1>8

\* Where the marks are when the unread bytes end in a frame.
LEMMA EndsInFacts ==
  ASSUME NEW f \in Frame, NEW p \in Nat, EndsIn(p, f)
  PROVE  /\ Len(Stuffed(Content[f])) \in Nat
         /\ Len(Unread) = p + Len(Stuffed(Content[f])) + 2
         /\ Unread[p + 1] = Mark /\ Unread[Len(Unread)] = Mark
         /\ \A i \in 1 .. Len(Stuffed(Content[f])) :
              Unread[p + 1 + i] = Stuffed(Content[f])[i] /\ Unread[p + 1 + i] # Mark
<1> DEFINE s == Stuffed(Content[f])
           n == Len(s)
           e == Encoded(f)
<1>1. /\ n \in Nat /\ Len(e) = n + 2 /\ e[1] = Mark /\ e[n + 2] = Mark
      /\ \A i \in 1 .. n : e[i + 1] = s[i] /\ s[i] # Mark
  BY EncodedFacts
<1>2. Len(Unread) = p + Len(e) /\ \A i \in 1 .. Len(e) : Unread[p + i] = e[i]
  BY DEF EndsIn
<1> HIDE DEF s, n, e
<1>3. Len(Unread) = p + n + 2 /\ p + (n + 2) = p + n + 2
  BY <1>1, <1>2
<1>4. Unread[p + 1] = Mark /\ Unread[p + (n + 2)] = Mark
  <2>1. 1 \in 1 .. n + 2 /\ n + 2 \in 1 .. n + 2
    BY <1>1
  <2>2. QED
    BY <1>1, <1>2, <2>1
<1>5. ASSUME NEW i \in 1 .. n PROVE Unread[p + 1 + i] = s[i] /\ s[i] # Mark
  <2>1. i + 1 \in 1 .. n + 2 /\ p + (i + 1) = p + 1 + i
    BY <1>1
  <2>2. QED
    BY <1>1, <1>2, <2>1
<1>6. QED
  BY <1>1, <1>3, <1>4, <1>5 DEF s, n

LEMMA SettledNotFollows ==
  ASSUME RxTypeOK, Settled, NEW f \in Frame, NEW p \in Nat, NEW once, Follows(p, f, once)
  PROVE  FALSE
<1> DEFINE n == Len(Stuffed(Content[f]))
<1>1. /\ n \in Nat /\ Len(Unread) = p + n + 2
      /\ Unread[p + 1] = Mark /\ Unread[Len(Unread)] = Mark
  BY EndsInFacts DEF Follows
<1> HIDE DEF n
<1>2. p + 1 \in 1 .. Len(Unread) /\ Len(Unread) \in 1 .. Len(Unread) /\ p + 1 # Len(Unread)
      /\ Len(Unread) > 0
  BY <1>1
<1>3. PICK q \in 1 .. Len(Unread) : \A i \in 1 .. Len(Unread) : (Unread[i] = Mark) <=> (i = q)
  BY <1>2, SettledFacts
<1>4. QED
  BY <1>1, <1>2, <1>3

LEMMA CalmIsHeard ==
  ASSUME RxTypeOK, CalmInv
  PROVE  ResyncLosesOne
<1> SUFFICES ASSUME Settled, NEW i \in 2 .. Len(calm) PROVE Got(i)
  BY DEF ResyncLosesOne, Got
<1>1. calm \in Seq(Frame) /\ Len(calm) \in Nat
  BY DEF RxTypeOK
<1>2. calm # <<>> /\ Len(calm) >= 2
  BY <1>1
<1>3. calm[Len(calm)] \in Frame
  BY <1>1, <1>2
<1>4. ~ \E p \in Nat : Follows(p, calm[Len(calm)], Len(calm) >= 2)
  BY <1>3, SettledNotFollows
<1>5. Got(Len(calm)) /\ \A j \in 2 .. Len(calm) - 1 : Got(j)
  BY <1>2, <1>4 DEF CalmInv
<1>6. i = Len(calm) \/ i \in 2 .. Len(calm) - 1
  BY <1>1
<1>7. QED
  BY <1>5, <1>6

\* A byte that is no mark, or none at all, goes: the frame is as it was.
LEMMA FollowsOn ==
  ASSUME NEW f \in Frame, NEW p \in Nat, NEW once, Follows(p, f, once),
         NEW k \in Nat, Drops(k), k <= p, \A i \in 1 .. k : Unread[i] # Mark,
         checkLen' = TRUE \/ checkLen' = checkLen
  PROVE  Follows(p - k, f, once)'
<1> DEFINE e == Len(Encoded(f))
           u == Unread'
<1>1. e \in Nat /\ Len(Unread) = p + e /\ \A i \in 1 .. e : Unread[p + i] = Encoded(f)[i]
  BY EncodedFacts DEF Follows, EndsIn
<1>2. Len(u) = Len(Unread) - k /\ \A i \in 1 .. Len(Unread) - k : u[i] = Unread[i + k]
  BY DEF Drops
<1> HIDE DEF e, u
<1>3. Len(u) = (p - k) + e /\ p - k \in Nat
  BY <1>1, <1>2
<1>4. ASSUME NEW i \in 1 .. e PROVE u[(p - k) + i] = Encoded(f)[i]
  <2>1. (p - k) + i \in 1 .. Len(Unread) - k /\ ((p - k) + i) + k = p + i
    BY <1>1
  <2>2. QED
    BY <1>1, <1>2, <2>1
<1>5. EndsIn(p - k, f)'
  BY <1>3, <1>4 DEF EndsIn, u, e
<1>6. ASSUME p - k > 0
      PROVE  checkLen' /\ \E q \in 1 .. p - k :
               (once => q = p - k) /\ \A i \in 1 .. p - k : (u[i] = Mark) <=> (i = q)
  <2>1. p > 0
    BY <1>6
  <2>2. PICK q \in 1 .. p : (once => q = p) /\ \A i \in 1 .. p : (Unread[i] = Mark) <=> (i = q)
    BY <2>1 DEF Follows
  <2>3. q - k \in 1 .. p - k
    BY <2>2
  <2>4. ASSUME NEW i \in 1 .. p - k PROVE (u[i] = Mark) <=> (i = q - k)
    <3>1. i \in 1 .. Len(Unread) - k /\ i + k \in 1 .. p /\ (i + k = q <=> i = q - k)
      BY <1>1
    <3>2. QED
      BY <1>2, <2>2, <3>1
  <2>5. checkLen'
    BY <2>1 DEF Follows
  <2>6. QED
    BY <2>2, <2>3, <2>4, <2>5
<1>7. QED
  BY <1>5, <1>6 DEF Follows, u

LEMMA PeaceStays ==
  ASSUME RxTypeOK, AtPeace, NEW n \in 1 .. Len(Unread), NEW k, Consumes(n, k)
  PROVE  AtPeace' /\ delivered' = delivered
<1> DEFINE u == Unread'
           len == Len(Unread)
<1>1. len \in Nat /\ k \in 0 .. n /\ n <= len /\ n \in Nat
  BY UnreadFacts DEF Consumes
<1>2. Len(u) = len - k /\ \A i \in 1 .. len - k : u[i] = Unread[i + k]
  BY DEF Consumes, Drops
<1>3. \A i \in 1 .. len - 1 : Unread[i] # Mark
  BY DEF AtPeace
<1> HIDE DEF u, len
<1>4. ASSUME NEW i \in 1 .. Len(u) - 1 PROVE u[i] # Mark
  <2>1. i \in 1 .. len - k /\ i + k \in 1 .. len - 1
    BY <1>1, <1>2
  <2>2. QED
    BY <1>2, <1>3, <2>1
<1>5. AtPeace'
  BY <1>4 DEF AtPeace, u
<1>6. ~Takes(n, k)
  <2> SUFFICES ASSUME NEW first \in 1 .. n, NEW last \in 1 .. n, first < last,
                      Unread[first] = Mark
               PROVE  FALSE
    BY DEF Takes
  <2>1. first \in 1 .. len - 1
    BY <1>1
  <2>2. QED
    BY <1>3, <2>1
<1>7. QED
  BY <1>5, <1>6 DEF Consumes, Discards, Waits

LEMMA LengthFacts ==
  /\ LengthCheck(<<>>) = {FALSE}
  /\ \A f \in Frame : LengthCheck(Content[f]) = {TRUE}
<1>1. LengthCheck(<<>>) = {FALSE}
  <2>1. Len(<<>>) = 0 /\ 0 < MinLen
    BY RxAssumption
  <2>2. QED
    BY <2>1 DEF LengthCheck
<1>2. ASSUME NEW f \in Frame PROVE LengthCheck(Content[f]) = {TRUE}
  <2>1. ~(Len(Content[f]) < MinLen)
    BY EncodedFacts, RxAssumption
  <2>2. QED
    BY <2>1 DEF LengthCheck
<1>3. QED
  BY <1>1, <1>2

LEMMA DecodedNothing == Decoded(<<>>) = <<>>
<1>1. <<>> \in Seq(Nat)
  OBVIOUS
<1>2. Stuffed(<<>>) = <<>>
  BY <1>1, StuffedFacts
<1>3. QED
  BY <1>1, <1>2, DecodingInvertsEscaping

\* A frame that is first among the unread bytes is handed over when it is taken.
LEMMA FrameTaken ==
  ASSUME RxTypeOK, NEW f \in Frame, EndsIn(0, f),
         NEW n \in 1 .. Len(Unread), NEW k, Takes(n, k), Drops(k)
  PROVE  AtPeace' /\ delivered' = Append(delivered, f)
<1> DEFINE c == Content[f]
           s == Stuffed(c)
           m == Len(s)
           len == Len(Unread)
<1>1. /\ m \in Nat /\ len = m + 2 /\ Unread[1] = Mark
      /\ \A i \in 1 .. m : Unread[i + 1] = s[i] /\ Unread[i + 1] # Mark
  <2>1. /\ m \in Nat /\ len = 0 + m + 2 /\ Unread[0 + 1] = Mark
        /\ \A i \in 1 .. m : Unread[0 + 1 + i] = s[i] /\ Unread[0 + 1 + i] # Mark
    BY EndsInFacts
  <2>2. 0 + m + 2 = m + 2 /\ \A i \in 1 .. m : 0 + 1 + i = i + 1
    BY <2>1
  <2>3. QED
    BY <2>1, <2>2
<1>2. c \in Seq(Nat) /\ s \in Seq(Nat)
  BY EncodedFacts
<1>3. Decoded(s) = c
  BY <1>2, DecodingInvertsEscaping
<1>4. LengthCheck(c) = {TRUE} /\ TRUE # FALSE
  BY LengthFacts
<1>5. \A g \in Frame : c = Content[g] => g = f
  BY RxAssumption
<1> HIDE DEF c, s, m, len
<1>6. PICK first \in 1 .. n, last \in 1 .. n :
        /\ first < last /\ Unread[first] = Mark /\ Unread[last] = Mark
        /\ \A i \in 1 .. last - 1 : Unread[i] = Mark => i = first
        /\ \E d \in {Decoded(SubSeq(Unread, first + 1, last - 1))} :
             \/ k = last - 1 /\ checkLen /\ FALSE \in LengthCheck(d) /\ UNCHANGED delivered
             \/ k = last /\ (~checkLen \/ TRUE \in LengthCheck(d)) /\ HandOver(d)
  BY DEF Takes
<1>7. n \in Nat /\ n <= len
  BY <1>1 DEF len
<1>8. first = 1
  <2>1. 1 \in 1 .. last - 1
    BY <1>6
  <2>2. QED
    BY <1>1, <1>6, <2>1
<1>9. last = m + 2
  <2> SUFFICES ASSUME last # m + 2 PROVE FALSE
    OBVIOUS
  <2>1. last - 1 \in 1 .. m /\ (last - 1) + 1 = last
    BY <1>1, <1>6, <1>7, <1>8
  <2>2. QED
    BY <1>1, <1>6, <2>1
<1>10. SubSeq(Unread, first + 1, last - 1) = s
  <2> DEFINE t == SubSeq(Unread, 2, m + 1)
  <2>1. /\ t \in Seq(Nat) /\ Len(t) = m /\ \A i \in 1 .. m : t[i] = Unread[i + 1]
    <3>1. ASSUME NEW i \in 2 .. m + 1 PROVE Unread[i] \in Nat
      <4>1. i \in 1 .. len /\ Unread \in Seq(Nat)
        BY <1>1, UnreadFacts
      <4>2. QED
        BY <4>1, ElementOfSeq DEF len
    <3>2. /\ t \in Seq(Nat) /\ Len(t) = IF 2 <= m + 1 THEN (m + 1) - 2 + 1 ELSE 0
          /\ \A i \in 1 .. (m + 1) - 2 + 1 : t[i] = Unread[2 + i - 1]
      <4>1. 2 \in Int /\ m + 1 \in Int
        BY <1>1
      <4>2. QED
        BY <3>1, <4>1, SubSeqProperties
    <3> HIDE DEF t
    <3>3. (m + 1) - 2 + 1 = m /\ \A i \in 1 .. m : 2 + i - 1 = i + 1
      BY <1>1
    <3>4. QED
      BY <1>1, <3>2, <3>3
  <2>2. first + 1 = 2 /\ last - 1 = m + 1
    BY <1>1, <1>8, <1>9
  <2> HIDE DEF t
  <2>3. t = s
    <3>1. Len(t) = Len(s) /\ \A i \in 1 .. Len(t) : t[i] = s[i]
      BY <1>1, <2>1 DEF m
    <3>2. QED
      BY <1>2, <2>1, <3>1, SeqEqual
  <2>4. QED
    BY <2>2, <2>3 DEF t
<1>11. k = last /\ HandOver(c)
  BY <1>3, <1>4, <1>6, <1>10
<1>12. delivered' = Append(delivered, f)
  <2>1. f \in Frame /\ c = Content[f]
    BY DEF c
  <2>2. QED
    BY <1>5, <1>11, <2>1, HandOverFacts
<1>13. AtPeace'
  <2> DEFINE u == Unread'
  <2>1. Len(u) = len - k
    BY DEF Drops, len
  <2>2. Len(u) = 0
    BY <1>1, <1>9, <1>11, <2>1
  <2> HIDE DEF u
  <2>3. \A i \in 1 .. Len(u) - 1 : u[i] # Mark
    BY <2>2
  <2>4. QED
    BY <2>3 DEF AtPeace, u
<1>14. QED
  BY <1>12, <1>13

\* A mark is before the frame: the two do not end a frame, the length tells; or, once
\* only, all but the last mark of the frame is lost.
LEMMA MarkTaken ==
  ASSUME RxTypeOK, NEW f \in Frame, NEW p \in Nat \ {0}, NEW once \in BOOLEAN, Follows(p, f, once),
         NEW n \in 1 .. Len(Unread), NEW k, Takes(n, k), Drops(k)
  PROVE  \/ delivered' = delivered /\ Follows(0, f, once)'
         \/ ~once /\ AtPeace'
<1> DEFINE s == Stuffed(Content[f])
           m == Len(s)
           len == Len(Unread)
           u == Unread'
<1>1. /\ m \in Nat /\ len = p + m + 2 /\ Unread[p + 1] = Mark
      /\ \A i \in 1 .. m : Unread[p + 1 + i] # Mark
  BY EndsInFacts DEF Follows
<1>2. checkLen /\ \E q \in 1 .. p :
        (once => q = p) /\ \A i \in 1 .. p : (Unread[i] = Mark) <=> (i = q)
  BY DEF Follows
<1>3. PICK q \in 1 .. p : (once => q = p) /\ \A i \in 1 .. p : (Unread[i] = Mark) <=> (i = q)
  BY <1>2
<1>4. PICK first \in 1 .. n, last \in 1 .. n :
        /\ first < last /\ Unread[first] = Mark /\ Unread[last] = Mark
        /\ \A i \in 1 .. last - 1 : Unread[i] = Mark => i = first
        /\ \E d \in {Decoded(SubSeq(Unread, first + 1, last - 1))} :
             \/ k = last - 1 /\ checkLen /\ FALSE \in LengthCheck(d) /\ UNCHANGED delivered
             \/ k = last /\ (~checkLen \/ TRUE \in LengthCheck(d)) /\ HandOver(d)
  BY DEF Takes
<1>5. Len(u) = len - k /\ \A i \in 1 .. len - k : u[i] = Unread[i + k]
  BY DEF Drops
<1>6. n \in Nat /\ n <= len
  BY <1>1 DEF len
<1>7. EndsIn(p, f)
  BY DEF Follows
<1> HIDE DEF s, m, len, u
<1>8. q < last
  <2> SUFFICES ASSUME ~(q < last) PROVE FALSE
    OBVIOUS
  <2>1. first \in 1 .. p /\ first # q
    BY <1>3, <1>4
  <2>2. QED
    BY <1>3, <1>4, <2>1
<1>9. first = q
  <2>1. q \in 1 .. last - 1 /\ Unread[q] = Mark
    BY <1>3, <1>8
  <2>2. QED
    BY <1>4, <2>1
<1>10. last = p + 1
  <2>1. last > p
    <3> SUFFICES ASSUME ~(last > p) PROVE FALSE
      OBVIOUS
    <3>1. last \in 1 .. p
      BY <1>4
    <3>2. QED
      BY <1>3, <1>4, <1>9, <3>1
  <2>2. ~(last > p + 1)
    <3> SUFFICES ASSUME last > p + 1 PROVE FALSE
      OBVIOUS
    <3>1. p + 1 \in 1 .. last - 1 /\ p + 1 # q
      BY <1>3
    <3>2. QED
      BY <1>1, <1>4, <1>9, <3>1
  <2>3. QED
    BY <1>4, <2>1, <2>2
<1>11. CASE k = last - 1 /\ UNCHANGED delivered
  <2>1. k = p
    BY <1>10, <1>11
  <2> DEFINE e == Len(Encoded(f))
  <2>2. e \in Nat /\ len = p + e /\ \A i \in 1 .. e : Unread[p + i] = Encoded(f)[i]
    <3>1. len = p + e /\ \A i \in 1 .. e : Unread[p + i] = Encoded(f)[i]
      BY <1>7 DEF EndsIn, len
    <3>2. e \in Nat
      BY EncodedFacts
    <3>3. QED
      BY <3>1, <3>2
  <2> HIDE DEF e
  <2>3. Len(u) = 0 + e
    BY <1>5, <2>1, <2>2
  <2>4. ASSUME NEW i \in 1 .. e PROVE u[0 + i] = Encoded(f)[i]
    <3>1. i \in 1 .. len - k /\ i + k = p + i /\ 0 + i = i
      BY <2>1, <2>2
    <3>2. QED
      BY <1>5, <2>2, <3>1
  <2>5. EndsIn(0, f)'
    BY <2>3, <2>4 DEF EndsIn, u, e
  <2>6. Follows(0, f, once)'
    BY <2>5 DEF Follows
  <2>7. QED
    BY <1>11, <2>6
<1>12. CASE k = last /\ TRUE \in LengthCheck(Decoded(SubSeq(Unread, first + 1, last - 1)))
  <2>1. ~once
    <3> SUFFICES ASSUME once PROVE FALSE
      OBVIOUS
    <3>1. last - 1 < first + 1 /\ first + 1 \in Int /\ last - 1 \in Int
      BY <1>3, <1>9, <1>10
    <3>2. SubSeq(Unread, first + 1, last - 1) = <<>>
      BY <3>1, SubSeqEmpty
    <3>3. QED
      BY <1>12, <3>2, DecodedNothing, LengthFacts
  <2>2. ASSUME NEW i \in 1 .. Len(u) - 1 PROVE u[i] # Mark
    <3>1. i \in 1 .. m /\ i \in 1 .. len - k /\ i + k = p + 1 + i
      BY <1>1, <1>5, <1>10, <1>12
    <3>2. QED
      BY <1>1, <1>5, <3>1
  <2>3. AtPeace'
    BY <2>2 DEF AtPeace, u
  <2>4. QED
    BY <2>1, <2>3
<1>13. QED
  BY <1>2, <1>4, <1>11, <1>12

LEMMA FollowsStep ==
  ASSUME RxTypeOK, NEW f \in Frame, NEW p \in Nat, NEW once \in BOOLEAN, Follows(p, f, once),
         NEW n \in 1 .. Len(Unread), NEW k, Consumes(n, k)
  PROVE  \/ \E r \in Nat : Follows(r, f, once)'
         \/ AtPeace' /\ (once => delivered' = Append(delivered, f))
<1>1. k \in 0 .. n /\ Drops(k) /\ n \in Nat /\ k \in Nat /\ n <= Len(Unread)
  BY UnreadFacts DEF Consumes
<1>2. CASE Discards(n, k)
  <2>1. k = n /\ (\A i \in 1 .. k : Unread[i] # Mark) /\ checkLen' = checkLen
    BY <1>2 DEF Discards
  <2>2. k <= p
    <3> SUFFICES ASSUME p + 1 <= k PROVE FALSE
      BY <1>1
    <3>1. Unread[p + 1] = Mark
      BY EndsInFacts DEF Follows
    <3>2. p + 1 \in 1 .. k
      BY <1>1
    <3>3. QED
      BY <2>1, <3>1, <3>2
  <2>3. Follows(p - k, f, once)' /\ p - k \in Nat
    BY <1>1, <2>1, <2>2, FollowsOn
  <2>4. QED
    BY <2>3
<1>3. CASE Waits(n, k)
  <2>1. k = 0 /\ (\A i \in 1 .. k : Unread[i] # Mark) /\ checkLen' = TRUE
    BY <1>3 DEF Waits
  <2>2. k <= p
    BY <2>1
  <2>3. Follows(p - k, f, once)' /\ p - k \in Nat
    BY <1>1, <2>1, <2>2, FollowsOn
  <2>4. QED
    BY <2>3
<1>4. CASE Takes(n, k) /\ p = 0
  <2>1. EndsIn(0, f)
    BY <1>4 DEF Follows
  <2>2. QED
    BY <1>1, <1>4, <2>1, FrameTaken
<1>5. CASE Takes(n, k) /\ p # 0
  <2>1. p \in Nat \ {0} /\ 0 \in Nat
    BY <1>5
  <2>2. (delivered' = delivered /\ Follows(0, f, once)') \/ (~once /\ AtPeace')
    BY <1>1, <1>5, <2>1, MarkTaken
  <2>3. QED
    BY <2>1, <2>2
<1>6. QED
  BY <1>2, <1>3, <1>4, <1>5 DEF Consumes

\* What was got stays got.
LEMMA GotStays ==
  ASSUME delivered \in Seq(Frame), UNCHANGED calm,
         \/ delivered' = delivered
         \/ \E f \in Frame : delivered' = Append(delivered, f)
  PROVE  \A i : Got(i) => Got(i)'
<1> SUFFICES ASSUME NEW i, Got(i) PROVE Got(i)'
  OBVIOUS
<1>1. PICK k \in 1 .. Len(delivered) : delivered[k] = calm[i]
  BY DEF Got
<1>2. k \in 1 .. Len(delivered') /\ delivered'[k] = delivered[k]
  <2>1. CASE delivered' = delivered
    BY <2>1
  <2>2. CASE \E f \in Frame : delivered' = Append(delivered, f)
    BY <2>2, AppendProperties
  <2>3. QED
    BY <2>1, <2>2
<1>3. QED
  BY <1>1, <1>2 DEF Got

LEMMA ProcessCalm ==
  ASSUME RxInv, CalmInv, NEW n \in 0 .. Len(line), Process(n)
  PROVE  CalmInv'
<1> SUFFICES ASSUME calm # <<>>
             PROVE  /\ \A i \in 2 .. Len(calm) - 1 : Got(i)'
                    /\ \/ AtPeace' /\ (Len(calm) >= 2 => Got(Len(calm))')
                       \/ \E p \in Nat : Follows(p, calm[Len(calm)], Len(calm) >= 2)'
  <2>1. calm' = calm
    BY DEF Process
  <2>2. QED
    BY <2>1 DEF CalmInv, Got, Follows, EndsIn
<1>1. /\ RxTypeOK /\ StaleIsZero /\ calm' = calm /\ calm \in Seq(Frame) /\ Len(calm) \in Nat
      /\ delivered \in Seq(Frame)
  BY DEF RxInv, RxTypeOK, Process
<1>2. rxSize + n \in 1 .. Len(Unread) /\ \E k : Consumes(rxSize + n, k)
  BY <1>1, ProcessFacts
<1>3. PICK k : Consumes(rxSize + n, k)
  BY <1>2
<1>4. \A i : Got(i) => Got(i)'
  BY <1>1, <1>3, ConsumesDelivered, GotStays
<1>5. \A i \in 2 .. Len(calm) - 1 : Got(i)'
  BY <1>4 DEF CalmInv
<1>6. CASE AtPeace /\ (Len(calm) >= 2 => Got(Len(calm)))
  BY <1>1, <1>2, <1>3, <1>4, <1>5, <1>6, PeaceStays
<1>7. CASE \E p \in Nat : Follows(p, calm[Len(calm)], Len(calm) >= 2)
  <2>1. Len(calm) \in 1 .. Len(calm)
    BY <1>1
  <2>2. PICK f \in Frame : f = calm[Len(calm)]
    BY <1>1, <2>1
  <2>3. PICK once \in BOOLEAN : once = (Len(calm) >= 2)
    <3>1. (Len(calm) >= 2) \in BOOLEAN
      BY <1>1
    <3>2. QED
      BY <3>1, Zenon
  <2>4. PICK p \in Nat : Follows(p, f, once)
    BY <1>7, <2>2, <2>3
  <2>5. \/ \E r \in Nat : Follows(r, f, once)'
        \/ AtPeace' /\ (once => delivered' = Append(delivered, f))
    BY <1>1, <1>2, <1>3, <2>4, FollowsStep
  <2>6. CASE \E r \in Nat : Follows(r, f, once)'
    <3>1. f = calm'[Len(calm')] /\ once = (Len(calm') >= 2)
      BY <1>1, <2>2, <2>3
    <3>2. QED
      BY <1>5, <2>6, <3>1
  <2>7. CASE AtPeace' /\ (once => delivered' = Append(delivered, f))
    <3>1. ASSUME Len(calm) >= 2 PROVE Got(Len(calm))'
      <4>1. delivered' = Append(delivered, f)
        BY <2>3, <2>7, <3>1
      <4>2. Len(delivered) + 1 \in 1 .. Len(delivered') /\ delivered'[Len(delivered) + 1] = f
        BY <1>1, <4>1, AppendProperties
      <4>3. calm'[Len(calm')] = f
        BY <1>1, <2>2
      <4>4. QED
        BY <4>2, <4>3 DEF Got
    <3>2. QED
      BY <1>5, <2>7, <3>1
  <2>8. QED
    BY <2>5, <2>6, <2>7
<1>8. QED
  BY <1>6, <1>7 DEF CalmInv

LEMMA UnreadEmit ==
  ASSUME RxTypeOK, Emit
  PROVE  /\ Len(Unread') = Len(Unread) + Len(Encoded(sentF'))
         /\ \A i \in 1 .. Len(Unread) : Unread'[i] = Unread[i]
         /\ \A i \in 1 .. Len(Encoded(sentF')) : Unread'[Len(Unread) + i] = Encoded(sentF')[i]
<1> DEFINE u == Unread'
           rest == line'
           f == sentF'
           e == Encoded(f)
           m == Len(e)
           old == Len(line)
<1>1. /\ rxSize \in Nat /\ old \in Nat /\ Len(Unread) = rxSize + old
  BY UnreadFacts
<1>2. /\ f \in Frame /\ Len(rest) = old + m
      /\ \A i \in 1 .. old + m : rest[i] = IF i <= old THEN line[i] ELSE e[i - old]
  BY EmitFacts
<1>3. m \in Nat
  BY <1>2, EncodedFacts
<1>4. u = [i \in 1 .. rxSize + Len(rest) |-> IF i <= rxSize THEN rxBuf[i] ELSE rest[i - rxSize]]
  BY DEF Unread, Emit
<1> HIDE DEF u, rest, e, m, f, old
<1>5. rxSize + Len(rest) \in Nat /\ rxSize + Len(rest) = (rxSize + old) + m
  BY <1>1, <1>2, <1>3
<1>6. Len(u) = (rxSize + old) + m
  BY <1>4, <1>5
<1>7. ASSUME NEW i \in 1 .. rxSize + old PROVE u[i] = Unread[i]
  <2>1. i \in 1 .. rxSize + Len(rest)
    BY <1>1, <1>3, <1>5
  <2>2. CASE i <= rxSize
    BY <1>4, <2>1, <2>2 DEF Unread, old
  <2>3. CASE ~(i <= rxSize)
    <3>1. u[i] = rest[i - rxSize] /\ Unread[i] = line[i - rxSize]
      BY <1>4, <2>1, <2>3 DEF Unread, old
    <3>2. i - rxSize \in 1 .. old + m /\ i - rxSize <= old
      BY <1>1, <1>3, <2>3
    <3>3. QED
      BY <1>2, <3>1, <3>2
  <2>4. QED
    BY <2>2, <2>3
<1>8. ASSUME NEW i \in 1 .. m PROVE u[(rxSize + old) + i] = e[i]
  <2> DEFINE j == (rxSize + old) + i
  <2>1. j \in 1 .. rxSize + Len(rest) /\ ~(j <= rxSize) /\ j - rxSize = old + i
    BY <1>1, <1>3, <1>5
  <2>2. u[j] = rest[old + i]
    BY <1>4, <2>1
  <2>3. old + i \in 1 .. old + m /\ ~(old + i <= old) /\ (old + i) - old = i
    BY <1>1, <1>3
  <2>4. QED
    BY <1>2, <2>2, <2>3
<1>9. QED
  BY <1>1, <1>6, <1>7, <1>8 DEF u, m, e, f

LEMMA EmitCalm ==
  ASSUME RxInv, CalmInv, Emit
  PROVE  CalmInv'
<1>1. RxTypeOK /\ calm \in Seq(Frame) /\ Len(calm) \in Nat
  BY DEF RxInv, RxTypeOK
<1>2. CASE ~Settled
  BY <1>2 DEF Emit, CalmInv
<1>3. CASE Settled
  <2> PICK f \in Frame : f = sentF'
    BY <1>1, EmitFacts
  <2>1. calm' = Append(calm, f) /\ delivered' = delivered /\ checkLen' = checkLen
    BY <1>3 DEF Emit
  <2>2. Len(calm') = Len(calm) + 1 /\ calm'[Len(calm')] = f
        /\ \A i \in 1 .. Len(calm) : calm'[i] = calm[i]
    BY <1>1, <2>1, AppendProperties
  <2>3. ASSUME NEW i \in 2 .. Len(calm') - 1 PROVE Got(i)'
    <3>1. i \in 2 .. Len(calm) /\ i \in 1 .. Len(calm)
      BY <1>1, <2>2
    <3>2. \E k \in 1 .. Len(delivered) : delivered[k] = calm[i]
      BY <1>1, <1>3, <3>1, CalmIsHeard DEF ResyncLosesOne
    <3>3. QED
      BY <2>1, <2>2, <3>1, <3>2 DEF Got
  <2> PICK p \in Nat : p = Len(Unread)
    BY <1>1, UnreadFacts
  <2> DEFINE u == Unread'
             e == Len(Encoded(f))
  <2>4. e \in Nat
    BY EncodedFacts
  <2>5. /\ Len(u) = p + e
        /\ \A i \in 1 .. p : u[i] = Unread[i]
        /\ \A i \in 1 .. e : u[p + i] = Encoded(f)[i]
    BY <1>1, UnreadEmit
  <2> HIDE DEF u, e
  <2>6. EndsIn(p, f)'
    BY <2>5 DEF EndsIn, u, e
  <2>7. ASSUME p > 0
        PROVE  checkLen' /\ \E q \in 1 .. p :
                 (calm # <<>> => q = p) /\ \A i \in 1 .. p : (u[i] = Mark) <=> (i = q)
    <3>1. checkLen /\ \E q \in 1 .. p : \A i \in 1 .. p : (Unread[i] = Mark) <=> (i = q)
      BY <1>1, <1>3, <2>7, SettledFacts
    <3>2. PICK q \in 1 .. p : \A i \in 1 .. p : (Unread[i] = Mark) <=> (i = q)
      BY <3>1
    <3>3. ASSUME calm # <<>> PROVE q = p
      <4>1. calm[Len(calm)] \in Frame
        BY <1>1, <3>3
      <4>2. AtPeace
        BY <1>1, <1>3, <3>3, <4>1, SettledNotFollows DEF CalmInv
      <4>3. \A i \in 1 .. p - 1 : Unread[i] # Mark
        BY <4>2 DEF AtPeace
      <4>4. Unread[q] = Mark /\ (q = p \/ q \in 1 .. p - 1)
        BY <3>2
      <4>5. QED
        BY <4>3, <4>4
    <3>4. \A i \in 1 .. p : (u[i] = Mark) <=> (i = q)
      BY <2>5, <3>2
    <3>5. QED
      BY <2>1, <3>1, <3>3, <3>4
  <2>8. Len(calm') >= 2 => calm # <<>>
    BY <1>1, <2>2
  <2>9. Follows(p, calm[Len(calm)], Len(calm) >= 2)'
    BY <2>2, <2>6, <2>7, <2>8 DEF Follows, EndsIn, u
  <2>10. QED
    BY <2>3, <2>9 DEF CalmInv
<1>4. QED
  BY <1>2, <1>3

LEMMA CalmNext ==
  ASSUME RxInv, CalmInv, [RxNext]_rxVars
  PROVE  CalmInv'
<1>1. CASE Emit
  BY <1>1, EmitCalm
<1>2. CASE Damage
  BY <1>2 DEF Damage, CalmInv
<1>3. CASE PortReadable \/ LoopTimeout
  <2>1. Len(line) \in Nat
    BY UnreadFacts DEF RxInv
  <2>2. PICK n \in 0 .. Len(line) : Process(n)
    BY <1>3, <2>1 DEF PortReadable, LoopTimeout
  <2>3. QED
    BY <2>2, ProcessCalm
<1>4. CASE UNCHANGED rxVars
  <2>1. calm' = calm /\ delivered' = delivered /\ checkLen' = checkLen
    BY <1>4 DEF rxVars
  <2>2. Unread' = Unread
    BY <1>4 DEF rxVars, Unread
  <2>3. QED
    BY <2>1, <2>2 DEF CalmInv, AtPeace, Follows, EndsIn, Got
<1>5. QED
  BY <1>1, <1>2, <1>3, <1>4 DEF RxNext

\* After any damage, of the frames sent while the receiver has nothing else to do at most
\* the first is missed.
THEOREM ResyncAlwaysLosesOne == RxSpec => []ResyncLosesOne
<1>1. RxInit => CalmInv
  BY DEF RxInit, CalmInv
<1>2. RxInv /\ CalmInv /\ [RxNext]_rxVars => CalmInv'
  BY CalmNext
<1>3. RxInv /\ CalmInv => ResyncLosesOne
  BY CalmIsHeard DEF RxInv
<1>4. QED
  BY RxInvariant, <1>1, <1>2, <1>3, PTL DEF RxSpec

-----------------------------------------------------------------------------
(* Frames whole, at most once and in order: this needs a check sum that finds every *)
(* damage.                                                                           *)

Header(f) == Content[f][1]

\* The headers among the unread bytes are in the order their frames were sent, and all
\* of frames after those handed over.
InOrder ==
  /\ \A k \in 1 .. Len(delivered) : delivered[k] <= sentF
  /\ \A i \in 1 .. Len(Unread), f \in Frame : Unread[i] = Header(f) =>
       f <= sentF /\ \A k \in 1 .. Len(delivered) : delivered[k] < f
  /\ \A i, j \in 1 .. Len(Unread), f, g \in Frame :
       i < j /\ Unread[i] = Header(f) /\ Unread[j] = Header(g) => f < g

\* Decoding makes no byte but marks and escapes.
LEMMA DecodedBytes ==
  ASSUME NEW s \in Seq(Nat)
  PROVE  \A j \in 1 .. Len(Decoded(s)) :
           Decoded(s)[j] \in {Mark, Esc} \/ \E i \in 1 .. Len(s) : s[i] = Decoded(s)[j]
<1> DEFINE B == {s[i] : i \in 1 .. Len(s)} \cup {Mark, Esc}
           n == Len(s)
<1>1. n \in Nat /\ \A i \in 1 .. n : s[i] \in Nat /\ s[i] \in B
  BY ElementOfSeq
<1>2. B \subseteq Nat /\ Mark \in B /\ Esc \in B
  BY <1>1 DEF Mark, Esc
<1> HIDE DEF B
<1>3. CASE UnknownEscape(s)
  <2>1. Decoded(s) = <<>>
    BY <1>3 DEF Decoded
  <2>2. Len(<<>>) = 0
    OBVIOUS
  <2>3. QED
    BY <2>1, <2>2
<1>4. CASE ~UnknownEscape(s)
  <2> DEFINE F == [i \in 1 .. n |-> [x \in Seq(B) |->
                    IF i > 1 /\ s[i - 1] = Esc THEN x ELSE Append(x, Plain(s, i))]]
  <2>1. ASSUME NEW i \in 1 .. n PROVE Plain(s, i) \in B
    BY <1>1, <1>2 DEF Plain
  <2>2. \A i \in 1 .. n, x \in Seq(B) :
          (IF i > 1 /\ s[i - 1] = Esc THEN x ELSE Append(x, Plain(s, i))) \in Seq(B)
    BY <2>1, AppendProperties
  <2>3. F \in [1 .. n -> [Seq(B) -> Seq(B)]] /\ <<>> \in Seq(B)
    BY <2>2
  <2>4. \A i \in 1 .. n, x \in Seq(B) :
          F[i][x] = IF i > 1 /\ s[i - 1] = Esc THEN x ELSE Append(x, Plain(s, i))
    OBVIOUS
  <2> HIDE DEF F
  <2>5. \E g \in [0 .. n -> Seq(B)] : Chain(g, n, <<>>, F)
    BY <1>1, <2>3, ChainExists
  <2>6. PICK g \in [0 .. n -> Seq(B)] : g[0] = <<>> /\ \A i \in 1 .. n : g[i] = F[i][g[i - 1]]
    BY <2>5 DEF Chain
  <2>7. ASSUME NEW i \in 1 .. n
        PROVE  g[i] = IF i > 1 /\ s[i - 1] = Esc THEN g[i - 1] ELSE Append(g[i - 1], Plain(s, i))
    <3>1. i - 1 \in 0 .. n
      BY <1>1
    <3>2. QED
      BY <2>4, <2>6, <3>1
  <2>8. Seq(B) \subseteq Seq(Nat)
    BY <1>2, SeqMonotonic
  <2>9. g \in [0 .. n -> Seq(Nat)]
    BY <2>8
  <2>10. Decodes(g, s)
    BY <2>6, <2>7 DEF Decodes
  <2>11. Decoded(s) = g[n]
    BY <1>4, <2>9, <2>10, DecodedIsLast
  <2>12. Decoded(s) \in Seq(B)
    <3>1. n \in 0 .. n
      BY <1>1
    <3>2. QED
      BY <2>11, <3>1
  <2>13. \A j \in 1 .. Len(Decoded(s)) : Decoded(s)[j] \in B
    BY <2>12, ElementOfSeq
  <2>14. QED
    BY <2>13 DEF B
<1>5. QED
  BY <1>3, <1>4

\* A byte that is in a content as its first only is so in what escaping makes of it.
LEMMA StuffedOnce ==
  ASSUME NEW h \in Nat, h > Noise, NEW c \in Seq(Nat), \A i \in 1 .. Len(c) : c[i] = h => i = 1
  PROVE  \A i \in 1 .. Len(Stuffed(c)) : Stuffed(c)[i] = h => i = 1 /\ Len(c) > 0 /\ c[1] = h
<1> DEFINE Only(d) == \A i \in 1 .. Len(d) : d[i] = h => i = 1
           Good(d) == \A i \in 1 .. Len(Stuffed(d)) :
                        Stuffed(d)[i] = h => i = 1 /\ Len(d) > 0 /\ d[1] = h
           T == {k \in Nat : \A d \in Seq(Nat) : Len(d) = k /\ Only(d) => Good(d)}
<1>1. 0 \in T
  <2> SUFFICES ASSUME NEW d \in Seq(Nat), Len(d) = 0 PROVE Good(d)
    OBVIOUS
  <2>1. d = <<>> /\ Stuffed(d) = <<>> /\ Len(<<>>) = 0
    BY StuffedFacts
  <2>2. QED
    BY <2>1
<1>2. ASSUME NEW k \in Nat, k \in T PROVE k + 1 \in T
  <2> SUFFICES ASSUME NEW d \in Seq(Nat), Len(d) = k + 1, Only(d) PROVE Good(d)
    OBVIOUS
  <2> DEFINE e == Front(d)
             b == d[Len(d)]
  <2>1. e \in Seq(Nat) /\ b \in Nat /\ Len(e) = k /\ d = Append(e, b)
    <3>1. Len(d) # 0 /\ Len(d) - 1 = k
      OBVIOUS
    <3>2. QED
      BY <3>1, FrontAndLast
  <2> HIDE DEF e, b
  <2>2. d[k + 1] = b /\ \A i \in 1 .. k : d[i] = e[i]
    BY <2>1
  <2>3. Only(e)
    BY <2>2, <2>1
  <2>4. Good(e)
    BY <1>2, <2>1, <2>3
  <2> DEFINE s == Stuffed(e)
             m == Len(s)
             x == Escaped(b)
             t == s \o x
  <2>5. Stuffed(d) = t /\ s \in Seq(Nat) /\ x \in Seq(Nat) /\ m \in Nat
    <3>1. s \in Seq(Nat) /\ Stuffed(Append(e, b)) = t
      BY <2>1, StuffedFacts
    <3>2. x \in Seq(Nat)
      BY <2>1, EscapedFacts
    <3> HIDE DEF s, x, t
    <3>3. QED
      BY <2>1, <3>1, <3>2
  <2>6. /\ Len(t) = m + Len(x)
        /\ \A i \in 1 .. m + Len(x) : t[i] = IF i <= m THEN s[i] ELSE x[i - m]
    BY <2>5, ConcatProperties
  <2>7. \A i \in 1 .. Len(x) : x[i] = h => b = h /\ i = 1
    <3>1. CASE b \in {Mark, Esc}
      <4>1. \E code \in {EscMark, EscEsc} : x = <<Esc, code>>
        BY <2>1, <3>1, EscapedFacts
      <4>2. QED
        BY <4>1 DEF Esc, EscMark, EscEsc, Noise
    <3>2. CASE b \notin {Mark, Esc}
      <4>1. x = <<b>>
        BY <2>1, <3>2, EscapedFacts
      <4>2. QED
        BY <4>1
    <3>3. QED
      BY <3>1, <3>2
  <2>8. k = 0 => m = 0
    <3>1. k = 0 => e = <<>>
      BY <2>1
    <3>2. Stuffed(<<>>) = <<>> /\ Len(<<>>) = 0
      BY <2>1, StuffedFacts
    <3>3. QED
      BY <3>1, <3>2
  <2> HIDE DEF s, x, m, t
  <2>9. ASSUME NEW i \in 1 .. Len(t), t[i] = h PROVE i = 1 /\ d[1] = h
    <3>1. Len(x) \in Nat
      BY <2>5
    <3>2. CASE i <= m
      <4>1. i \in 1 .. m /\ s[i] = h
        BY <2>5, <2>6, <2>9, <3>1, <3>2
      <4>2. i = 1 /\ Len(e) > 0 /\ e[1] = h
        BY <2>4, <4>1 DEF s, m
      <4>3. QED
        BY <2>1, <2>2, <4>2
    <3>3. CASE ~(i <= m)
      <4>1. i - m \in 1 .. Len(x) /\ x[i - m] = h
        BY <2>5, <2>6, <2>9, <3>1, <3>3
      <4>2. b = h /\ i - m = 1
        BY <2>7, <4>1
      <4>3. k + 1 \in 1 .. Len(d)
        OBVIOUS
      <4>4. k + 1 = 1
        BY <2>2, <4>2, <4>3
      <4>5. QED
        BY <2>2, <2>5, <2>8, <4>2, <4>4
    <3>4. QED
      BY <3>2, <3>3
  <2>10. QED
    BY <2>5, <2>9
<1> HIDE DEF T
<1>3. \A k \in Nat : k \in T
  BY <1>1, <1>2, SetInduction
<1>4. Len(c) \in T
  BY <1>3
<1>5. QED
  BY <1>4 DEF T

\* A frame on the line holds its own header, once, and no other.
LEMMA EncodedHeader ==
  ASSUME NEW f \in Frame, NEW g \in Frame, NEW i \in 1 .. Len(Encoded(f)),
         Encoded(f)[i] = Header(g)
  PROVE  g = f /\ i = 2
<1> DEFINE c == Content[f]
           s == Stuffed(c)
           e == Encoded(f)
           n == Len(s)
           h == Header(g)
<1>1. /\ c \in Seq(Nat) /\ Len(c) \in Nat \ {0} /\ n \in Nat /\ Len(e) = n + 2
      /\ e[1] = Mark /\ e[Len(e)] = Mark /\ \A j \in 1 .. n : e[j + 1] = s[j]
  BY EncodedFacts
<1>2. h \in Nat /\ h > Noise
  <2>1. Content[g] \in Seq(Nat) /\ 1 \in 1 .. Len(Content[g])
    BY EncodedFacts
  <2>2. QED
    BY <2>1, ElementOfSeq, CheckSumAssumption DEF Header
<1>3. \A j \in 1 .. Len(c) : c[j] = h => f = g /\ j = 1
  BY CheckSumAssumption DEF Header
<1>4. \A j \in 1 .. n : s[j] = h => j = 1 /\ c[1] = h
  <2>1. \A j \in 1 .. Len(c) : c[j] = h => j = 1
    BY <1>3
  <2>2. \A j \in 1 .. Len(Stuffed(c)) : Stuffed(c)[j] = h => j = 1 /\ Len(c) > 0 /\ c[1] = h
    <3>1. c \in Seq(Nat) /\ h \in Nat /\ h > Noise
      BY <1>1, <1>2
    <3> HIDE DEF c, h
    <3>2. QED
      BY <2>1, <3>1, StuffedOnce
  <2>3. QED
    BY <2>2
<1> HIDE DEF c, s, e, n, h
<1>5. i \in 1 .. n + 2 /\ e[i] = h
  BY <1>1 DEF e, h
<1>6. i # 1 /\ i # n + 2
  BY <1>1, <1>2, <1>5 DEF Mark, Noise
<1>7. i - 1 \in 1 .. n /\ (i - 1) + 1 = i
  BY <1>1, <1>5, <1>6
<1>8. s[i - 1] = h
  BY <1>1, <1>5, <1>7
<1>9. i - 1 = 1 /\ c[1] = h
  BY <1>4, <1>7, <1>8
<1>10. QED
  BY <1>1, <1>3, <1>7, <1>9

LEMMA HeaderFacts ==
  ASSUME NEW f \in Frame
  PROVE  /\ Header(f) \in Nat /\ Header(f) > Noise /\ Header(f) \notin {Mark, Esc}
         /\ f \in Nat /\ f >= 1
<1>1. Content[f] \in Seq(Nat) /\ 1 \in 1 .. Len(Content[f])
  BY EncodedFacts
<1>2. Header(f) \in Nat /\ Header(f) > Noise
  BY <1>1, ElementOfSeq, CheckSumAssumption DEF Header
<1>3. f \in Nat /\ f >= 1
  BY RxAssumption
<1>4. QED
  BY <1>2, <1>3 DEF Mark, Esc, Noise

\* A frame that is handed over has its header among the bytes that go.
LEMMA HandsOver ==
  ASSUME RxTypeOK, NEW n \in 1 .. Len(Unread), NEW k, Consumes(n, k)
  PROVE  \/ delivered' = delivered
         \/ \E f \in Frame : \E at \in 1 .. k :
              Unread[at] = Header(f) /\ delivered' = Append(delivered, f)
<1> SUFFICES ASSUME Takes(n, k), delivered' # delivered
             PROVE  \E f \in Frame : \E at \in 1 .. k :
                      Unread[at] = Header(f) /\ delivered' = Append(delivered, f)
  BY DEF Consumes, Discards, Waits
<1>1. PICK first \in 1 .. n, last \in 1 .. n :
        /\ first < last
        /\ \E d \in {Decoded(SubSeq(Unread, first + 1, last - 1))} :
             \/ k = last - 1 /\ checkLen /\ FALSE \in LengthCheck(d) /\ UNCHANGED delivered
             \/ k = last /\ (~checkLen \/ TRUE \in LengthCheck(d)) /\ HandOver(d)
  BY DEF Takes
<1> DEFINE s == SubSeq(Unread, first + 1, last - 1)
<1>2. k = last /\ HandOver(Decoded(s))
  BY <1>1
<1>3. PICK f \in Frame : Decoded(s) = Content[f] /\ delivered' = Append(delivered, f)
  BY <1>2, HandOverFacts
<1>4. first + 1 \in Int /\ last - 1 \in Int /\ n \in Nat /\ n <= Len(Unread)
  BY UnreadFacts
<1>5. /\ s \in Seq(Nat) /\ Len(s) = IF first + 1 <= last - 1 THEN (last - 1) - (first + 1) + 1 ELSE 0
      /\ \A i \in 1 .. (last - 1) - (first + 1) + 1 : s[i] = Unread[(first + 1) + i - 1]
  <2>1. ASSUME NEW i \in first + 1 .. last - 1 PROVE Unread[i] \in Nat
    <3>1. i \in 1 .. Len(Unread) /\ Unread \in Seq(Nat)
      BY <1>4, UnreadFacts
    <3>2. QED
      BY <3>1, ElementOfSeq
  <2>2. QED
    BY <1>4, <2>1, SubSeqProperties
<1> HIDE DEF s
<1>6. PICK i \in 1 .. Len(s) : s[i] = Header(f)
  <2>1. 1 \in 1 .. Len(Content[f]) /\ Content[f][1] = Header(f)
    BY EncodedFacts DEF Header
  <2>2. 1 \in 1 .. Len(Decoded(s)) /\ Decoded(s)[1] = Header(f)
    BY <1>3, <2>1
  <2>3. Header(f) \in {Mark, Esc} \/ \E j \in 1 .. Len(s) : s[j] = Header(f)
    <3>1. s \in Seq(Nat)
      BY <1>5
    <3>2. Decoded(s)[1] \in {Mark, Esc} \/ \E j \in 1 .. Len(s) : s[j] = Decoded(s)[1]
      BY <2>2, <3>1, DecodedBytes
    <3>3. QED
      BY <2>2, <3>2
  <2>4. QED
    BY <2>3, HeaderFacts
<1>7. first + i \in 1 .. k /\ i \in 1 .. (last - 1) - (first + 1) + 1
      /\ (first + 1) + i - 1 = first + i
  <2>1. first \in Nat /\ last \in Nat /\ i \in Nat /\ i >= 1 /\ i <= Len(s) /\ k = last
    <3>1. first \in Nat /\ last \in Nat
      BY <1>4
    <3>2. Len(s) \in Nat
      BY <1>5, LenProperties
    <3>3. QED
      BY <1>2, <1>6, <3>1, <3>2
  <2>2. i <= (last - 1) - (first + 1) + 1
    BY <1>5, <2>1
  <2>3. QED
    BY <2>1, <2>2
<1>8. Unread[first + i] = Header(f)
  BY <1>5, <1>6, <1>7
<1>9. QED
  BY <1>3, <1>7, <1>8

\* Bytes that go, or are replaced by damage, leave the order of the headers as it is.
LEMMA OrderKept ==
  ASSUME InOrder, UNCHANGED <<sentF, delivered>>, Len(Unread') \in Nat, NEW m,
         \A j \in 1 .. Len(Unread') : Unread'[j] > Noise =>
           m[j] \in 1 .. Len(Unread) /\ Unread[m[j]] = Unread'[j],
         \A i, j \in 1 .. Len(Unread') : i < j /\ Unread'[i] > Noise /\ Unread'[j] > Noise =>
           m[i] < m[j]
  PROVE  InOrder'
<1> DEFINE u == Unread'
<1>1. /\ Len(u) \in Nat
      /\ \A j \in 1 .. Len(u) : u[j] > Noise => m[j] \in 1 .. Len(Unread) /\ Unread[m[j]] = u[j]
      /\ \A i, j \in 1 .. Len(u) : i < j /\ u[i] > Noise /\ u[j] > Noise => m[i] < m[j]
  OBVIOUS
<1> HIDE DEF u
<1>2. \A f \in Frame : Header(f) > Noise
  BY HeaderFacts
<1>3. ASSUME NEW i \in 1 .. Len(u), NEW f \in Frame, u[i] = Header(f)
      PROVE  f <= sentF /\ \A k \in 1 .. Len(delivered) : delivered[k] < f
  <2>1. m[i] \in 1 .. Len(Unread) /\ Unread[m[i]] = Header(f)
    BY <1>1, <1>2, <1>3
  <2>2. QED
    BY <2>1 DEF InOrder
<1>4. ASSUME NEW i \in 1 .. Len(u), NEW j \in 1 .. Len(u), NEW f \in Frame, NEW g \in Frame,
             i < j, u[i] = Header(f), u[j] = Header(g)
      PROVE  f < g
  <2>1. /\ m[i] \in 1 .. Len(Unread) /\ Unread[m[i]] = Header(f)
        /\ m[j] \in 1 .. Len(Unread) /\ Unread[m[j]] = Header(g)
    BY <1>1, <1>2, <1>4
  <2>2. m[i] < m[j]
    BY <1>1, <1>2, <1>4
  <2>3. QED
    BY <2>1, <2>2 DEF InOrder
<1>5. \A k \in 1 .. Len(delivered) : delivered[k] <= sentF
  BY DEF InOrder
<1>6. QED
  BY <1>3, <1>4, <1>5 DEF InOrder, u

LEMMA ProcessOrder ==
  ASSUME RxInv, InOrder, NEW n \in 0 .. Len(line), Process(n)
  PROVE  /\ InOrder'
         /\ UNCHANGED <<sentF, delivered>> \/ \E f \in 1 .. sentF : Line!HandOverFrame(f)
<1>1. RxTypeOK /\ StaleIsZero /\ sentF' = sentF /\ delivered \in Seq(Frame)
  BY DEF RxInv, RxTypeOK, Process
<1>2. rxSize + n \in 1 .. Len(Unread) /\ \E k : Consumes(rxSize + n, k)
  BY <1>1, ProcessFacts
<1>3. PICK k : Consumes(rxSize + n, k)
  BY <1>2
<1> DEFINE u == Unread'
           len == Len(Unread)
<1>4. /\ len \in Nat /\ k \in Nat /\ k <= len /\ Len(u) = len - k
      /\ \A i \in 1 .. len - k : u[i] = Unread[i + k]
  <2>1. len \in Nat
    BY <1>1, UnreadFacts
  <2>2. k \in 0 .. rxSize + n /\ Len(u) = len - k /\ \A i \in 1 .. len - k : u[i] = Unread[i + k]
    BY <1>3 DEF Consumes, Drops
  <2>3. QED
    BY <1>2, <2>1, <2>2
<1>5. CASE delivered' = delivered
  <2> DEFINE m == [j \in 1 .. len - k |-> j + k]
  <2>1. \A j \in 1 .. len - k : m[j] \in 1 .. len /\ m[j] = j + k
    BY <1>4
  <2>2. \A i, j \in 1 .. len - k : i < j => m[i] < m[j]
    BY <1>4
  <2> HIDE DEF m
  <2>3. Len(u) \in Nat /\ \A j \in 1 .. Len(u) : m[j] \in 1 .. len /\ Unread[m[j]] = u[j]
    BY <1>4, <2>1
  <2>4. InOrder'
    BY <1>1, <1>4, <1>5, <2>2, <2>3, OrderKept
  <2>5. QED
    BY <1>1, <1>5, <2>4
<1>6. ASSUME NEW f \in Frame, NEW at \in 1 .. k, Unread[at] = Header(f),
             delivered' = Append(delivered, f)
      PROVE  /\ InOrder'
             /\ f \in 1 .. sentF /\ Line!HandOverFrame(f)
  <2> HIDE DEF u, len
  <2>1. at \in 1 .. len
    BY <1>4
  <2>2. f <= sentF /\ \A i \in 1 .. Len(delivered) : delivered[i] < f
    BY <1>6, <2>1 DEF InOrder, len
  <2>3. f \in 1 .. sentF
    BY <1>1, <2>2, HeaderFacts DEF RxTypeOK
  <2>4. Line!HandOverFrame(f)
    BY <1>1, <1>6, <2>2, <2>3 DEF Line!HandOverFrame
  <2>5. /\ Len(delivered) \in Nat /\ Len(delivered') = Len(delivered) + 1
        /\ delivered'[Len(delivered) + 1] = f
        /\ \A i \in 1 .. Len(delivered) : delivered'[i] = delivered[i] /\ delivered[i] \in Frame
    BY <1>1, <1>6, AppendProperties, ElementOfSeq
  <2>6. \A i \in 1 .. Len(delivered') : delivered'[i] <= f
    <3>1. \A i \in 1 .. Len(delivered') : i = Len(delivered) + 1 \/ i \in 1 .. Len(delivered)
      BY <2>5
    <3>2. f <= f /\ \A g \in Frame : g < f => g <= f
      BY HeaderFacts
    <3>3. QED
      BY <2>2, <2>5, <3>1, <3>2
  <2>7. \A i \in 1 .. Len(u) : i \in 1 .. len - k /\ i + k \in 1 .. len /\ at < i + k /\ u[i] = Unread[i + k]
    BY <1>4
  <2>8. ASSUME NEW i \in 1 .. Len(u), NEW g \in Frame, u[i] = Header(g)
        PROVE  g <= sentF /\ \A j \in 1 .. Len(delivered') : delivered'[j] < g
    <3>1. g <= sentF /\ f < g
      BY <1>6, <2>1, <2>7, <2>8 DEF InOrder, len
    <3>2. \A j \in 1 .. Len(delivered') : delivered'[j] \in Nat
      <4>1. \A j \in 1 .. Len(delivered') : j = Len(delivered) + 1 \/ j \in 1 .. Len(delivered)
        BY <2>5
      <4>2. QED
        BY <2>5, <4>1, HeaderFacts
    <3>3. f \in Nat /\ g \in Nat
      BY HeaderFacts
    <3>4. QED
      BY <2>6, <3>1, <3>2, <3>3
  <2>9. ASSUME NEW i \in 1 .. Len(u), NEW j \in 1 .. Len(u), NEW g \in Frame, NEW h \in Frame,
               i < j, u[i] = Header(g), u[j] = Header(h)
        PROVE  g < h
    <3>1. i + k < j + k
      BY <1>4, <2>9
    <3>2. QED
      BY <2>7, <2>9, <3>1 DEF InOrder, len
  <2>10. \A i \in 1 .. Len(delivered') : delivered'[i] <= sentF
    <3>1. \A j \in 1 .. Len(delivered') : j = Len(delivered) + 1 \/ j \in 1 .. Len(delivered)
      BY <2>5
    <3>2. QED
      BY <2>2, <2>5, <3>1 DEF InOrder
  <2>11. InOrder'
    BY <1>1, <2>8, <2>9, <2>10 DEF InOrder, u
  <2>12. QED
    BY <2>3, <2>4, <2>11
<1>7. delivered' = delivered
      \/ \E f \in Frame : \E at \in 1 .. k : Unread[at] = Header(f) /\ delivered' = Append(delivered, f)
  BY <1>1, <1>2, <1>3, HandsOver
<1>8. QED
  BY <1>5, <1>6, <1>7

LEMMA DamageOrder ==
  ASSUME RxInv, InOrder, Damage
  PROVE  InOrder' /\ UNCHANGED <<sentF, delivered>>
<1>1. /\ RxTypeOK /\ rxBuf' = rxBuf /\ rxSize' = rxSize /\ UNCHANGED <<sentF, delivered>>
      /\ line \in Seq(Nat)
  BY DEF RxInv, RxTypeOK, Damage
<1> DEFINE u == Unread'
           len == Len(Unread)
           rest == line'
           old == Len(line)
<1>2. /\ rxSize \in Nat /\ old \in Nat /\ len = rxSize + old
  BY <1>1, UnreadFacts
<1>3. PICK at \in 1 .. old, less \in {0, 1} :
        /\ Len(rest) = old - less
        /\ \A j \in 1 .. old - less :
             \/ j < at /\ rest[j] = line[j]
             \/ j >= at /\ rest[j] = line[j + less]
             \/ j = at /\ rest[j] <= Noise
  BY <1>1, DamageFacts
<1>4. u = [i \in 1 .. rxSize + Len(rest) |-> IF i <= rxSize THEN rxBuf[i] ELSE rest[i - rxSize]]
  BY <1>1 DEF Unread
<1>5. \A i \in 1 .. len : Unread[i] = IF i <= rxSize THEN rxBuf[i] ELSE line[i - rxSize]
  BY <1>2 DEF Unread
<1> HIDE DEF u, rest, old, len
<1>6. rxSize + Len(rest) \in Nat /\ rxSize + Len(rest) = len - less
  BY <1>2, <1>3
<1>7. Len(u) = len - less /\ Len(u) \in Nat
  BY <1>4, <1>6
<1> DEFINE m == [j \in 1 .. Len(u) |-> IF j < rxSize + at THEN j ELSE j + less]
<1>8. \A j \in 1 .. Len(u) : m[j] = IF j < rxSize + at THEN j ELSE j + less
  OBVIOUS
<1> HIDE DEF m
<1>9. ASSUME NEW j \in 1 .. Len(u), u[j] > Noise
      PROVE  m[j] \in 1 .. len /\ Unread[m[j]] = u[j]
  <2>1. m[j] \in 1 .. len
    <3>1. j \in 1 .. len /\ j + less \in 1 .. len
      BY <1>2, <1>3, <1>7
    <3>2. m[j] = j \/ m[j] = j + less
      BY <1>8
    <3>3. QED
      BY <3>1, <3>2
  <2>2. CASE j <= rxSize
    <3>1. j < rxSize + at /\ m[j] = j
      BY <1>2, <1>3, <1>8, <2>2
    <3>2. u[j] = rxBuf[j]
      BY <1>4, <1>6, <1>7, <2>2
    <3>3. QED
      BY <1>5, <2>1, <2>2, <3>1, <3>2
  <2>3. CASE ~(j <= rxSize)
    <3> DEFINE l == j - rxSize
    <3>1. l \in 1 .. old - less /\ (l < at <=> j < rxSize + at) /\ l \in Int
      BY <1>2, <1>3, <1>6, <1>7, <2>3
    <3>2. u[j] = rest[l]
      BY <1>4, <1>6, <1>7, <2>3
    <3>3. (l < at /\ rest[l] = line[l]) \/ (l >= at /\ rest[l] = line[l + less])
      <4>1. ~(rest[l] <= Noise)
        <5>1. rest[l] \in Nat
          <6>1. rest \in Seq(Nat)
            BY <1>1, DamageFacts DEF rest
          <6>2. l \in 1 .. Len(rest)
            BY <1>3, <3>1
          <6>3. QED
            BY <6>1, <6>2, ElementOfSeq
        <5>2. QED
          BY <1>9, <3>2, <5>1 DEF Noise
      <4>2. QED
        BY <1>3, <3>1, <4>1
    <3>4. m[j] - rxSize = (IF l < at THEN l ELSE l + less) /\ ~(m[j] <= rxSize)
      BY <1>2, <1>3, <1>8, <2>3, <3>1
    <3>5. Unread[m[j]] = line[m[j] - rxSize]
      BY <1>5, <2>1, <3>4
    <3> HIDE DEF l
    <3>6. CASE l < at
      BY <3>1, <3>2, <3>3, <3>4, <3>5, <3>6, <2>1
    <3>7. CASE ~(l < at)
      BY <3>1, <3>2, <3>3, <3>4, <3>5, <3>7, <2>1
    <3>8. QED
      BY <3>6, <3>7
  <2>4. QED
    BY <2>2, <2>3
<1>10. \A i, j \in 1 .. Len(u) : i < j => m[i] < m[j]
  BY <1>3, <1>7, <1>8, <1>2
<1>11. InOrder'
  BY <1>1, <1>7, <1>9, <1>10, OrderKept DEF u, len
<1>12. QED
  BY <1>1, <1>11

LEMMA EmitOrder ==
  ASSUME RxInv, InOrder, Emit
  PROVE  InOrder' /\ Line!SendFrame
<1>1. RxTypeOK /\ sentF \in Int /\ delivered \in Seq(Frame) /\ delivered' = delivered
  BY DEF RxInv, RxTypeOK, Emit
<1>2. sentF' = sentF + 1 /\ sentF' \in Frame
  BY <1>1, EmitFacts
<1> DEFINE u == Unread'
           len == Len(Unread)
           new == sentF'
           e == Encoded(new)
           m == Len(e)
<1>3. len \in Nat /\ m \in Nat
  BY <1>1, <1>2, UnreadFacts, EncodedFacts
<1>4. /\ Len(u) = len + m
      /\ \A i \in 1 .. len : u[i] = Unread[i]
      /\ \A i \in 1 .. m : u[len + i] = e[i]
  BY <1>1, UnreadEmit
<1>5. new = sentF + 1 /\ new \in Frame
  BY <1>2
<1>6. \A f \in Frame, i \in 1 .. m : e[i] = Header(f) => f = new /\ i = 2
  BY <1>5, EncodedHeader
<1> HIDE DEF u, len, new, e, m
<1>7. \A i \in 1 .. Len(u) : i \in 1 .. len \/ (i - len \in 1 .. m /\ len + (i - len) = i)
  BY <1>3, <1>4
<1>8. ASSUME NEW i \in 1 .. Len(u), NEW f \in Frame, u[i] = Header(f)
      PROVE  \/ i \in 1 .. len /\ Unread[i] = Header(f) /\ f <= sentF
             \/ i = len + 2 /\ f = new
  <2>1. CASE i \in 1 .. len
    BY <1>4, <1>8, <2>1 DEF InOrder, len
  <2>2. CASE i - len \in 1 .. m /\ len + (i - len) = i
    <3>1. e[i - len] = Header(f)
      BY <1>4, <1>8, <2>2
    <3>2. f = new /\ i - len = 2
      BY <1>6, <2>2, <3>1
    <3>3. QED
      BY <1>3, <3>2
  <2>3. QED
    BY <1>7, <2>1, <2>2
<1>9. \A k \in 1 .. Len(delivered) : delivered[k] \in Nat /\ delivered[k] <= sentF
  BY <1>1, HeaderFacts, ElementOfSeq DEF InOrder
<1>10. ASSUME NEW i \in 1 .. Len(u), NEW f \in Frame, u[i] = Header(f)
       PROVE  f <= new /\ \A k \in 1 .. Len(delivered) : delivered[k] < f
  <2>1. CASE i \in 1 .. len /\ Unread[i] = Header(f) /\ f <= sentF
    <3>1. \A k \in 1 .. Len(delivered) : delivered[k] < f
      BY <2>1 DEF InOrder, len
    <3>2. f <= new
      BY <1>1, <1>5, <2>1, HeaderFacts
    <3>3. QED
      BY <3>1, <3>2
  <2>2. CASE f = new
    BY <1>1, <1>5, <1>9, <2>2
  <2>3. QED
    BY <1>8, <1>10, <2>1, <2>2
<1>11. ASSUME NEW i \in 1 .. Len(u), NEW j \in 1 .. Len(u), NEW f \in Frame, NEW g \in Frame,
              i < j, u[i] = Header(f), u[j] = Header(g)
       PROVE  f < g
  <2>1. (i \in 1 .. len /\ Unread[i] = Header(f) /\ f <= sentF) \/ (i = len + 2 /\ f = new)
    BY <1>8, <1>11
  <2>2. (j \in 1 .. len /\ Unread[j] = Header(g) /\ g <= sentF) \/ (j = len + 2 /\ g = new)
    BY <1>8, <1>11
  <2>3. CASE i \in 1 .. len /\ j \in 1 .. len /\ Unread[i] = Header(f) /\ Unread[j] = Header(g)
    BY <1>11, <2>3 DEF InOrder, len
  <2>4. CASE i \in 1 .. len /\ f <= sentF /\ g = new
    BY <1>1, <1>5, <2>4, HeaderFacts
  <2>5. CASE i = len + 2 /\ j \in 1 .. len
    BY <1>3, <1>11, <2>5
  <2>6. CASE i = len + 2 /\ j = len + 2
    BY <1>3, <1>11, <2>6
  <2>7. QED
    BY <2>1, <2>2, <2>3, <2>4, <2>5, <2>6
<1>12. \A k \in 1 .. Len(delivered) : delivered[k] <= new
  BY <1>1, <1>5, <1>9
<1>13. InOrder'
  BY <1>1, <1>10, <1>11, <1>12 DEF InOrder, u, new
<1>14. Line!SendFrame
  BY <1>1, <1>2 DEF Line!SendFrame
<1>15. QED
  BY <1>13, <1>14

\* However the reads cut the frames and whatever the line does to them, frames are handed
\* over whole, at most once and in the order they were sent: the reception implements
\* the line that only loses frames.
THEOREM ReceptionIsLossyLine == RxSpec => LineImplemented
<1>1. RxInit => InOrder /\ Line!LineInit
  <2> SUFFICES ASSUME RxInit PROVE InOrder /\ Line!LineInit
    OBVIOUS
  <2>1. rxSize = 0 /\ line = <<>> /\ sentF = 0 /\ delivered = <<>> /\ RxTypeOK
    BY RxInitInv DEF RxInit, RxInv
  <2>2. Len(Unread) = 0 /\ Len(delivered) = 0
    BY <2>1, UnreadFacts
  <2>3. InOrder
    BY <2>2 DEF InOrder
  <2>4. QED
    BY <2>1, <2>3 DEF Line!LineInit
<1>2. RxInv /\ InOrder /\ [RxNext]_rxVars => InOrder' /\ [Line!LineNext]_<<sentF, delivered>>
  <2> SUFFICES ASSUME RxInv, InOrder, [RxNext]_rxVars
               PROVE  InOrder' /\ [Line!LineNext]_<<sentF, delivered>>
    OBVIOUS
  <2>1. CASE Emit
    BY <2>1, EmitOrder DEF Line!LineNext
  <2>2. CASE Damage
    BY <2>2, DamageOrder
  <2>3. CASE PortReadable \/ LoopTimeout
    <3>1. Len(line) \in Nat
      BY UnreadFacts DEF RxInv
    <3>2. PICK n \in 0 .. Len(line) : Process(n)
      BY <2>3, <3>1 DEF PortReadable, LoopTimeout
    <3>3. QED
      BY <3>2, ProcessOrder DEF Line!LineNext
  <2>4. CASE UNCHANGED rxVars
    <3>1. UNCHANGED <<sentF, delivered>>
      BY <2>4 DEF rxVars
    <3>2. Unread' = Unread
      BY <2>4 DEF rxVars, Unread
    <3>3. QED
      BY <3>1, <3>2 DEF InOrder
  <2>5. QED
    BY <2>1, <2>2, <2>3, <2>4 DEF RxNext
<1>3. QED
  BY RxInvariant, <1>1, <1>2, PTL DEF RxSpec, LineImplemented, Line!LineSpec

\* The length a header carries is the length it was made from, whatever protocol type
\* and command share its bytes: with the bit of the PRIME API protocol up to 2047,
\* without it up to 1023.
THEOREM HeaderCarriesLength ==
  ASSUME NEW type \in 0 .. 63, NEW cmd \in 0 .. 127
  PROVE  /\ \A len \in 0 .. 2047 : XLenOf(LenHi(len), LenLo(len) + type, LenEx(len) + cmd) = len
         /\ \A len \in 0 .. 1023 : LenOf(LenHi(len), LenLo(len) + type) = len
<1> DEFINE Read(len)  == LenOf(LenHi(len), LenLo(len) + type)
           XRead(len) == XLenOf(LenHi(len), LenLo(len) + type, LenEx(len) + cmd)
           Long       == 0 .. 2047
           Short      == 0 .. 1023
<1>1. ASSUME NEW len \in Long
      PROVE  XRead(len) = len /\ (len < 1024 => Read(len) = len)
  <2>1. Read(len) = ((len \div 4) % 256) * 4 + (len % 4)
    BY DEF LenOf, LenHi, LenLo
  <2>2. ((LenEx(len) + cmd) \div 128) % 2 = len \div 1024
    BY DEF LenEx
  <2>3. ((len \div 4) % 256) * 4 + (len % 4) + (len \div 1024) * 1024 = len
    OBVIOUS
  <2>4. len < 1024 => ((len \div 4) % 256) * 4 + (len % 4) = len
    OBVIOUS
  <2>5. XRead(len) = Read(len) + (((LenEx(len) + cmd) \div 128) % 2) * 1024
    BY DEF XLenOf
  <2> HIDE DEF Read, XRead
  <2>6. QED
    BY <2>1, <2>2, <2>3, <2>4, <2>5
<1>2. \A len \in Short : len \in Long /\ len < 1024
  OBVIOUS
<1> HIDE DEF Read, XRead, Long, Short
<1>3. \A len \in Long : XRead(len) = len /\ (len < 1024 => Read(len) = len)
  BY <1>1
<1>4. (\A len \in Long : XRead(len) = len) /\ \A len \in Short : Read(len) = len
  BY <1>2, <1>3
<1>5. QED
  BY <1>4 DEF Read, XRead, Long, Short
=============================================================================

-------------------------- MODULE DlmsQueueProofs --------------------------
(***************************************************************************)
(* Proofs about DlmsQueue, for every number of buffers, limit and number   *)
(* of messages.  The list of messages that wait for a confirm holds, from  *)
(* its head on, the message requested last and the ones after it: that is  *)
(* HeadIsLastSent, and it makes the order of requests inductive however    *)
(* confirms come.  The buffers are conserved because each step takes the   *)
(* head of one list to the end of the other.                               *)
(***************************************************************************)
EXTENDS DlmsQueue, TLAPS, SequenceTheorems

\* The inductive invariant.
IInv ==
  /\ QueueTypeOK /\ BuffersConserved /\ SentInOrder /\ HeadIsLastSent /\ PromptCfmMatches

-----------------------------------------------------------------------------
(* Lists. *)

LEMMA ElemsOfSeq ==
  ASSUME NEW S, NEW s \in Seq(S)
  PROVE  /\ Elems(s) \subseteq S
         /\ \A x : x \in Elems(s) <=> \E i \in 1 .. Len(s) : s[i] = x
<1>1. DOMAIN s = 1 .. Len(s) /\ \A i \in 1 .. Len(s) : s[i] \in S
  BY LenProperties, ElementOfSeq
<1>2. QED
  BY <1>1 DEF Elems

LEMMA AppendElems ==
  ASSUME NEW S, NEW s \in Seq(S), NEW x \in S
  PROVE  /\ Append(s, x) \in Seq(S)
         /\ Len(Append(s, x)) = Len(s) + 1 /\ Len(s) \in Nat
         /\ \A i \in 1 .. Len(s) : Append(s, x)[i] = s[i]
         /\ Append(s, x)[Len(s) + 1] = x
         /\ Elems(Append(s, x)) = Elems(s) \cup {x}
         /\ NoRepeat(s) /\ x \notin Elems(s) => NoRepeat(Append(s, x))
<1> DEFINE t == Append(s, x)
           n == Len(s)
<1>1. /\ t \in Seq(S) /\ Len(t) = n + 1 /\ n \in Nat
      /\ \A i \in 1 .. n : t[i] = s[i]
      /\ t[n + 1] = x
  BY AppendProperties, LenProperties
<1> HIDE DEF t
<1>2. DOMAIN t = 1 .. n + 1 /\ DOMAIN s = 1 .. n
  BY <1>1, LenProperties
<1> HIDE DEF n
<1>3. 1 .. n + 1 = (1 .. n) \cup {n + 1} /\ n + 1 \notin 1 .. n
  BY <1>1
<1>4. Elems(t) = Elems(s) \cup {x}
  BY <1>1, <1>2, <1>3 DEF Elems
<1>5. ASSUME NoRepeat(s), x \notin Elems(s) PROVE NoRepeat(t)
  BY <1>1, <1>2, <1>3, <1>5 DEF NoRepeat, Elems
<1>6. QED
  BY <1>1, <1>4, <1>5 DEF t, n

LEMMA TailElems ==
  ASSUME NEW S, NEW s \in Seq(S), s # <<>>
  PROVE  /\ Tail(s) \in Seq(S) /\ Head(s) \in S
         /\ Len(Tail(s)) = Len(s) - 1 /\ Len(s) \in Nat \ {0}
         /\ Head(s) = s[1]
         /\ \A i \in 1 .. Len(s) - 1 : Tail(s)[i] = s[i + 1]
         /\ Elems(s) = {Head(s)} \cup Elems(Tail(s))
         /\ NoRepeat(s) => NoRepeat(Tail(s)) /\ Head(s) \notin Elems(Tail(s))
<1> DEFINE t == Tail(s)
           n == Len(s)
           h == Head(s)
<1>1. /\ t \in Seq(S) /\ Len(t) = n - 1 /\ n \in Nat \ {0} /\ h \in S /\ h = s[1]
      /\ \A i \in 1 .. n - 1 : t[i] = s[i + 1]
  BY HeadTailProperties, EmptySeq
<1> HIDE DEF t, h
<1>2. DOMAIN t = 1 .. n - 1 /\ DOMAIN s = 1 .. n
  BY <1>1, LenProperties
<1> HIDE DEF n
<1>3. /\ 1 \in 1 .. n
      /\ \A i \in 1 .. n - 1 : i + 1 \in 1 .. n /\ i + 1 # 1
      /\ \A i \in 1 .. n : i = 1 \/ (i - 1 \in 1 .. n - 1 /\ (i - 1) + 1 = i)
      /\ \A i, j \in 1 .. n - 1 : i + 1 = j + 1 => i = j
  BY <1>1
<1>4. Elems(s) = {h} \cup Elems(t)
  <2>1. \A i \in 1 .. n : s[i] \in {h} \cup Elems(t)
    <3> SUFFICES ASSUME NEW i \in 1 .. n, i # 1 PROVE s[i] \in Elems(t)
      BY <1>1
    <3>1. i - 1 \in 1 .. n - 1 /\ (i - 1) + 1 = i
      BY <1>3
    <3>2. t[i - 1] = s[i]
      BY <1>1, <3>1
    <3>3. QED
      BY <1>2, <3>1, <3>2 DEF Elems
  <2>2. \A i \in 1 .. n - 1 : t[i] \in Elems(s)
    <3> SUFFICES ASSUME NEW i \in 1 .. n - 1 PROVE t[i] \in Elems(s)
      OBVIOUS
    <3>1. i + 1 \in 1 .. n /\ t[i] = s[i + 1]
      BY <1>1, <1>3
    <3>2. QED
      BY <1>2, <3>1 DEF Elems
  <2>3. h \in Elems(s)
    BY <1>1, <1>2, <1>3 DEF Elems
  <2>4. QED
    BY <1>2, <2>1, <2>2, <2>3 DEF Elems
<1>5. ASSUME NoRepeat(s) PROVE NoRepeat(t) /\ h \notin Elems(t)
  <2>1. \A i, j \in 1 .. n - 1 : t[i] = t[j] => i + 1 = j + 1
    <3> SUFFICES ASSUME NEW i \in 1 .. n - 1, NEW j \in 1 .. n - 1, t[i] = t[j]
                 PROVE  i + 1 = j + 1
      OBVIOUS
    <3>1. /\ i + 1 \in 1 .. n /\ j + 1 \in 1 .. n
          /\ t[i] = s[i + 1] /\ t[j] = s[j + 1]
      BY <1>1, <1>3
    <3>2. QED
      BY <1>2, <1>5, <3>1 DEF NoRepeat
  <2>2. NoRepeat(t)
    BY <1>2, <1>3, <2>1 DEF NoRepeat
  <2>3. \A i \in 1 .. n - 1 : t[i] # h
    <3> SUFFICES ASSUME NEW i \in 1 .. n - 1 PROVE t[i] # h
      OBVIOUS
    <3>1. i + 1 \in 1 .. n /\ i + 1 # 1 /\ 1 \in 1 .. n /\ t[i] = s[i + 1] /\ h = s[1]
      BY <1>1, <1>3
    <3>2. QED
      BY <1>2, <1>5, <3>1 DEF NoRepeat
  <2>4. QED
    BY <1>2, <2>2, <2>3 DEF Elems
<1>6. QED
  BY <1>1, <1>4, <1>5 DEF t, n, h

LEMMA OneElem ==
  ASSUME NEW S, NEW x \in S
  PROVE  /\ <<x>> \in Seq(S) /\ Len(<<x>>) = 1 /\ <<x>>[1] = x /\ Head(<<x>>) = x
         /\ Elems(<<x>>) = {x} /\ NoRepeat(<<x>>)
BY DEF Elems, NoRepeat

-----------------------------------------------------------------------------
(* Taking a buffer from one list to the other. *)

\* What every state with a message to take or a confirm to handle offers.
LEMMA QueueFacts ==
  ASSUME IInv
  PROVE  /\ free \in Seq(Buf) /\ pending \in Seq(Buf) /\ sent \in Seq(Nat)
         /\ held \in [Buf -> Nat] /\ age \in [Buf -> 0 .. Old] /\ accepted \in Nat
         /\ atBase \in SUBSET Nat
         /\ Len(sent) \in Nat /\ Len(pending) \in Nat
         /\ DOMAIN pending = 1 .. Len(pending) /\ DOMAIN sent = 1 .. Len(sent)
         /\ Old \in Nat /\ 0 \in 0 .. Old /\ Old \in 0 .. Old
<1>1. /\ free \in Seq(Buf) /\ pending \in Seq(Buf) /\ sent \in Seq(Nat)
      /\ held \in [Buf -> Nat] /\ age \in [Buf -> 0 .. Old] /\ accepted \in Nat
      /\ atBase \in SUBSET Nat
  BY DEF IInv, QueueTypeOK
<1>2. Old \in Nat /\ 0 \in 0 .. Old /\ Old \in 0 .. Old
  BY QueueAssumption DEF Old
<1>3. QED
  BY <1>1, <1>2, LenProperties

\* The messages behind the head are the ones after the last request.
LEMMA HeldInOrder ==
  ASSUME IInv, pending # <<>>
  PROVE  /\ \A i \in 1 .. Len(pending) : held[pending[i]] = Len(sent) + i - 1
         /\ accepted = Len(sent) + Len(pending) - 1
         /\ Len(pending) \in Nat \ {0} /\ Head(pending) = pending[1]
BY QueueFacts, TailElems DEF IInv, HeadIsLastSent

\* The buffer a message is given is in neither list afterwards.
LEMMA FreshBuffer ==
  ASSUME IInv, free # <<>>
  PROVE  /\ Head(free) \in Buf /\ Tail(free) \in Seq(Buf)
         /\ Head(free) \notin Elems(pending) /\ Head(free) \notin Elems(Tail(free))
         /\ NoRepeat(Tail(free)) /\ NoRepeat(pending)
         /\ Elems(Tail(free)) \cap Elems(pending) = {}
         /\ {Head(free)} \cup Elems(Tail(free)) \cup Elems(pending) = Buf
         /\ \A i \in 1 .. Len(pending) : pending[i] \in Buf /\ pending[i] # Head(free)
<1>1. NoRepeat(free) /\ NoRepeat(pending) /\ Elems(free) \cap Elems(pending) = {}
      /\ Elems(free) \cup Elems(pending) = Buf
  BY DEF IInv, BuffersConserved
<1>2. /\ Head(free) \in Buf /\ Tail(free) \in Seq(Buf)
      /\ Elems(free) = {Head(free)} \cup Elems(Tail(free))
      /\ NoRepeat(Tail(free)) /\ Head(free) \notin Elems(Tail(free))
  BY <1>1, QueueFacts, TailElems
<1>3. \A i \in 1 .. Len(pending) : pending[i] \in Elems(pending) /\ pending[i] \in Buf
  BY QueueFacts, ElemsOfSeq
<1>4. Head(free) \notin Elems(pending)
  BY <1>1, <1>2
<1>5. QED
  BY <1>1, <1>2, <1>3, <1>4

LEMMA FillFacts ==
  ASSUME IInv, free # <<>>, Fill(Head(free))
  PROVE  /\ held' \in [Buf -> Nat] /\ accepted' = accepted + 1 /\ accepted' \in Nat
         /\ held'[Head(free)] = accepted + 1
         /\ \A i \in 1 .. Len(pending) : held'[pending[i]] = held[pending[i]]
<1>1. Head(free) \in Buf /\ \A i \in 1 .. Len(pending) : pending[i] \in Buf /\ pending[i] # Head(free)
  BY FreshBuffer
<1>2. held \in [Buf -> Nat] /\ accepted \in Nat /\ accepted + 1 \in Nat
  BY QueueFacts
<1>3. QED
  BY <1>1, <1>2 DEF Fill

\* A request appended to a sequence in order keeps it in order.
LEMMA RequestInOrder ==
  ASSUME IInv, sent' = Append(sent, Len(sent) + 1)
  PROVE  /\ sent' \in Seq(Nat) /\ Len(sent') = Len(sent) + 1 /\ SentInOrder'
<1>1. sent \in Seq(Nat) /\ Len(sent) \in Nat /\ Len(sent) + 1 \in Nat
  BY QueueFacts
<1>2. /\ sent' \in Seq(Nat) /\ Len(sent') = Len(sent) + 1
      /\ \A i \in 1 .. Len(sent) : sent'[i] = sent[i]
      /\ sent'[Len(sent) + 1] = Len(sent) + 1
  BY <1>1, AppendElems
<1>3. DOMAIN sent' = 1 .. Len(sent) + 1 /\ DOMAIN sent = 1 .. Len(sent)
  BY <1>1, <1>2, LenProperties
<1>4. 1 .. Len(sent) + 1 = (1 .. Len(sent)) \cup {Len(sent) + 1}
  BY <1>1
<1>5. SentInOrder'
  BY <1>2, <1>3, <1>4 DEF IInv, SentInOrder
<1>6. QED
  BY <1>2, <1>5

-----------------------------------------------------------------------------
(* A message arrives. *)

LEMMA RxFirstStep == ASSUME IInv, RxFirst, lost' \in BOOLEAN PROVE IInv' /\ sent' = Append(sent, Len(sent) + 1)
<1> DEFINE b == Head(free)
<1>1. /\ free # <<>> /\ pending = <<>> /\ Fill(b)
      /\ age' = [age EXCEPT ![b] = 0]
      /\ sent' = Append(sent, accepted + 1) /\ atBase' = atBase \cup {accepted + 1}
      /\ pending' = <<b>> /\ free' = Tail(free)
      /\ UNCHANGED <<astray, crashed>>
  BY DEF RxFirst
<1>2. /\ b \in Buf /\ b \notin Elems(Tail(free)) /\ Tail(free) \in Seq(Buf)
      /\ NoRepeat(Tail(free)) /\ {b} \cup Elems(Tail(free)) \cup Elems(pending) = Buf
  BY <1>1, FreshBuffer
<1>3. /\ held' \in [Buf -> Nat] /\ accepted' = accepted + 1 /\ accepted' \in Nat
      /\ held'[b] = accepted + 1
  BY <1>1, FillFacts
<1> HIDE DEF b
<1>4. accepted = Len(sent) /\ Len(sent) \in Nat /\ accepted \in Nat
  BY <1>1, QueueFacts DEF IInv, HeadIsLastSent
<1>5. sent' = Append(sent, Len(sent) + 1)
  BY <1>1, <1>4
<1>6. sent' \in Seq(Nat) /\ Len(sent') = Len(sent) + 1 /\ SentInOrder'
  BY <1>5, RequestInOrder
<1>7. /\ pending' \in Seq(Buf) /\ Len(pending') = 1 /\ pending'[1] = b /\ Head(pending') = b
      /\ Elems(pending') = {b} /\ NoRepeat(pending')
  BY <1>1, <1>2, OneElem
<1>8. Elems(pending) = {}
  BY <1>1 DEF Elems
<1>9. BuffersConserved'
  BY <1>1, <1>2, <1>7, <1>8 DEF BuffersConserved
<1>10. QueueTypeOK'
  BY <1>1, <1>2, <1>3, <1>6, <1>7, QueueFacts DEF IInv, QueueTypeOK
<1>11. HeadIsLastSent'
  <2>1. DOMAIN pending' = {1} /\ pending' # <<>> /\ sent' # <<>>
    <3>1. DOMAIN pending' = 1 .. 1 /\ 1 .. 1 = {1}
      BY <1>7, LenProperties
    <3>2. Len(sent') # 0 /\ Len(pending') # 0
      BY <1>4, <1>6, <1>7
    <3>3. QED
      BY <3>1, <3>2, EmptySeq
  <2>2. QED
    BY <1>3, <1>4, <1>6, <1>7, <2>1 DEF HeadIsLastSent
<1>12. PromptCfmMatches'
  BY <1>1, <1>3, <1>7 DEF IInv, PromptCfmMatches
<1>13. QED
  BY <1>5, <1>6, <1>9, <1>10, <1>11, <1>12 DEF IInv

LEMMA RxWaitStep == ASSUME IInv, RxWait, lost' \in BOOLEAN PROVE IInv'
<1> DEFINE b == Head(free)
           n == Len(pending)
<1>1. /\ free # <<>> /\ pending # <<>> /\ Fill(b)
      /\ age' = [age EXCEPT ![b] = 0]
      /\ pending' = Append(pending, b) /\ free' = Tail(free)
      /\ UNCHANGED <<sent, atBase, astray, crashed>>
  BY DEF RxWait
<1>2. /\ b \in Buf /\ b \notin Elems(Tail(free)) /\ Tail(free) \in Seq(Buf) /\ b \notin Elems(pending)
      /\ NoRepeat(Tail(free)) /\ {b} \cup Elems(Tail(free)) \cup Elems(pending) = Buf
      /\ NoRepeat(pending) /\ Elems(Tail(free)) \cap Elems(pending) = {}
  BY <1>1, FreshBuffer
<1>3. /\ held' \in [Buf -> Nat] /\ accepted' = accepted + 1 /\ accepted' \in Nat
      /\ held'[b] = accepted + 1
      /\ \A i \in 1 .. n : held'[pending[i]] = held[pending[i]]
  BY <1>1, FillFacts
<1>4. /\ \A i \in 1 .. n : held[pending[i]] = Len(sent) + i - 1
      /\ accepted = Len(sent) + n - 1 /\ Len(sent) \in Nat /\ n \in Nat \ {0}
      /\ Head(pending) = pending[1]
  BY <1>1, HeldInOrder, QueueFacts
<1>5. /\ pending' \in Seq(Buf) /\ Len(pending') = n + 1
      /\ \A i \in 1 .. n : pending'[i] = pending[i]
      /\ pending'[n + 1] = b
      /\ Elems(pending') = Elems(pending) \cup {b} /\ NoRepeat(pending')
  <2>1. pending \in Seq(Buf)
    BY QueueFacts
  <2> HIDE DEF b
  <2>2. QED
    BY <1>1, <1>2, <2>1, AppendElems
<1> HIDE DEF b, n
<1>6. BuffersConserved'
  BY <1>1, <1>2, <1>5 DEF BuffersConserved
<1>7. QueueTypeOK'
  BY <1>1, <1>2, <1>3, <1>5, QueueFacts DEF IInv, QueueTypeOK
<1>8. HeadIsLastSent'
  <2>1. DOMAIN pending' = (1 .. n) \cup {n + 1} /\ pending' # <<>> /\ sent' # <<>>
    <3>1. DOMAIN pending' = 1 .. n + 1 /\ pending' # <<>>
      BY <1>4, <1>5, LenProperties, EmptySeq
    <3>2. 1 .. n + 1 = (1 .. n) \cup {n + 1}
      BY <1>4
    <3>3. sent # <<>>
      BY <1>1 DEF IInv, HeadIsLastSent
    <3>4. QED
      BY <1>1, <3>1, <3>2, <3>3
  <2>2. \A i \in 1 .. n : held'[pending'[i]] = Len(sent) + i - 1
    BY <1>3, <1>4, <1>5
  <2>3. held'[pending'[n + 1]] = Len(sent) + (n + 1) - 1
    BY <1>3, <1>4, <1>5
  <2>4. accepted' = Len(sent) + (Len(pending') - 1)
    BY <1>3, <1>4, <1>5
  <2>5. QED
    BY <1>1, <2>1, <2>2, <2>3, <2>4 DEF HeadIsLastSent
<1>9. PromptCfmMatches'
  <2>1. pending' # <<>> /\ Head(pending') = pending'[1]
    BY <1>4, <1>5, TailElems, EmptySeq
  <2>2. held'[Head(pending')] = held[Head(pending)]
    BY <1>3, <1>4, <1>5, <2>1
  <2>3. QED
    BY <1>1, <2>1, <2>2 DEF IInv, PromptCfmMatches
<1>10. SentInOrder'
  BY <1>1 DEF IInv, SentInOrder
<1>11. QED
  BY <1>6, <1>7, <1>8, <1>9, <1>10 DEF IInv

LEMMA RxGiveUpStep == ASSUME IInv, RxGiveUp, lost' \in BOOLEAN PROVE IInv' /\ sent' = Append(sent, Len(sent) + 1)
<1> DEFINE b == Head(free)
           h == Head(pending)
           n == Len(pending)
           next == Head(pending')
<1>1. /\ free # <<>> /\ pending # <<>> /\ Fill(b)
      /\ pending' = Append(Tail(pending), b) /\ free' = Append(Tail(free), h)
      /\ age' = [age EXCEPT ![b] = 0, ![next] = 0]
      /\ sent' = Append(sent, held'[next]) /\ atBase' = atBase \cup {held'[next]}
      /\ astray' = (atBase # {}) /\ crashed' = crashed
  BY DEF RxGiveUp
<1>2. /\ b \in Buf /\ b \notin Elems(Tail(free)) /\ Tail(free) \in Seq(Buf) /\ b \notin Elems(pending)
      /\ NoRepeat(Tail(free)) /\ {b} \cup Elems(Tail(free)) \cup Elems(pending) = Buf
      /\ NoRepeat(pending) /\ Elems(Tail(free)) \cap Elems(pending) = {}
  BY <1>1, FreshBuffer
<1>3. /\ held' \in [Buf -> Nat] /\ accepted' = accepted + 1 /\ accepted' \in Nat
      /\ held'[b] = accepted + 1
      /\ \A i \in 1 .. n : held'[pending[i]] = held[pending[i]]
  BY <1>1, FillFacts
<1>4. /\ \A i \in 1 .. n : held[pending[i]] = Len(sent) + i - 1
      /\ accepted = Len(sent) + n - 1 /\ Len(sent) \in Nat /\ n \in Nat \ {0}
  BY <1>1, HeldInOrder, QueueFacts
<1>5. /\ Tail(pending) \in Seq(Buf) /\ h \in Buf /\ Len(Tail(pending)) = n - 1
      /\ \A i \in 1 .. n - 1 : Tail(pending)[i] = pending[i + 1]
      /\ Elems(pending) = {h} \cup Elems(Tail(pending))
      /\ NoRepeat(Tail(pending)) /\ h \notin Elems(Tail(pending))
  <2>1. pending \in Seq(Buf) /\ pending # <<>> /\ NoRepeat(pending)
    BY <1>1, <1>2, QueueFacts
  <2>2. QED
    BY <2>1, TailElems
<1>6. /\ pending' \in Seq(Buf) /\ Len(pending') = (n - 1) + 1
      /\ \A i \in 1 .. n - 1 : pending'[i] = Tail(pending)[i]
      /\ pending'[(n - 1) + 1] = b
      /\ Elems(pending') = Elems(Tail(pending)) \cup {b} /\ NoRepeat(pending')
  <2> DEFINE t == Tail(pending)
  <2>1. b \notin Elems(t) /\ b \in Buf /\ t \in Seq(Buf) /\ NoRepeat(t) /\ Len(t) = n - 1
    BY <1>2, <1>5
  <2>2. pending' = Append(t, b)
    BY <1>1
  <2> HIDE DEF t, b, n
  <2>3. /\ pending' \in Seq(Buf) /\ Len(pending') = Len(t) + 1
        /\ \A i \in 1 .. Len(t) : pending'[i] = t[i]
        /\ pending'[Len(t) + 1] = b
        /\ Elems(pending') = Elems(t) \cup {b}
        /\ NoRepeat(pending')
    BY <2>1, <2>2, AppendElems
  <2>4. QED
    BY <2>1, <2>3 DEF t
<1>7. /\ free' \in Seq(Buf) /\ Elems(free') = Elems(Tail(free)) \cup {h} /\ NoRepeat(free')
  <2> DEFINE t == Tail(free)
  <2>1. h \notin Elems(t) /\ h \in Buf /\ t \in Seq(Buf) /\ NoRepeat(t)
    BY <1>2, <1>5
  <2>2. free' = Append(t, h)
    BY <1>1
  <2> HIDE DEF t, h
  <2>3. free' \in Seq(Buf) /\ Elems(free') = Elems(t) \cup {h} /\ NoRepeat(free')
    BY <2>1, <2>2, AppendElems
  <2>4. QED
    BY <2>3 DEF t
<1>8. Len(pending') = n /\ pending'[n] = b /\ pending' # <<>> /\ next \in Buf /\ next = pending'[1]
  <2>1. Len(pending') = n /\ pending'[n] = b
    BY <1>4, <1>6
  <2>2. pending' # <<>>
    BY <1>4, <2>1, EmptySeq
  <2>3. QED
    BY <1>6, <2>1, <2>2, TailElems
<1> HIDE DEF b, h, n, next
<1>9. BuffersConserved'
  BY <1>2, <1>5, <1>6, <1>7 DEF BuffersConserved
<1>10. \A i \in 1 .. n : held'[pending'[i]] = Len(sent) + i
  <2> SUFFICES ASSUME NEW i \in 1 .. n PROVE held'[pending'[i]] = Len(sent) + i
    OBVIOUS
  <2>1. CASE i = n
    BY <1>3, <1>4, <1>8, <2>1
  <2>2. CASE i # n
    <3>1. i \in 1 .. n - 1 /\ i + 1 \in 1 .. n
      BY <1>4, <2>2
    <3>2. pending'[i] = pending[i + 1]
      BY <1>5, <1>6, <3>1
    <3>3. held'[pending'[i]] = Len(sent) + (i + 1) - 1
      BY <1>3, <1>4, <3>1, <3>2
    <3>4. QED
      BY <1>4, <3>1, <3>3
  <2>3. QED
    BY <2>1, <2>2
<1>11. held'[next] = Len(sent) + 1
  BY <1>4, <1>8, <1>10
<1>12. sent' = Append(sent, Len(sent) + 1)
  BY <1>1, <1>11
<1>13. sent' \in Seq(Nat) /\ Len(sent') = Len(sent) + 1 /\ SentInOrder'
  BY <1>12, RequestInOrder
<1>14. QueueTypeOK'
  <2>1. age' \in [Buf -> 0 .. Old]
    BY <1>1, <1>2, <1>8, QueueFacts
  <2>2. atBase' \in SUBSET Nat
    BY <1>1, <1>4, <1>11, QueueFacts
  <2>3. QED
    BY <1>1, <1>3, <1>6, <1>7, <1>13, <2>1, <2>2 DEF IInv, QueueTypeOK
<1>15. HeadIsLastSent'
  <2>1. DOMAIN pending' = 1 .. n
    BY <1>6, <1>8, LenProperties
  <2>2. sent' # <<>>
    BY <1>4, <1>13, EmptySeq
  <2>3. \A i \in 1 .. n : held'[pending'[i]] = Len(sent') + i - 1
    BY <1>4, <1>10, <1>13
  <2>4. accepted' = Len(sent') + (Len(pending') - 1)
    BY <1>3, <1>4, <1>8, <1>13
  <2>5. QED
    BY <1>8, <2>1, <2>2, <2>3, <2>4 DEF HeadIsLastSent
<1>16. PromptCfmMatches'
  <2>1. ~astray' => atBase' = {held'[next]}
    BY <1>1
  <2>2. QED
    BY <1>8, <2>1 DEF PromptCfmMatches, next
<1>17. QED
  BY <1>9, <1>12, <1>13, <1>14, <1>15, <1>16 DEF IInv

-----------------------------------------------------------------------------
(* A confirm comes. *)

\* The head goes back to the free list, whatever happens to the rest.
LEMMA RecycleHead ==
  ASSUME IInv, pending # <<>>, free' = Append(free, Head(pending)), pending' = Tail(pending)
  PROVE  /\ free' \in Seq(Buf) /\ pending' \in Seq(Buf) /\ Head(pending) \in Buf
         /\ Len(pending') = Len(pending) - 1
         /\ \A i \in 1 .. Len(pending) - 1 : pending'[i] = pending[i + 1]
         /\ BuffersConserved'
<1>1. NoRepeat(free) /\ NoRepeat(pending) /\ Elems(free) \cap Elems(pending) = {}
      /\ Elems(free) \cup Elems(pending) = Buf
  BY DEF IInv, BuffersConserved
<1>2. /\ pending' \in Seq(Buf) /\ Head(pending) \in Buf /\ Len(pending') = Len(pending) - 1
      /\ \A i \in 1 .. Len(pending) - 1 : pending'[i] = pending[i + 1]
      /\ Elems(pending) = {Head(pending)} \cup Elems(pending')
      /\ NoRepeat(pending') /\ Head(pending) \notin Elems(pending')
  <2>1. pending \in Seq(Buf)
    BY QueueFacts
  <2>2. QED
    BY <1>1, <2>1, TailElems
<1>3. Head(pending) \notin Elems(free)
  BY <1>1, <1>2
<1>4. free' \in Seq(Buf) /\ Elems(free') = Elems(free) \cup {Head(pending)} /\ NoRepeat(free')
  BY <1>1, <1>2, <1>3, QueueFacts, AppendElems
<1>5. BuffersConserved'
  BY <1>1, <1>2, <1>3, <1>4 DEF BuffersConserved
<1>6. QED
  BY <1>2, <1>4, <1>5

LEMMA CfmIgnoredStep ==
  ASSUME IInv, NEW m, CfmIgnored(m), Strays(m), lost' \in BOOLEAN PROVE IInv'
<1>1. /\ UNCHANGED <<free, pending, held, age, accepted, sent, crashed>>
      /\ atBase' \subseteq atBase /\ pending = <<>>
      /\ astray' = ((astray \/ m = Foreign) /\ atBase' # {})
  BY DEF CfmIgnored, Strays, buffers
<1>2. QueueTypeOK' /\ BuffersConserved' /\ SentInOrder' /\ HeadIsLastSent'
  BY <1>1 DEF IInv, QueueTypeOK, BuffersConserved, SentInOrder, HeadIsLastSent
<1>3. PromptCfmMatches'
  BY <1>1 DEF IInv, QueueTypeOK, PromptCfmMatches
<1>4. QED
  BY <1>2, <1>3 DEF IInv

LEMMA CfmLastStep ==
  ASSUME IInv, NEW m \in atBase \cup {Foreign}, CfmLast(m), Strays(m), lost' \in BOOLEAN
  PROVE  IInv'
<1>1. /\ Len(pending) = 1
      /\ free' = Append(free, Head(pending)) /\ pending' = <<>>
      /\ age' = [age EXCEPT ![Head(pending)] = Old]
      /\ atBase' = atBase \ {m}
      /\ astray' = ((astray \/ m = Foreign) /\ atBase' # {})
      /\ UNCHANGED <<held, accepted, sent, crashed>>
  BY DEF CfmLast, Strays
<1>2. pending # <<>> /\ pending' = Tail(pending)
  <2>1. pending # <<>>
    BY <1>1, EmptySeq
  <2>2. Tail(pending) \in Seq(Buf) /\ Len(Tail(pending)) = 0
    BY <1>1, <2>1, QueueFacts, TailElems
  <2>3. QED
    BY <1>1, <2>1, <2>2, EmptySeq
<1>3. free' \in Seq(Buf) /\ pending' \in Seq(Buf) /\ Head(pending) \in Buf /\ BuffersConserved'
  BY <1>1, <1>2, RecycleHead
<1>4. QueueTypeOK'
  BY <1>1, <1>3, QueueFacts DEF IInv, QueueTypeOK
<1>5. accepted = Len(sent) + 0
  BY <1>1, <1>2, HeldInOrder, QueueFacts
<1>6. DOMAIN pending' = {}
  BY <1>1
<1>7. HeadIsLastSent'
  BY <1>1, <1>5, <1>6 DEF HeadIsLastSent
<1>8. SentInOrder'
  BY <1>1 DEF IInv, SentInOrder
<1>9. PromptCfmMatches'
  <2>1. ~astray' => atBase' = {}
    <3>1. ~astray' /\ atBase' # {} => ~astray /\ m \in atBase
      BY <1>1
    <3>2. ~astray => \A k \in atBase : k = held[Head(pending)]
      BY DEF IInv, PromptCfmMatches
    <3>3. QED
      BY <1>1, <3>1, <3>2
  <2>2. QED
    BY <2>1 DEF PromptCfmMatches
<1>10. QED
  BY <1>3, <1>4, <1>7, <1>8, <1>9 DEF IInv

LEMMA CfmNextStep ==
  ASSUME IInv, NEW m \in atBase \cup {Foreign}, CfmNext(m), Strays(m), lost' \in BOOLEAN
  PROVE  IInv' /\ sent' = Append(sent, Len(sent) + 1) /\ accepted > Len(sent)
<1> DEFINE next == Head(Tail(pending))
           n == Len(pending)
<1>1. /\ n > 1
      /\ free' = Append(free, Head(pending)) /\ pending' = Tail(pending)
      /\ age' = [age EXCEPT ![Head(pending)] = Old, ![next] = 0]
      /\ sent' = Append(sent, held[next])
      /\ atBase' = (atBase \ {m}) \cup {held[next]}
      /\ astray' = ((astray \/ m = Foreign) /\ atBase' # {})
      /\ UNCHANGED <<held, accepted, crashed>>
  BY DEF CfmNext, Strays
<1>2. pending # <<>>
  BY <1>1, EmptySeq
<1>3. /\ free' \in Seq(Buf) /\ pending' \in Seq(Buf) /\ Head(pending) \in Buf
      /\ Len(pending') = n - 1 /\ BuffersConserved'
      /\ \A i \in 1 .. n - 1 : pending'[i] = pending[i + 1]
  BY <1>1, <1>2, RecycleHead
<1>4. /\ \A i \in 1 .. n : held[pending[i]] = Len(sent) + i - 1
      /\ accepted = Len(sent) + n - 1 /\ Len(sent) \in Nat /\ n \in Nat \ {0}
      /\ Head(pending) = pending[1]
  BY <1>2, HeldInOrder, QueueFacts
<1>5. pending' # <<>> /\ next \in Buf /\ next = pending'[1]
  <2>1. Len(pending') # 0
    <3>1. n > 1 /\ n \in Nat /\ Len(pending') = n - 1
      BY <1>1, <1>3, <1>4
    <3> HIDE DEF n
    <3>2. QED
      BY <3>1
  <2>2. pending' # <<>>
    BY <2>1, EmptySeq
  <2>3. QED
    BY <1>1, <1>3, <2>2, TailElems
<1> HIDE DEF n, next
<1>6. 1 \in 1 .. n - 1 /\ 1 + 1 \in 1 .. n
  BY <1>1, <1>4
<1>7. held[next] = Len(sent) + 1
  <2>1. pending'[1] = pending[1 + 1]
    BY <1>3, <1>6
  <2>2. held[pending[1 + 1]] = Len(sent) + (1 + 1) - 1
    BY <1>4, <1>6
  <2>3. Len(sent) + (1 + 1) - 1 = Len(sent) + 1
    BY <1>4
  <2>4. QED
    BY <1>5, <2>1, <2>2, <2>3
<1>8. sent' = Append(sent, Len(sent) + 1)
  BY <1>1, <1>7
<1>9. sent' \in Seq(Nat) /\ Len(sent') = Len(sent) + 1 /\ SentInOrder'
  BY <1>8, RequestInOrder
<1>10. QueueTypeOK'
  <2>1. age' \in [Buf -> 0 .. Old]
    BY <1>1, <1>3, <1>5, QueueFacts
  <2>2. atBase' \in SUBSET Nat
    <3>1. held[next] \in Nat /\ atBase \in SUBSET Nat
      BY <1>4, <1>7, QueueFacts
    <3>2. QED
      BY <1>1, <3>1
  <2>3. QED
    BY <1>1, <1>3, <1>9, <2>1, <2>2, QueueFacts DEF IInv, QueueTypeOK
<1>11. HeadIsLastSent'
  <2>1. DOMAIN pending' = 1 .. n - 1
    BY <1>3, LenProperties
  <2>2. sent' # <<>>
    BY <1>4, <1>9, EmptySeq
  <2>3. \A i \in 1 .. n - 1 : held'[pending'[i]] = Len(sent') + i - 1
    <3> SUFFICES ASSUME NEW i \in 1 .. n - 1 PROVE held'[pending'[i]] = Len(sent') + i - 1
      OBVIOUS
    <3>1. i + 1 \in 1 .. n
      BY <1>4
    <3>2. held'[pending'[i]] = Len(sent) + (i + 1) - 1
      BY <1>1, <1>3, <1>4, <3>1
    <3>3. QED
      BY <1>4, <1>9, <3>2
  <2>4. accepted' = Len(sent') + (Len(pending') - 1)
    <3>1. accepted' = Len(sent) + n - 1 /\ Len(sent') = Len(sent) + 1 /\ Len(pending') = n - 1
      BY <1>1, <1>3, <1>4, <1>9
    <3>2. Len(sent) \in Nat /\ n \in Nat
      BY <1>4
    <3>3. QED
      BY <3>1, <3>2
  <2>5. QED
    BY <1>5, <2>1, <2>2, <2>3, <2>4 DEF HeadIsLastSent
<1>12. PromptCfmMatches'
  <2> SUFFICES ASSUME ~astray', NEW k \in atBase' PROVE k = held'[Head(pending')]
    BY <1>1, <1>5 DEF PromptCfmMatches
  <2>1. ~astray /\ m \in atBase /\ \A j \in atBase : j = held[Head(pending)]
    BY <1>1 DEF IInv, PromptCfmMatches
  <2>2. k = held[next]
    BY <1>1, <2>1
  <2>3. Head(pending') = next
    BY <1>1 DEF next
  <2>4. QED
    BY <1>1, <2>2, <2>3
<1>13. accepted > Len(sent)
  BY <1>1, <1>4
<1>14. QED
  BY <1>3, <1>8, <1>9, <1>10, <1>11, <1>12, <1>13 DEF IInv

-----------------------------------------------------------------------------
(* The clock, a lost confirm, and the end of the pool. *)

LEMMA OtherStep ==
  ASSUME IInv, RxNoBuffer \/ Tick \/ (\E m \in atBase : LoseCfm(m)) \/ UNCHANGED queueVars,
         lost' \in BOOLEAN
  PROVE  IInv'
<1>1. /\ UNCHANGED <<free, pending, held, accepted, sent>>
      /\ atBase' \subseteq atBase /\ crashed' \in BOOLEAN /\ astray' \in BOOLEAN
      /\ ~astray' => ~astray \/ atBase' = {}
  BY DEF RxNoBuffer, Tick, LoseCfm, queueVars, buffers, IInv, QueueTypeOK
<1>2. age' \in [Buf -> 0 .. Old]
  <2>1. CASE Tick
    <3>1. \A b \in Buf : (IF age[b] = Old THEN Old ELSE age[b] + 1) \in 0 .. Old
      <4> SUFFICES ASSUME NEW b \in Buf, age[b] # Old PROVE age[b] + 1 \in 0 .. Old
        BY QueueFacts
      <4>1. age[b] \in 0 .. Old /\ Old \in Nat
        BY QueueFacts
      <4>2. QED
        BY <4>1
    <3>2. QED
      BY <2>1, <3>1 DEF Tick
  <2>2. CASE ~Tick
    BY <2>2 DEF RxNoBuffer, LoseCfm, queueVars, buffers, IInv, QueueTypeOK
  <2>3. QED
    BY <2>1, <2>2
<1>3. QueueTypeOK'
  BY <1>1, <1>2 DEF IInv, QueueTypeOK
<1>4. BuffersConserved' /\ SentInOrder' /\ HeadIsLastSent' /\ PromptCfmMatches'
  BY <1>1 DEF IInv, BuffersConserved, SentInOrder, HeadIsLastSent, PromptCfmMatches
<1>5. QED
  BY <1>3, <1>4 DEF IInv

-----------------------------------------------------------------------------
(* The invariant, and the relay. *)

\* What a step does to the two numbers the relay is made of.
LEMMA StepOutcome ==
  ASSUME IInv, [QueueNext]_queueVars
  PROVE  /\ IInv'
         /\ \/ sent' = sent /\ accepted' = accepted
            \/ sent' = sent /\ accepted' = accepted + 1
            \/ /\ sent' = Append(sent, Len(sent) + 1) /\ accepted > Len(sent)
               /\ accepted' = accepted
            \/ sent' = Append(sent, Len(sent) + 1) /\ accepted' = accepted + 1
<1>0. lost' \in BOOLEAN
  BY DEF QueueNext, LoseCfm, queueVars, IInv, QueueTypeOK
<1>1. CASE RxFirst
  BY <1>0, <1>1, RxFirstStep DEF RxFirst, Fill
<1>2. CASE RxWait
  BY <1>0, <1>2, RxWaitStep DEF RxWait, Fill
<1>3. CASE RxGiveUp
  BY <1>0, <1>3, RxGiveUpStep DEF RxGiveUp, Fill
<1>4. CASE RxNoBuffer \/ Tick \/ (\E m \in atBase : LoseCfm(m)) \/ UNCHANGED queueVars
  <2>1. sent' = sent /\ accepted' = accepted
    BY <1>4 DEF RxNoBuffer, Tick, LoseCfm, queueVars, buffers
  <2>2. QED
    BY <1>0, <1>4, <2>1, OtherStep
<1>5. ASSUME NEW m \in atBase \cup {Foreign}, CfmIgnored(m) \/ CfmLast(m), Strays(m)
      PROVE  IInv' /\ sent' = sent /\ accepted' = accepted
  BY <1>0, <1>5, CfmIgnoredStep, CfmLastStep DEF CfmIgnored, CfmLast, buffers
<1>6. ASSUME NEW m \in atBase \cup {Foreign}, CfmNext(m), Strays(m)
      PROVE  /\ IInv' /\ sent' = Append(sent, Len(sent) + 1) /\ accepted > Len(sent)
             /\ accepted' = accepted
  BY <1>0, <1>6, CfmNextStep DEF CfmNext
<1>7. QED
  BY <1>1, <1>2, <1>3, <1>4, <1>5, <1>6 DEF QueueNext, Rx, Confirms, DataCfm

LEMMA InitInv == QueueInit => IInv
<1> SUFFICES ASSUME QueueInit PROVE IInv
  OBVIOUS
<1> DEFINE f == [i \in Buf |-> i]
<1>1. free = f /\ pending = <<>> /\ sent = <<>> /\ accepted = 0 /\ atBase = {}
  BY DEF QueueInit
<1>2. NumBuf \in Nat /\ Buf = 1 .. NumBuf
  BY QueueAssumption DEF Buf
<1>3. f \in [1 .. NumBuf -> Buf] /\ DOMAIN f = Buf /\ \A i \in Buf : f[i] = i
  BY <1>2
<1>4. f \in Seq(Buf)
  BY <1>2, <1>3, SeqDef
<1> HIDE DEF f
<1>5. Elems(f) = Buf /\ NoRepeat(f)
  BY <1>3 DEF Elems, NoRepeat
<1>6. Elems(pending) = {} /\ NoRepeat(pending) /\ DOMAIN pending = {} /\ DOMAIN sent = {}
  BY <1>1 DEF Elems, NoRepeat
<1>7. 0 \in 0 .. Old /\ Old \in 0 .. Old
  BY QueueAssumption DEF Old
<1>8. QueueTypeOK
  <2>1. held \in [Buf -> Nat] /\ age \in [Buf -> 0 .. Old]
    BY <1>7 DEF QueueInit
  <2>2. pending \in Seq(Buf) /\ sent \in Seq(Nat)
    BY <1>1, EmptySeq
  <2>3. accepted \in Nat /\ atBase \in SUBSET Nat
    BY <1>1
  <2>4. astray \in BOOLEAN /\ crashed \in BOOLEAN /\ lost \in BOOLEAN
    BY DEF QueueInit
  <2>5. free \in Seq(Buf)
    BY <1>1, <1>4
  <2>6. QED
    BY <2>1, <2>2, <2>3, <2>4, <2>5 DEF QueueTypeOK
<1>9. BuffersConserved
  BY <1>1, <1>5, <1>6 DEF BuffersConserved
<1>10. HeadIsLastSent /\ SentInOrder /\ PromptCfmMatches
  BY <1>1, <1>6 DEF HeadIsLastSent, SentInOrder, PromptCfmMatches
<1>11. QED
  BY <1>8, <1>9, <1>10 DEF IInv

\* The invariant holds of every behaviour.
THEOREM QueueInvariant == QueueSpec => []IInv
<1>1. IInv /\ [QueueNext]_queueVars => IInv'
  BY StepOutcome
<1>2. QED
  BY InitInv, <1>1, PTL DEF QueueSpec

\* The lists, the stamps and the counts keep their types.
THEOREM QueueTypeCorrect == QueueSpec => []QueueTypeOK
<1>1. IInv => QueueTypeOK
  BY DEF IInv
<1>2. QED
  BY <1>1, QueueInvariant, PTL

\* No buffer is leaked and none is in two places.
THEOREM PoolConserved == QueueSpec => []BuffersConserved
<1>1. IInv => BuffersConserved
  BY DEF IInv
<1>2. QED
  BY <1>1, QueueInvariant, PTL

\* Every message is requested at most once, in the order of arrival.
THEOREM RequestsInOrder == QueueSpec => []SentInOrder
<1>1. IInv => SentInOrder
  BY DEF IInv
<1>2. QED
  BY <1>1, QueueInvariant, PTL

\* The list is the last request and the messages after it.
THEOREM NoneSkipped == QueueSpec => []HeadIsLastSent
<1>1. IInv => HeadIsLastSent
  BY DEF IInv
<1>2. QED
  BY <1>1, QueueInvariant, PTL

\* Until a head is freed by something else, and again when the base node has no request
\* left to confirm, a confirm frees the buffer of the message it is for.
THEOREM PromptConfirms == QueueSpec => []PromptCfmMatches
<1>1. IInv => PromptCfmMatches
  BY DEF IInv
<1>2. QED
  BY <1>1, QueueInvariant, PTL

-----------------------------------------------------------------------------
(* DlmsQueue implements FifoRelay.  Under the invariant what waits is the run *)
(* of numbers between the last request and the last message accepted.         *)

Ahead(n, k) == [i \in 1 .. k |-> n + i]

LEMMA AheadFacts ==
  ASSUME NEW n \in Nat, NEW k \in Nat
  PROVE  /\ Ahead(n, k) \in Seq(Nat) /\ Len(Ahead(n, k)) = k
         /\ \A i \in 1 .. k : Ahead(n, k)[i] = n + i
<1>1. Ahead(n, k) \in [1 .. k -> Nat] /\ \A i \in 1 .. k : Ahead(n, k)[i] = n + i
  BY DEF Ahead
<1>2. Ahead(n, k) \in Seq(Nat)
  BY <1>1, SeqDef
<1>3. Len(Ahead(n, k)) = k
  BY <1>1, <1>2, LenProperties
<1>4. QED
  BY <1>1, <1>2, <1>3

LEMMA AheadAppend ==
  ASSUME NEW n \in Nat, NEW k \in Nat
  PROVE  Append(Ahead(n, k), n + k + 1) = Ahead(n, k + 1)
<1> DEFINE s == Ahead(n, k)
           u == Ahead(n, k + 1)
           t == Append(s, n + k + 1)
<1>1. /\ s \in Seq(Nat) /\ Len(s) = k /\ \A i \in 1 .. k : s[i] = n + i
      /\ u \in Seq(Nat) /\ Len(u) = k + 1 /\ \A i \in 1 .. k + 1 : u[i] = n + i
      /\ n + k + 1 \in Nat /\ k + 1 \in Nat
  <2>1. k + 1 \in Nat /\ n + k + 1 \in Nat
    OBVIOUS
  <2>2. QED
    BY <2>1, AheadFacts
<1> HIDE DEF s, u
<1>2. /\ t \in Seq(Nat) /\ Len(t) = k + 1
      /\ \A i \in 1 .. k : t[i] = s[i]
      /\ t[k + 1] = n + k + 1
  BY <1>1, AppendElems
<1> HIDE DEF t
<1>3. \A i \in 1 .. k + 1 : t[i] = u[i]
  <2> SUFFICES ASSUME NEW i \in 1 .. k + 1 PROVE t[i] = u[i]
    OBVIOUS
  <2>1. CASE i = k + 1
    BY <1>1, <1>2, <2>1
  <2>2. CASE i # k + 1
    <3>1. i \in 1 .. k
      BY <2>2
    <3>2. QED
      BY <1>1, <1>2, <3>1
  <2>3. QED
    BY <2>1, <2>2
<1>4. t = u
  BY <1>1, <1>2, <1>3, SeqEqual
<1>5. QED
  BY <1>4 DEF t, s, u

LEMMA AheadTail ==
  ASSUME NEW n \in Nat, NEW k \in Nat \ {0}
  PROVE  /\ Ahead(n, k) # <<>> /\ Head(Ahead(n, k)) = n + 1
         /\ Tail(Ahead(n, k)) = Ahead(n + 1, k - 1)
<1> DEFINE s == Ahead(n, k)
           u == Ahead(n + 1, k - 1)
           t == Tail(s)
<1>1. /\ s \in Seq(Nat) /\ Len(s) = k /\ \A i \in 1 .. k : s[i] = n + i
      /\ u \in Seq(Nat) /\ Len(u) = k - 1 /\ \A i \in 1 .. k - 1 : u[i] = n + 1 + i
  <2>1. k - 1 \in Nat /\ n + 1 \in Nat
    OBVIOUS
  <2>2. QED
    BY <2>1, AheadFacts
<1> HIDE DEF s, u
<1>2. s # <<>>
  BY <1>1, EmptySeq
<1>3. /\ t \in Seq(Nat) /\ Len(t) = k - 1 /\ Head(s) = s[1]
      /\ \A i \in 1 .. k - 1 : t[i] = s[i + 1]
  BY <1>1, <1>2, TailElems
<1> HIDE DEF t
<1>4. Head(s) = n + 1
  <2>1. 1 \in 1 .. k
    OBVIOUS
  <2>2. QED
    BY <1>1, <1>3, <2>1
<1>5. \A i \in 1 .. k - 1 : t[i] = u[i]
  <2> SUFFICES ASSUME NEW i \in 1 .. k - 1 PROVE t[i] = u[i]
    OBVIOUS
  <2>1. i + 1 \in 1 .. k /\ n + (i + 1) = n + 1 + i
    OBVIOUS
  <2>2. QED
    BY <1>1, <1>3, <2>1
<1>6. t = u
  BY <1>1, <1>3, <1>5, SeqEqual
<1>7. QED
  BY <1>2, <1>4, <1>6 DEF s, t, u

\* Waiting is the run of numbers from the last request to the last acceptance.
LEMMA WaitingIs ==
  ASSUME IInv
  PROVE  /\ accepted - Len(sent) \in Nat
         /\ Waiting = Ahead(Len(sent), accepted - Len(sent))
<1> DEFINE k == accepted - Len(sent)
<1>1. Len(sent) \in Nat /\ accepted \in Nat /\ Len(pending) \in Nat
  BY QueueFacts
<1>2. CASE pending = <<>>
  <2>1. accepted = Len(sent)
    BY <1>1, <1>2 DEF IInv, HeadIsLastSent
  <2>2. k = 0
    BY <1>1, <2>1
  <2>3. Ahead(Len(sent), 0) \in Seq(Nat) /\ Len(Ahead(Len(sent), 0)) = 0
    BY <1>1, AheadFacts
  <2>4. Ahead(Len(sent), 0) = <<>>
    BY <2>3, EmptySeq
  <2>5. Waiting = <<>>
    BY <1>2 DEF Waiting
  <2>6. QED
    BY <2>2, <2>4, <2>5
<1>3. CASE pending # <<>>
  <2>1. /\ \A i \in 1 .. Len(pending) : held[pending[i]] = Len(sent) + i - 1
        /\ accepted = Len(sent) + Len(pending) - 1 /\ Len(pending) \in Nat \ {0}
    BY <1>3, HeldInOrder
  <2>2. k = Len(pending) - 1 /\ k \in Nat
    BY <1>1, <2>1
  <2>3. \A i \in 1 .. Len(pending) - 1 : held[pending[i + 1]] = Len(sent) + i
    <3> SUFFICES ASSUME NEW i \in 1 .. Len(pending) - 1
                 PROVE  held[pending[i + 1]] = Len(sent) + i
      OBVIOUS
    <3>1. i + 1 \in 1 .. Len(pending) /\ Len(sent) + (i + 1) - 1 = Len(sent) + i
      BY <1>1
    <3>2. QED
      BY <2>1, <3>1
  <2>4. Waiting = [i \in 1 .. Len(pending) - 1 |-> held[pending[i + 1]]]
    BY <1>3 DEF Waiting
  <2>5. Waiting = [i \in 1 .. Len(pending) - 1 |-> Len(sent) + i]
    BY <2>3, <2>4
  <2>6. QED
    BY <2>2, <2>5 DEF Ahead
<1>4. QED
  BY <1>2, <1>3

\* The number the relay gives the next message.
LEMMA NumberIs ==
  ASSUME IInv
  PROVE  Relay!Number = accepted + 1
<1>1. Len(sent) \in Nat /\ accepted \in Nat
  BY QueueFacts
<1>2. accepted - Len(sent) \in Nat /\ Waiting = Ahead(Len(sent), accepted - Len(sent))
  BY WaitingIs
<1>3. Len(Waiting) = accepted - Len(sent)
  BY <1>1, <1>2, AheadFacts
<1>4. QED
  BY <1>1, <1>3 DEF Relay!Number

\* The relay's state, read off the queue's two numbers.
AsRelay ==
  /\ accepted - Len(sent) \in Nat /\ accepted \in Nat /\ Len(sent) \in Nat
  /\ Waiting = Ahead(Len(sent), accepted - Len(sent))
  /\ Relay!Number = accepted + 1

LEMMA RelayStep ==
  ASSUME IInv, AsRelay, AsRelay', [QueueNext]_queueVars
  PROVE  [Relay!RelayNext]_(Relay!relayVars)
<1> DEFINE n == Len(sent)
           k == accepted - Len(sent)
<1>1. n \in Nat /\ k \in Nat /\ accepted = n + k /\ Waiting = Ahead(n, k)
      /\ Relay!Number = n + k + 1 /\ accepted \in Nat
  BY DEF AsRelay
<1>2. Waiting' = Ahead(Len(sent'), accepted' - Len(sent'))
  BY DEF AsRelay
<1>3. sent' = Append(sent, n + 1) => Len(sent') = n + 1
  BY RequestInOrder
<1> HIDE DEF n, k
<1>4. Append(Waiting, Relay!Number) = Ahead(n, k + 1)
  BY <1>1, AheadAppend
<1>5. CASE sent' = sent /\ accepted' = accepted
  <2>1. Waiting' = Waiting
    BY <1>2, <1>5 DEF AsRelay
  <2>2. QED
    BY <1>5, <2>1 DEF Relay!relayVars
<1>6. CASE sent' = sent /\ accepted' = accepted + 1
  <2>1. Waiting' = Ahead(n, k + 1)
    <3>1. accepted' - Len(sent') = k + 1
      BY <1>1, <1>6 DEF n
    <3>2. QED
      BY <1>2, <1>6, <3>1 DEF n
  <2>2. Relay!Accept
    BY <1>4, <1>6, <2>1 DEF Relay!Accept
  <2>3. QED
    BY <2>2 DEF Relay!RelayNext
<1>7. CASE sent' = Append(sent, n + 1) /\ accepted > n /\ accepted' = accepted
  <2>1. k \in Nat \ {0}
    BY <1>1, <1>7
  <2>2. Waiting # <<>> /\ Head(Waiting) = n + 1 /\ Tail(Waiting) = Ahead(n + 1, k - 1)
    BY <1>1, <2>1, AheadTail
  <2>3. accepted' - Len(sent') = k - 1
    BY <1>1, <1>3, <1>7
  <2>4. Waiting' = Tail(Waiting)
    BY <1>2, <1>3, <1>7, <2>2, <2>3
  <2>5. Relay!HandOver(Waiting)
    BY <1>7, <2>2, <2>4 DEF Relay!HandOver
  <2>6. QED
    BY <2>5 DEF Relay!RelayNext
<1>8. CASE sent' = Append(sent, n + 1) /\ accepted' = accepted + 1
  <2> DEFINE q == Append(Waiting, Relay!Number)
             w == k + 1
  <2>1. w \in Nat \ {0} /\ w - 1 = k
    BY <1>1
  <2>2. q = Ahead(n, w)
    BY <1>4
  <2> HIDE DEF q, w
  <2>3. q # <<>> /\ Head(q) = n + 1 /\ Tail(q) = Ahead(n + 1, k)
    <3>1. /\ Ahead(n, w) # <<>> /\ Head(Ahead(n, w)) = n + 1
          /\ Tail(Ahead(n, w)) = Ahead(n + 1, w - 1)
      BY <1>1, <2>1, AheadTail
    <3>2. QED
      BY <2>1, <2>2, <3>1
  <2>4. accepted' - Len(sent') = k
    BY <1>1, <1>3, <1>8
  <2>5. Waiting' = Tail(q)
    BY <1>2, <1>3, <1>8, <2>3, <2>4
  <2>6. Relay!HandOver(q)
    BY <1>8, <2>3, <2>5 DEF Relay!HandOver
  <2>7. QED
    BY <2>6 DEF Relay!RelayNext, q
<1>9. QED
  BY <1>5, <1>6, <1>7, <1>8, StepOutcome DEF n

\* The queue hands every accepted message over once, in order, whatever confirms do.
THEOREM QueueImplementsRelay == QueueSpec => RelayImplemented
<1>1. QueueInit => Relay!RelayInit
  BY DEF QueueInit, Relay!RelayInit, Waiting
<1>2. IInv => AsRelay
  BY WaitingIs, NumberIs, QueueFacts DEF AsRelay
<1>3. IInv /\ AsRelay /\ AsRelay' /\ [QueueNext]_queueVars => [Relay!RelayNext]_(Relay!relayVars)
  BY RelayStep
<1>4. QED
  BY <1>1, <1>2, <1>3, QueueInvariant, PTL DEF QueueSpec, RelayImplemented, Relay!RelaySpec
=============================================================================

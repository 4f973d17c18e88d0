--------------------------- MODULE DlmsListProofs ---------------------------
(***************************************************************************)
(* Proofs about the list of meters, for every page length, list, table of  *)
(* meters, number of commands and width of the autoclose counter.          *)
(*                                                                         *)
(* MngLayer: the one owner the layer keeps pays for the next callback: it  *)
(* stands for a query of that application that has not been handled, and,  *)
(* if it is the emulator, for a START_CYCLES that has started nothing yet. *)
(* Clearing it after each callback is what keeps the accounts.             *)
(*                                                                         *)
(* DlmsNodes: ViewSound is not inductive alone: a leave takes a meter out  *)
(* of the view only while notices are given, so the view must be known to  *)
(* be empty otherwise.  ViewComplete needs to know who has a nonzero       *)
(* counter, and that asking for the list starts the notices.               *)
(*                                                                         *)
(* DlmsList: seen from either side, what the two components do together is *)
(* what each is allowed to do alone.                                       *)
(***************************************************************************)
EXTENDS DlmsList, TLAPS

-----------------------------------------------------------------------------
(* The management layer. *)

Accounts ==
  /\ \A a \in Asker : owner = a => handled[a] < queries[a]
  /\ owner = Emu => cycles < starts

\* The inductive invariant.
MngInv == MngTypeOK /\ HandledOnce /\ OneCyclePerStart /\ Accounts

LEMMA AskerFacts ==
  DlmsOTcp \in Asker /\ Emu \in Asker /\ DlmsOTcp # Emu /\ Invalid \notin Asker
BY MngAssumption DEF Asker

LEMMA QueryFacts ==
  MacQuery \in Query /\ \A k \in Nat : ListQuery(k) \in Query
BY DEF MacQuery, ListQuery, Query

LEMMA MngInitInv == MngInit => MngInv
<1> SUFFICES ASSUME MngInit PROVE MngInv
  OBVIOUS
<1>1. wire \in Seq(Query)
  BY QueryFacts DEF MngInit
<1>2. MngTypeOK
  BY <1>1, AskerFacts DEF MngInit, MngTypeOK
<1>3. Accounts
  BY AskerFacts DEF MngInit, Accounts
<1>4. HandledOnce /\ OneCyclePerStart
  BY AskerFacts DEF MngInit, HandledOnce, OneCyclePerStart
<1>5. QED
  BY <1>2, <1>3, <1>4 DEF MngInv

\* A callback's query, or none, leaves the wire a sequence of queries and lowers
\* nobody's count.
LEMMA SendFacts ==
  ASSUME MngTypeOK, NEW rest \in Seq(Query), NEW a \in Asker, NEW q \in Query,
         Send(a, q, rest) \/ NoSend(rest)
  PROVE  /\ wire' \in Seq(Query) /\ queries' \in [Asker -> Nat]
         /\ \A b \in Asker : queries[b] <= queries'[b]
<1>1. queries \in [Asker -> Nat]
  BY DEF MngTypeOK
<1>2. CASE Send(a, q, rest)
  BY <1>1, <1>2 DEF Send
<1>3. CASE NoSend(rest)
  BY <1>1, <1>3 DEF NoSend
<1>4. QED
  BY <1>2, <1>3

LEMMA StartStep == ASSUME MngInv, StartCycles PROVE MngInv'
<1>1. /\ starts' = starts + 1 /\ Send(Emu, ListQuery(0), wire) /\ owner' = Emu
      /\ UNCHANGED <<listed, macKnown, handled, cycles>>
  BY DEF StartCycles
<1>2. wire \in Seq(Query) /\ ListQuery(0) \in Query
  BY QueryFacts DEF MngInv, MngTypeOK
<1>3. wire' \in Seq(Query) /\ queries' \in [Asker -> Nat]
      /\ \A b \in Asker : queries[b] <= queries'[b]
  BY <1>1, <1>2, SendFacts, AskerFacts DEF MngInv
<1>4. queries'[Emu] = queries[Emu] + 1
  BY <1>1, AskerFacts DEF Send, MngInv, MngTypeOK
<1>5. handled \in [Asker -> Nat] /\ queries \in [Asker -> Nat] /\ starts \in Nat /\ cycles \in Nat
  BY DEF MngInv, MngTypeOK
<1>6. MngTypeOK'
  BY <1>1, <1>3, AskerFacts DEF MngInv, MngTypeOK
<1>7. HandledOnce'
  <2> SUFFICES ASSUME NEW b \in Asker PROVE handled[b] <= queries'[b]
    BY <1>1 DEF HandledOnce
  <2>1. handled[b] <= queries[b] /\ queries[b] <= queries'[b]
    BY <1>3 DEF MngInv, HandledOnce
  <2>2. handled[b] \in Nat /\ queries[b] \in Nat /\ queries'[b] \in Nat
    BY <1>3, <1>5
  <2>3. QED
    BY <2>1, <2>2
<1>8. OneCyclePerStart'
  BY <1>1, <1>5 DEF MngInv, OneCyclePerStart
<1>9. Accounts'
  <2>1. handled[Emu] <= queries[Emu] /\ handled[Emu] \in Nat /\ queries[Emu] \in Nat
    BY <1>5, AskerFacts DEF MngInv, HandledOnce
  <2>2. handled[Emu] < queries'[Emu]
    BY <1>4, <2>1
  <2>3. cycles < starts'
    BY <1>1, <1>5 DEF MngInv, OneCyclePerStart
  <2>4. QED
    BY <1>1, <2>2, <2>3 DEF Accounts
<1>10. QED
  BY <1>6, <1>7, <1>8, <1>9 DEF MngInv

\* What a response callback may do to the records, the wire and the cycles.
LEMMA RspFacts ==
  ASSUME MngInv, wire # <<>>, NEW a \in Asker,
         \/ a = DlmsOTcp /\ DlmsRsp(Head(wire), Tail(wire))
         \/ a = Emu /\ EmuRsp(Head(wire), Tail(wire))
  PROVE  /\ wire' \in Seq(Query) /\ queries' \in [Asker -> Nat]
         /\ \A b \in Asker : queries[b] <= queries'[b]
         /\ listed' \in [Asker -> SUBSET (0 .. NumRec - 1)] /\ macKnown' \in BOOLEAN
         /\ cycles' = cycles \/ (a = Emu /\ cycles' = cycles + 1)
<1> DEFINE q == Head(wire)
           rest == Tail(wire)
<1>1. q \in Query /\ rest \in Seq(Query)
  BY DEF MngInv, MngTypeOK
<1>2. q.from \in Nat /\ q.from + PageLen \in Nat
  BY <1>1, MngAssumption DEF Query
<1>3. ListQuery(q.from + PageLen) \in Query /\ MacQuery \in Query
  BY <1>2, QueryFacts
<1> HIDE DEF q, rest
<1>4. /\ \E b \in Asker, p \in Query : Send(b, p, rest) \/ NoSend(rest)
      /\ (listed' = listed \/ \E b \in Asker : Records(b, q))
      /\ (macKnown' = TRUE \/ macKnown' = macKnown)
      /\ (cycles' = cycles \/ (a = Emu /\ cycles' = cycles + 1))
  <2>1. CASE a = DlmsOTcp /\ DlmsRsp(q, rest)
    BY <1>3, <2>1, AskerFacts DEF DlmsRsp
  <2>2. CASE a = Emu /\ EmuRsp(q, rest)
    BY <1>3, <2>2, AskerFacts DEF EmuRsp
  <2>3. QED
    BY <2>1, <2>2 DEF q, rest
<1>5. Page(q.from) \subseteq 0 .. NumRec - 1
  BY DEF Page
<1>6. listed' \in [Asker -> SUBSET (0 .. NumRec - 1)]
  BY <1>4, <1>5 DEF Records, MngInv, MngTypeOK
<1>7. wire' \in Seq(Query) /\ queries' \in [Asker -> Nat]
      /\ \A b \in Asker : queries[b] <= queries'[b]
  BY <1>1, <1>4, SendFacts DEF MngInv
<1>8. QED
  BY <1>4, <1>6, <1>7 DEF MngInv, MngTypeOK

LEMMA ReceivedStep == ASSUME MngInv, ReceivedCmd PROVE MngInv'
<1>1. wire # <<>> /\ owner \in Asker /\ owner' = Invalid /\ starts' = starts
      /\ handled' = [handled EXCEPT ![owner] = @ + 1]
  BY DEF ReceivedCmd
<1>2. /\ wire' \in Seq(Query) /\ queries' \in [Asker -> Nat]
      /\ \A b \in Asker : queries[b] <= queries'[b]
      /\ listed' \in [Asker -> SUBSET (0 .. NumRec - 1)] /\ macKnown' \in BOOLEAN
      /\ cycles' = cycles \/ (owner = Emu /\ cycles' = cycles + 1)
  BY RspFacts DEF ReceivedCmd
<1>3. handled \in [Asker -> Nat] /\ queries \in [Asker -> Nat] /\ starts \in Nat /\ cycles \in Nat
  BY DEF MngInv, MngTypeOK
<1>4. MngTypeOK'
  BY <1>1, <1>2, <1>3 DEF MngTypeOK
<1>5. HandledOnce'
  <2> SUFFICES ASSUME NEW b \in Asker PROVE handled'[b] <= queries'[b]
    BY DEF HandledOnce
  <2>1. handled[b] \in Nat /\ queries[b] \in Nat /\ queries'[b] \in Nat /\ queries[b] <= queries'[b]
    BY <1>2, <1>3
  <2>2. CASE owner = b
    <3>1. handled[b] < queries[b] /\ handled'[b] = handled[b] + 1
      BY <1>1, <1>3, <2>2 DEF MngInv, Accounts
    <3>2. QED
      BY <2>1, <3>1
  <2>3. CASE owner # b
    <3>1. handled[b] <= queries[b] /\ handled'[b] = handled[b]
      BY <1>1, <1>3, <2>3 DEF MngInv, HandledOnce
    <3>2. QED
      BY <2>1, <3>1
  <2>4. QED
    BY <2>2, <2>3
<1>6. OneCyclePerStart'
  <2>1. cycles <= starts /\ (owner = Emu => cycles < starts)
    BY DEF MngInv, OneCyclePerStart, Accounts
  <2>2. cycles' <= starts
    BY <1>2, <1>3, <2>1
  <2>3. QED
    BY <1>1, <2>2 DEF OneCyclePerStart
<1>7. Accounts'
  BY <1>1, AskerFacts DEF Accounts
<1>8. QED
  BY <1>4, <1>5, <1>6, <1>7 DEF MngInv

LEMMA DropStep == ASSUME MngInv, ReceivedNoOwner \/ LoseQuery PROVE MngInv'
<1>1. wire # <<>> /\ wire \in Seq(Query) /\ wire' = Tail(wire)
      /\ UNCHANGED <<owner, queries, listed, macKnown, handled, starts, cycles>>
  BY DEF ReceivedNoOwner, LoseQuery, NoSend, MngInv, MngTypeOK
<1>2. wire' \in Seq(Query)
  BY <1>1
<1>3. QED
  BY <1>1, <1>2 DEF MngInv, MngTypeOK, HandledOnce, OneCyclePerStart, Accounts

\* The invariant holds of every behaviour.
THEOREM MngInvariant == MngSpec => []MngInv
<1>1. MngInv /\ [MngNext]_mngVars => MngInv'
  <2> SUFFICES ASSUME MngInv, [MngNext]_mngVars PROVE MngInv'
    OBVIOUS
  <2>1. CASE UNCHANGED mngVars
    BY <2>1 DEF mngVars, MngInv, MngTypeOK, HandledOnce, OneCyclePerStart, Accounts
  <2>2. CASE MngNext
    BY <2>2, StartStep, ReceivedStep, DropStep DEF MngNext, Received
  <2>3. QED
    BY <2>1, <2>2
<1>2. QED
  BY MngInitInv, <1>1, PTL DEF MngSpec

\* The layer's id, the tables and the counts keep their types.
THEOREM MngTypeCorrect == MngSpec => []MngTypeOK
<1>1. MngInv => MngTypeOK
  BY DEF MngInv
<1>2. QED
  BY <1>1, MngInvariant, PTL

\* No application is called back more often than it has asked.
THEOREM CalledBackOnce == MngSpec => []HandledOnce
<1>1. MngInv => HandledOnce
  BY DEF MngInv
<1>2. QED
  BY <1>1, MngInvariant, PTL

\* A START_CYCLES starts one chain of requests at most.
THEOREM OneChainPerStart == MngSpec => []OneCyclePerStart
<1>1. MngInv => OneCyclePerStart
  BY DEF MngInv
<1>2. QED
  BY <1>1, MngInvariant, PTL

-----------------------------------------------------------------------------
(* The table of meters and the notices. *)

\* The inductive invariant.
NInv ==
  /\ NodesTypeOK
  /\ ViewSound
  /\ ViewComplete
  /\ view # {} => Notifying
  /\ asked => Notifying
  /\ \A n \in Node : autoclose[n] > 0 => n \in muted

LEMMA WrapFacts == Wrap \in Nat /\ Wrap > 2 /\ 0 \in 0 .. Wrap - 1
BY NodesAssumption

\* The counter of command 5 stays below its width.
LEMMA CounterWraps ==
  ASSUME NEW k \in 0 .. Wrap - 1
  PROVE  (k + 1) % Wrap \in 0 .. Wrap - 1
BY WrapFacts

LEMMA NodesInitInv == NodesInit => NInv
<1> SUFFICES ASSUME NodesInit PROVE NInv
  OBVIOUS
<1>1. autoclose \in [Node -> 0 .. Wrap - 1] /\ \A n \in Node : ~(autoclose[n] > 0)
  BY WrapFacts DEF NodesInit
<1>2. QED
  BY <1>1 DEF NodesInit, NInv, NodesTypeOK, ViewSound, ViewComplete, Notifying

\* Steps of the base node: joins, leaves and list pages.
LEMMA BaseNodeStep ==
  ASSUME NInv, NEW n \in Node, NEW ns \in SUBSET Node,
         JoinInd(n) \/ LeaveInd(n) \/ ListPage(ns)
  PROVE  NInv'
<1> USE DEF NInv, NodesTypeOK, ViewSound, ViewComplete, Notifying
<1>1. CASE JoinInd(n)
  <2>1. autoclose[n] # 0 => autoclose[n] > 0
    BY WrapFacts
  <2>2. QED
    BY <1>1, <2>1 DEF JoinInd
<1>2. CASE LeaveInd(n)
  <2>1. autoclose' \in [Node -> 0 .. Wrap - 1] /\ autoclose'[n] = 0
    BY <1>2, WrapFacts DEF LeaveInd
  <2>2. ~IsEnabledAutoClose(valid', autoclose', n)
    BY <2>1 DEF IsEnabledAutoClose
  <2>3. view' = IF Notifying THEN view \ {n} ELSE view
    BY <1>2, <2>2 DEF LeaveInd
  <2>4. \A m \in Node : autoclose'[m] > 0 => autoclose[m] > 0
    BY <1>2, <2>1 DEF LeaveInd
  <2>5. QED
    BY <1>2, <2>1, <2>3, <2>4 DEF LeaveInd
<1>3. CASE ListPage(ns)
  BY <1>3 DEF ListPage
<1>4. QED
  BY <1>1, <1>2, <1>3

\* Commands 4, 5 and 6 change one counter and leave the view alone.
LEMMA CounterStep ==
  ASSUME NInv, NEW n \in Node, Delete(n) \/ EnableAutoClose(n) \/ DisableAutoClose(n)
  PROVE  NInv'
<1> USE DEF NInv, NodesTypeOK, ViewSound, ViewComplete, Notifying
<1>1. autoclose' \in [Node -> 0 .. Wrap - 1]
  BY WrapFacts, CounterWraps DEF Delete, EnableAutoClose, DisableAutoClose
<1>2. \A m \in Node : autoclose'[m] > 0 => autoclose[m] > 0 \/ m \in muted'
  BY <1>1 DEF Delete, EnableAutoClose, DisableAutoClose
<1>3. CASE Delete(n)
  BY <1>1, <1>2, <1>3 DEF Delete
<1>4. CASE EnableAutoClose(n)
  BY <1>1, <1>2, <1>4 DEF EnableAutoClose
<1>5. CASE DisableAutoClose(n)
  BY <1>1, <1>2, <1>5 DEF DisableAutoClose
<1>6. QED
  BY <1>3, <1>4, <1>5

\* The connection comes, speaks and goes.
LEMMA LinkStep ==
  ASSUME NInv, EnableNotifications \/ OtherData \/ ClientConnects \/ ClientGone
  PROVE  NInv'
<1> USE DEF NInv, NodesTypeOK, ViewSound, ViewComplete, Notifying
<1>1. CASE EnableNotifications
  BY <1>1 DEF EnableNotifications
<1>2. CASE OtherData
  BY <1>2 DEF OtherData
<1>3. CASE ClientConnects
  BY <1>3 DEF ClientConnects
<1>4. CASE ClientGone
  <2>1. autoclose' \in [Node -> 0 .. Wrap - 1]
        /\ \A m \in Node : autoclose'[m] > 0 => autoclose[m] > 0
    BY <1>4, WrapFacts DEF ClientGone, Close432
  <2>2. valid' \in SUBSET Node /\ released' \in SUBSET (Node \cup {NoAddr})
    BY <1>4 DEF ClientGone, Close432, AutoClosed
  <2>3. QED
    BY <1>4, <2>1, <2>2 DEF ClientGone
<1>5. QED
  BY <1>1, <1>2, <1>3, <1>4

\* The invariant holds of every behaviour.
THEOREM NodesInvariant == NodesSpec => []NInv
<1>1. NInv /\ [NodesNext]_nodesVars => NInv'
  <2> SUFFICES ASSUME NInv, [NodesNext]_nodesVars PROVE NInv'
    OBVIOUS
  <2>1. CASE UNCHANGED nodesVars
    BY <2>1 DEF nodesVars, NInv, NodesTypeOK, ViewSound, ViewComplete, Notifying
  <2>2. ASSUME NEW n \in Node, JoinInd(n) \/ LeaveInd(n) PROVE NInv'
    BY <2>2, BaseNodeStep
  <2>3. ASSUME NEW ns \in SUBSET Node, ListPage(ns) PROVE NInv'
    <3>1. CASE Node = {}
      BY <2>3, <3>1 DEF ListPage, NInv, NodesTypeOK, ViewSound, ViewComplete, Notifying
    <3>2. CASE Node # {}
      BY <2>3, <3>2, BaseNodeStep
    <3>3. QED
      BY <3>1, <3>2
  <2>4. ASSUME NEW n \in Node, Delete(n) \/ EnableAutoClose(n) \/ DisableAutoClose(n)
        PROVE  NInv'
    BY <2>4, CounterStep
  <2>5. CASE EnableNotifications \/ OtherData \/ ClientConnects \/ ClientGone
    BY <2>5, LinkStep
  <2>6. QED
    BY <2>1, <2>2, <2>3, <2>4, <2>5 DEF NodesNext
<1>2. QED
  BY NodesInitInv, <1>1, PTL DEF NodesSpec

\* The table and the counters keep their types.
THEOREM NodesTypeCorrect == NodesSpec => []NodesTypeOK
<1>1. NInv => NodesTypeOK
  BY DEF NInv
<1>2. QED
  BY <1>1, NodesInvariant, PTL

\* Every leave of a meter the concentrator was told of is told.
THEOREM ViewIsSound == NodesSpec => []ViewSound
<1>1. NInv => ViewSound
  BY DEF NInv
<1>2. QED
  BY <1>1, NodesInvariant, PTL

\* A concentrator that asked for the list misses meters muted or listed since, and no other.
THEOREM ViewIsComplete == NodesSpec => []ViewComplete
<1>1. NInv => ViewComplete
  BY DEF NInv
<1>2. QED
  BY <1>1, NodesInvariant, PTL

-----------------------------------------------------------------------------
(* The composition. *)

\* Together with the table, the management layer still does what MngLayer says.
THEOREM ListImplementsMng == ListSpec => MngSpec
<1>1. [ListNext]_listVars => [MngNext]_mngVars
  BY DEF ListNext, Answered, QueryStep, NodeStep, MngNext, listVars
<1>2. QED
  BY <1>1, PTL DEF ListSpec, ListInit, MngSpec

\* Filled by the management layer, the table still does what DlmsNodes says.
THEOREM ListImplementsNodes == ListSpec => NodesSpec
<1>1. \A from : NodesOf(from) \in SUBSET Node
  BY DEF NodesOf
<1>2. Answered => [NodesNext]_nodesVars
  BY <1>1 DEF Answered, NodesNext
<1>3. [ListNext]_listVars => [NodesNext]_nodesVars
  BY <1>2 DEF ListNext, QueryStep, NodeStep, NodesNext, listVars
<1>4. QED
  BY <1>3, PTL DEF ListSpec, ListInit, NodesSpec

\* All variables of the composition keep their types.
THEOREM ListTypeCorrect == ListSpec => []ListTypeOK
<1>1. ListTypeOK <=> MngTypeOK /\ NodesTypeOK
  BY DEF ListTypeOK
<1>2. QED
  BY <1>1, ListImplementsMng, ListImplementsNodes, MngTypeCorrect, NodesTypeCorrect, PTL

\* Whatever the two applications and the concentrator do at the same time, each of the
\* components' promises is kept.
THEOREM ListKeepsPromises ==
  ListSpec => [](HandledOnce /\ OneCyclePerStart /\ ViewSound /\ ViewComplete)
BY ListImplementsMng, ListImplementsNodes, CalledBackOnce, OneChainPerStart, ViewIsSound,
   ViewIsComplete, PTL
=============================================================================

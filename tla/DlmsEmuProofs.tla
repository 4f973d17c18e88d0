--------------------------- MODULE DlmsEmuProofs ---------------------------
(***************************************************************************)
(* Proofs about DlmsEmu, for every number of nodes, blocks and events out  *)
(* of turn.  The four invariants are inductive together with what a        *)
(* callback in steps relies on: what a handler leaves behind is always a   *)
(* timer or a request (NeverStalls), it leaves one of them only because it *)
(* found no more than one (OneActivity), and a scan leaves the index       *)
(* beyond the nodes it has passed (MaxCovers).                             *)
(***************************************************************************)
EXTENDS DlmsEmu, TLAPS, NaturalsInduction, WellFoundedInduction

\* What the main thread in a join or a scan knows of the maximum.
Covered ==
  /\ main = "raise" /\ ~cut => max <= at
  /\ main = "enter" /\ ~cut => at < max
  /\ main = "scan" => \A n \in valid : n < at => n < max

\* A handler that came after the main thread set the step can have taken it one step
\* on and no further: only the main thread starts the step timer.
OneStepOn ==
  main = "send" => step = "association" \/ (step = "date" /\ "step" \notin armed)

\* The inductive invariant.
IInv == EmuTypeOK /\ MaxCoversNodes /\ NeverStalls /\ OneActivity /\ Covered /\ OneStepOn

LEMMA NodeFacts ==
  /\ NumNode \in Nat \ {0} /\ NumBlock \in Nat /\ MaxAstray \in Nat
  /\ Node \subseteq Nat /\ NoNode = NumNode /\ NoNode \notin Node
  /\ \A n \in Node : n + 1 \in 1 .. NumNode
BY EmuAssumption DEF Node, NoNode

-----------------------------------------------------------------------------
(* The searches of _get_next_node_to_cycle and _get_number_nodes_connected. *)

LEMMA LeastExists ==
  ASSUME NEW S, S \subseteq Nat, S # {}
  PROVE  \E x \in S : \A y \in S : x <= y
<1> DEFINE Less == {p \in Nat \X Nat : p[1] < p[2]}
<1>1. IsWellFoundedOn(Less, Nat)
  BY NatLessThanWellFounded DEF OpToRel
<1>2. PICK x \in S : \A y \in S : ~(<<y, x>> \in Less)
  BY <1>1, WFMin
<1>3. ASSUME NEW y \in S PROVE x <= y
  <2>1. x \in Nat /\ y \in Nat /\ (y < x => <<y, x>> \in Less)
    OBVIOUS
  <2>2. QED
    BY <1>2, <2>1
<1>4. QED
  BY <1>3

LEMMA GreatestExists ==
  ASSUME NEW S, S \subseteq Node, S # {}
  PROVE  \E x \in S : \A y \in S : y <= x
<1> DEFINE T == {NumNode - n : n \in S}
<1>1. T \subseteq Nat /\ T # {}
  <2>1. \A n \in Node : NumNode - n \in Nat
    BY EmuAssumption DEF Node
  <2>2. QED
    BY <2>1
<1>2. PICK t \in T : \A u \in T : t <= u
  BY <1>1, LeastExists
<1>3. PICK x \in S : t = NumNode - x
  OBVIOUS
<1>4. ASSUME NEW y \in S PROVE y <= x
  <2>1. NumNode - x <= NumNode - y
    BY <1>2, <1>3
  <2>2. x \in Nat /\ y \in Nat /\ NumNode \in Nat
    BY NodeFacts
  <2>3. QED
    BY <2>1, <2>2
<1>5. QED
  BY <1>4

LEMMA NextNodeFacts ==
  ASSUME EmuTypeOK, NEW i
  PROVE  NextNode(i, max) \in Node \cup {NoNode}
<1> DEFINE C == Candidates(i, max)
<1>1. C \subseteq Node
  BY DEF Candidates, EmuTypeOK
<1>2. C # {} => \E n \in C : \A m \in C : n <= m
  BY <1>1, NodeFacts, LeastExists
<1> HIDE DEF C
<1>3. C # {} => (CHOOSE n \in C : \A m \in C : n <= m) \in C
  BY <1>2
<1>4. QED
  BY <1>1, <1>3 DEF NextNode, C

LEMMA TopFacts ==
  ASSUME EmuTypeOK
  PROVE  Top \in 1 .. NumNode /\ \A n \in valid : n < Top
<1>1. valid \in SUBSET Node /\ max \in 1 .. NumNode
  BY DEF EmuTypeOK
<1>2. CASE valid = {}
  BY <1>1, <1>2 DEF Top
<1>3. CASE valid # {}
  <2> DEFINE g == CHOOSE n \in valid : \A m \in valid : m <= n
  <2>1. g \in valid /\ \A m \in valid : m <= g
    BY <1>1, <1>3, GreatestExists
  <2> HIDE DEF g
  <2>2. Top = 1 + g
    BY <1>3 DEF Top, g
  <2>3. 1 + g \in 1 .. NumNode /\ \A n \in valid : n < 1 + g
    BY <1>1, <2>1, NodeFacts
  <2>4. QED
    BY <2>2, <2>3
<1>4. QED
  BY <1>2, <1>3

-----------------------------------------------------------------------------
(* What a handler that has taken a timer may leave. *)

Moved(running) ==
  /\ cur' \in Node \cup {NoNode} /\ step' \in Step /\ block' \in 0 .. NumBlock + 1
  /\ missed' \in SUBSET Node
  /\ \/ armed' = running /\ asked' = asked + 1
     \/ \E t \in {"cycle", "node"} : armed' = running \cup {t} /\ asked' = asked

LEMMA RequestFacts ==
  ASSUME EmuTypeOK, NEW n, NEW s \in Step, NEW b \in 0 .. NumBlock + 1,
         s = "nextblock" => b <= NumBlock, Request(n, s, b)
  PROVE  /\ asked' = asked + 1 /\ missed' \in SUBSET Node
         /\ block' \in 0 .. NumBlock + 1
<1>1. missed \in SUBSET Node /\ NumBlock \in Nat
  BY NodeFacts DEF EmuTypeOK
<1>2. block' \in 0 .. NumBlock + 1
  BY <1>1 DEF Request
<1>3. QED
  BY <1>1, <1>2 DEF Request

LEMMA CycleNextNodeMoves ==
  ASSUME EmuTypeOK, NEW s \in Step, NEW b \in 0 .. NumBlock + 1, NEW running,
         CycleNextNode(s, b, running)
  PROVE  Moved(running)
<1>1. cur' \in Node \cup {NoNode}
  BY NextNodeFacts DEF CycleNextNode
<1>2. CASE cur' # NoNode
  <2>1. /\ step' = "association" /\ Request(cur', "association", b)
        /\ armed' = running
    BY <1>2 DEF CycleNextNode
  <2>2. "association" \in Step
    BY DEF Step
  <2>3. QED
    BY <1>1, <2>1, <2>2, RequestFacts DEF Moved
<1>3. CASE cur' = NoNode
  <2>1. EndOfCycle(s, b, running)
    BY <1>3 DEF CycleNextNode
  <2>2. "cycle" \in Timer /\ missed \in SUBSET Node
    BY DEF Timer, EmuTypeOK
  <2>3. QED
    BY <1>1, <2>1, <2>2 DEF Moved, EndOfCycle
<1>4. QED
  BY <1>2, <1>3

LEMMA SendMoves ==
  ASSUME EmuTypeOK, NEW s \in Step, NEW b \in 0 .. NumBlock + 1, NEW running,
         s = "nextblock" => b <= NumBlock, Send(s, b, running)
  PROVE  Moved(running)
<1>1. CASE step' = s /\ Request(cur, s, b) /\ armed' = running /\ UNCHANGED cur
  BY <1>1, RequestFacts DEF Moved, EmuTypeOK
<1>2. CASE CycleNextNode(s, b, running)
  BY <1>2, CycleNextNodeMoves
<1>3. QED
  BY <1>1, <1>2 DEF Send

\* A timer has been taken, and a timer or a request left: one thing for one.
LEMMA MovedKeeps ==
  ASSUME IInv, NEW t \in armed, Moved(armed \ {t}), OneStepOn',
         UNCHANGED <<valid, max, active, astray, lost, main, at, cut>>
  PROVE  IInv'
<1>1. EmuTypeOK /\ asked \in Nat /\ armed \in SUBSET Timer /\ {"cycle", "node"} \subseteq Timer
  BY DEF IInv, EmuTypeOK, Timer
<1>2. asked' \in Nat /\ armed' \in SUBSET Timer /\ (armed' # {} \/ asked' > 0)
  <2>1. CASE armed' = armed \ {t} /\ asked' = asked + 1
    BY <1>1, <2>1
  <2>2. CASE \E u \in {"cycle", "node"} : armed' = (armed \ {t}) \cup {u} /\ asked' = asked
    BY <1>1, <2>2
  <2>3. QED
    BY <2>1, <2>2 DEF Moved
<1>3. EmuTypeOK'
  BY <1>1, <1>2 DEF EmuTypeOK, Moved
<1>4. MaxCoversNodes' /\ NeverStalls' /\ Covered'
  BY <1>2 DEF IInv, MaxCoversNodes, NeverStalls, Covered
<1>5. ASSUME astray' = 0
      PROVE  /\ \A u, v \in armed' : u = v
             /\ asked' <= 1
             /\ asked' = 1 => armed' = {}
             /\ main \notin Starting
  <2>1. armed \ {t} = {} /\ asked = 0 /\ main \notin Starting
    BY <1>1, <1>5 DEF IInv, OneActivity
  <2>2. QED
    BY <2>1 DEF Moved
<1>6. QED
  BY <1>3, <1>4, <1>5 DEF IInv, OneActivity

LEMMA NextNodeStep == ASSUME IInv, NEW t, NextNodeDue(t) PROVE IInv'
<1>1. t \in armed /\ CycleNextNode(step, block, armed \ {t})
  BY DEF NextNodeDue, Expires, Rest
<1>2. Moved(armed \ {t})
  BY <1>1, CycleNextNodeMoves DEF IInv, EmuTypeOK
<1>3. step' \in {step, "association"}
  BY <1>1 DEF CycleNextNode, EndOfCycle
<1>4. "step" \in armed' => "step" \in armed
  BY <1>2 DEF Moved
<1>5. OneStepOn'
  BY <1>3, <1>4 DEF IInv, OneStepOn, NextNodeDue, Kept
<1>6. QED
  BY <1>1, <1>2, <1>5, MovedKeeps DEF NextNodeDue, Kept, nodeVars

LEMMA StepDueStep == ASSUME IInv, StepDue PROVE IInv'
<1> DEFINE r == armed \ {"step"}
<1>1. EmuTypeOK /\ "step" \in armed /\ NumBlock \in Nat /\ block \in 0 .. NumBlock + 1
  BY NodeFacts DEF StepDue, Expires, IInv, EmuTypeOK
<1>2. /\ {"date", "s02", "nextblock", "release"} \subseteq Step
      /\ 0 \in 0 .. NumBlock + 1 /\ 0 <= NumBlock
  BY <1>1 DEF Step
<1>3. \A q \in Step : \A b \in 0 .. NumBlock + 1 :
         (q = "nextblock" => b <= NumBlock) /\ Send(q, b, r) => Moved(r)
  BY <1>1, SendMoves
<1>4. AfterBlock(r) => Moved(r)
  <2>1. block + 1 > NumBlock \/ (block + 1 \in 0 .. NumBlock + 1 /\ block + 1 <= NumBlock)
    BY <1>1
  <2>2. QED
    BY <1>1, <1>2, <1>3, <2>1 DEF AfterBlock
<1>5. AfterRelease(r) => Moved(r)
  BY <1>1, NextNodeFacts DEF AfterRelease, Moved, EmuTypeOK
<1>6. Moved(r)
  BY <1>1, <1>2, <1>3, <1>4, <1>5 DEF StepDue, Rest
<1>7. OneStepOn'
  <2> SUFFICES ASSUME main = "send"
               PROVE  step' \in {"association", "date"} /\ "step" \notin armed'
    BY DEF OneStepOn, StepDue, Kept
  <2>1. step = "association"
    BY <1>1 DEF IInv, OneStepOn
  <2>2. Send("date", 0, r)
    BY <2>1 DEF StepDue, Rest
  <2>3. step' \in {"association", "date"}
    BY <2>1, <2>2 DEF Send, CycleNextNode, EndOfCycle
  <2>4. QED
    BY <1>6, <2>3 DEF Moved
<1>8. QED
  BY <1>1, <1>6, <1>7, MovedKeeps DEF StepDue, Kept, nodeVars

-----------------------------------------------------------------------------
(* The start of a cycle by the handler. *)

LEMMA CycleDueStep == ASSUME IInv, CycleDue PROVE IInv'
<1>1. /\ EmuTypeOK /\ "cycle" \in armed /\ asked \in Nat /\ valid \in SUBSET Node
      /\ armed' = armed \ {"cycle"} /\ First \subseteq Node
  BY DEF CycleDue, Expires, Rest, IInv, EmuTypeOK, First
<1>2. /\ max' \in 1 .. NumNode /\ valid' = valid /\ main' = main /\ at' = at
      /\ cut' = (main \in Joining) /\ \A n \in valid : n < max'
  BY <1>1, TopFacts DEF CycleDue, Kept
<1>3. /\ cur' \in Node \cup {NoNode} /\ step' \in {step, "association"}
      /\ block' = block /\ missed' \in SUBSET Node /\ active' = (First # {})
      /\ asked' = IF First # {} THEN asked + 1 ELSE asked
  <2>1. CASE First # {}
    BY <1>1, <2>1 DEF CycleDue
  <2>2. CASE First = {}
    BY <1>1, <2>2 DEF CycleDue, EmuTypeOK
  <2>3. QED
    BY <2>1, <2>2
<1>4. EmuTypeOK'
  <2>1. "association" \in Step
    BY DEF Step
  <2>2. QED
    BY <1>1, <1>2, <1>3, <2>1 DEF CycleDue, Kept, EmuTypeOK
<1>5. MaxCoversNodes' /\ Covered'
  BY <1>2 DEF MaxCoversNodes, Covered, Joining
<1>6. NeverStalls'
  <2>1. First # {} => asked' = asked + 1 /\ asked' > 0
    BY <1>1, <1>3
  <2>2. active' => First # {}
    BY <1>3
  <2>3. QED
    BY <2>1, <2>2 DEF NeverStalls
<1>7. OneActivity'
  BY <1>1, <1>2, <1>3 DEF IInv, OneActivity, CycleDue, Kept
<1>8. OneStepOn'
  BY <1>1, <1>2, <1>3 DEF IInv, OneStepOn
<1>9. QED
  BY <1>4, <1>5, <1>6, <1>7, <1>8 DEF IInv

\* An event in turn leaves the count alone, one out of turn makes it positive.
LEMMA InTurnFacts ==
  ASSUME EmuTypeOK, NEW yes \in BOOLEAN, InTurn(yes)
  PROVE  astray' \in 0 .. MaxAstray /\ (astray' = 0 => astray = 0 /\ yes)
BY NodeFacts DEF EmuTypeOK, InTurn

-----------------------------------------------------------------------------
(* The main thread's callbacks in steps. *)

LEMMA Positions ==
  /\ Joining = {"raise", "enter"} /\ Starting = {"scan", "choose", "begin", "send", "next"}
  /\ Len(Stops) = 4 /\ "association" \in Step
BY DEF Joining, Starting, Stops, Step

LEMMA JoinStep ==
  ASSUME IInv, NEW n \in Node, JoinTest(n) \/ JoinRaise \/ JoinEnter
  PROVE  IInv'
<1>1. /\ EmuTypeOK /\ max \in 1 .. NumNode /\ valid \in SUBSET Node /\ n \in Nat
      /\ Node \subseteq Nat /\ NumNode \in Nat
  BY NodeFacts DEF IInv, EmuTypeOK
<1>2. /\ UNCHANGED <<cur, step, block, armed, asked, active, astray, lost, cut, missed>>
      /\ main \notin Starting /\ main' \notin Starting
  BY Positions DEF JoinTest, JoinRaise, JoinEnter, Goes, placeVars
<1>3. NeverStalls' /\ OneActivity' /\ OneStepOn'
  BY <1>2, Positions DEF IInv, NeverStalls, OneActivity, OneStepOn
<1>4. EmuTypeOK' /\ MaxCoversNodes' /\ Covered'
  <2>1. CASE JoinTest(n)
    <3>1. /\ valid' = valid /\ max' = max /\ at' = n /\ main = "idle"
          /\ \/ n >= max /\ main' = "raise"
             \/ n < max /\ main' = "enter"
      BY <1>1, <2>1 DEF JoinTest, Goes, nodeVars
    <3>2. EmuTypeOK'
      BY <1>1, <1>2, <3>1, Positions DEF EmuTypeOK
    <3>3. QED
      BY <1>1, <1>2, <3>1, <3>2 DEF IInv, MaxCoversNodes, Covered
  <2>2. CASE JoinRaise
    <3>1. /\ valid' = valid /\ max' = at + 1 /\ at' = at /\ main = "raise"
          /\ main' = "enter" /\ at \in Node
      BY <1>1, <2>2, Positions DEF JoinRaise, Goes, EmuTypeOK
    <3>2. EmuTypeOK'
      BY <1>1, <1>2, <3>1, NodeFacts, Positions DEF EmuTypeOK
    <3>3. QED
      BY <1>1, <1>2, <3>1, <3>2 DEF IInv, MaxCoversNodes, Covered
  <2>3. CASE JoinEnter
    <3>1. /\ valid' = valid \cup {at} /\ max' = max /\ at' = 0 /\ main = "enter"
          /\ main' = "idle" /\ at \in Node
      BY <1>1, <2>3, Positions DEF JoinEnter, Goes, EmuTypeOK
    <3>2. EmuTypeOK'
      BY <1>1, <1>2, <3>1, Positions DEF EmuTypeOK
    <3>3. QED
      BY <1>1, <1>2, <3>1, <3>2 DEF IInv, MaxCoversNodes, Covered
  <2>4. QED
    BY <2>1, <2>2, <2>3
<1>5. QED
  BY <1>3, <1>4 DEF IInv

LEMMA ListEndStep == ASSUME IInv, ListEnd PROVE IInv'
<1>1. /\ EmuTypeOK /\ main = "idle" /\ main' = "scan" /\ at' = 0 /\ valid \subseteq Nat
      /\ UNCHANGED <<valid, max, cur, step, block, armed, asked, active, lost, cut, missed>>
  BY NodeFacts DEF ListEnd, Goes, nodeVars, placeVars, IInv, EmuTypeOK
<1>2. astray' \in 0 .. MaxAstray /\ (astray' = 0 => astray = 0 /\ armed = {} /\ asked = 0)
  BY <1>1, InTurnFacts DEF ListEnd
<1>3. EmuTypeOK'
  BY <1>1, <1>2, NodeFacts, Positions DEF EmuTypeOK
<1>4. NeverStalls' /\ OneActivity' /\ OneStepOn' /\ MaxCoversNodes' /\ Covered'
  BY <1>1, <1>2 DEF IInv, NeverStalls, OneActivity, OneStepOn, MaxCoversNodes, Covered
<1>5. QED
  BY <1>3, <1>4 DEF IInv

LEMMA ScanStep == ASSUME IInv, ScanNode \/ ScanEnds PROVE IInv'
<1>1. /\ EmuTypeOK /\ main = "scan" /\ main \in Starting /\ at \in 0 .. NumNode
      /\ valid \in SUBSET Node /\ Node \subseteq Nat
      /\ UNCHANGED <<valid, cur, step, block, armed, asked, active, astray, lost, missed>>
  BY NodeFacts, Positions DEF ScanNode, ScanEnds, Goes, nodeVars, placeVars, IInv, EmuTypeOK
<1>2. CASE ScanNode
  <2>1. PICK n \in valid : /\ n >= at /\ \A m \in valid : m >= at => n <= m
                           /\ main' = "scan" /\ at' = n + 1 /\ max' = n + 1 /\ cut' = cut
    BY <1>2 DEF ScanNode, Goes
  <2>2. n + 1 \in 1 .. NumNode /\ n + 1 \in 0 .. NumNode
    BY <1>1, <2>1, NodeFacts
  <2>3. EmuTypeOK'
    BY <1>1, <2>1, <2>2, Positions DEF EmuTypeOK
  <2>4. MaxCoversNodes' /\ Covered' /\ OneStepOn' /\ NeverStalls' /\ OneActivity'
    BY <1>1, <2>1 DEF IInv, MaxCoversNodes, Covered, OneStepOn, NeverStalls, OneActivity
  <2>5. QED
    BY <2>3, <2>4 DEF IInv
<1>3. CASE ScanEnds
  <2>1. /\ \A n \in valid : n < at
        /\ main' \in {"idle", "choose"} /\ at' = 0 /\ max' = max /\ cut' = FALSE
    BY <1>3 DEF ScanEnds, Goes, nodeVars
  <2>2. EmuTypeOK'
    BY <1>1, <2>1, Positions DEF EmuTypeOK
  <2>3. MaxCoversNodes' /\ Covered' /\ OneStepOn' /\ NeverStalls' /\ OneActivity'
    BY <1>1, <2>1 DEF IInv, MaxCoversNodes, Covered, OneStepOn, NeverStalls, OneActivity
  <2>4. QED
    BY <2>2, <2>3 DEF IInv
<1>4. QED
  BY <1>2, <1>3

\* The rest of a start, from the choice of a node to its request.
LEMMA StartStep ==
  ASSUME IInv, Choose \/ Begin \/ MainSend \/ MainSkips \/ MainNext
  PROVE  IInv'
<1>1. /\ EmuTypeOK /\ NeverStalls /\ MaxCoversNodes /\ asked \in Nat
      /\ armed \in SUBSET Timer
  BY DEF IInv, EmuTypeOK
<1>2. /\ main \in Starting \ {"scan"} /\ main' \in (Starting \ {"scan"}) \cup {"idle"}
      /\ at' = 0 /\ UNCHANGED <<valid, max, astray, lost, cut>>
  BY Positions DEF Choose, Begin, MainSend, MainSkips, MainNext, Goes, nodeVars
<1>3. MaxCoversNodes' /\ Covered'
  BY <1>1, <1>2, Positions DEF MaxCoversNodes, Covered
<1>4. astray = 0 => armed = {} /\ asked = 0
  BY <1>2 DEF IInv, OneActivity
<1>5. CASE Choose \/ Begin \/ MainSkips
  <2>1. UNCHANGED <<block, armed, asked, active>>
    BY <1>5 DEF Choose, Begin, MainSkips
  <2>2. /\ cur' \in Node \cup {NoNode} /\ step' \in {step, "association"}
        /\ missed' \in SUBSET Node /\ (main' = "send" => step' = "association")
    BY <1>1, <1>5, NextNodeFacts DEF Choose, Begin, MainSkips, Goes, EmuTypeOK
  <2>3. EmuTypeOK'
    BY <1>1, <1>2, <2>1, <2>2, Positions DEF EmuTypeOK
  <2>4. NeverStalls' /\ OneActivity' /\ OneStepOn'
    BY <1>1, <1>2, <1>4, <2>1, <2>2 DEF NeverStalls, OneActivity, OneStepOn
  <2>5. QED
    BY <1>3, <2>3, <2>4 DEF IInv
<1>6. CASE MainSend
  <2>1. PICK s \in {"association", step} : Request(cur, s, block)
    BY <1>6 DEF MainSend
  <2>2. s \in Step /\ s # "nextblock" /\ main' = "idle"
    BY <1>6, <2>1, Positions DEF IInv, OneStepOn, MainSend, Goes, Step
  <2>3. asked' = asked + 1 /\ missed' \in SUBSET Node /\ block' \in 0 .. NumBlock + 1
    <3>1. block \in 0 .. NumBlock + 1
      BY <1>1 DEF EmuTypeOK
    <3>2. QED
      BY <1>1, <2>1, <2>2, <3>1, RequestFacts
  <2>4. UNCHANGED <<cur, step, armed>> /\ active' = TRUE
    BY <1>6 DEF MainSend
  <2>5. EmuTypeOK'
    BY <1>1, <1>2, <2>2, <2>3, <2>4, Positions DEF EmuTypeOK
  <2>6. NeverStalls' /\ OneActivity' /\ OneStepOn'
    BY <1>1, <1>2, <1>4, <2>2, <2>3, <2>4, Positions DEF NeverStalls, OneActivity, OneStepOn
  <2>7. QED
    BY <1>3, <2>5, <2>6 DEF IInv
<1>7. CASE MainNext
  <2>1. cur' = cur
    BY <1>7 DEF MainNext
  <2>2. CASE /\ main' = "send" /\ step' = "association"
             /\ UNCHANGED <<block, armed, asked, active, missed>>
    <3>1. EmuTypeOK'
      BY <1>1, <1>2, <2>1, <2>2, Positions DEF EmuTypeOK
    <3>2. NeverStalls' /\ OneActivity' /\ OneStepOn'
      BY <1>1, <1>2, <1>4, <2>2 DEF NeverStalls, OneActivity, OneStepOn
    <3>3. QED
      BY <1>3, <3>1, <3>2 DEF IInv
  <2>3. CASE main' = "idle" /\ EndOfCycle(step, block, armed) /\ active' = TRUE
    <3>1. /\ armed' = armed \cup {"cycle"} /\ "cycle" \in Timer
          /\ UNCHANGED <<step, block, asked, missed>>
      BY <2>3 DEF EndOfCycle, Timer
    <3>2. EmuTypeOK'
      BY <1>1, <1>2, <2>1, <2>3, <3>1, Positions DEF EmuTypeOK
    <3>3. NeverStalls' /\ OneActivity' /\ OneStepOn'
      BY <1>1, <1>2, <1>4, <2>3, <3>1, Positions DEF NeverStalls, OneActivity, OneStepOn
    <3>4. QED
      BY <1>3, <3>2, <3>3 DEF IInv
  <2>4. QED
    BY <1>7, <2>2, <2>3 DEF MainNext, Goes
<1>8. QED
  BY <1>5, <1>6, <1>7

LEMMA StopStep == ASSUME IInv, StopCycles \/ StopNext \/ Stopped PROVE IInv'
<1>1. /\ EmuTypeOK /\ MaxCoversNodes /\ Covered /\ asked \in Nat /\ armed \in SUBSET Timer
  BY DEF IInv, EmuTypeOK
<1>2. /\ main \in {"idle", "stop"} /\ main' \in {"idle", "stop"}
      /\ UNCHANGED <<valid, max, cur, block, asked, lost, cut, missed>>
      /\ step' \in {step, "association"} /\ armed' \in SUBSET armed /\ astray' \in 0 .. MaxAstray
      /\ astray' = 0 => astray = 0
  <2>1. CASE StopCycles
    BY <1>1, <2>1, InTurnFacts DEF StopCycles, Goes, nodeVars, placeVars
  <2>2. CASE StopNext
    BY <1>1, <2>2 DEF StopNext, Goes, nodeVars, placeVars, EmuTypeOK
  <2>3. CASE Stopped
    BY <1>1, <2>3 DEF Stopped, Goes, nodeVars, EmuTypeOK
  <2>4. QED
    BY <2>1, <2>2, <2>3
<1>3. /\ main' = "stop" => at' \in 1 .. Len(Stops)
      /\ main' = "idle" => at' = 0
  <2>1. main = "stop" => at \in 1 .. 4
    BY <1>1, Positions DEF EmuTypeOK
  <2>2. QED
    BY <2>1, Positions DEF StopCycles, StopNext, Stopped, Goes
<1>4. active' = FALSE \/ (active' = active /\ armed' = armed)
  BY DEF StopCycles, StopNext, Stopped
<1>5. EmuTypeOK'
  <2>1. active' \in BOOLEAN
    BY <1>1, <1>4 DEF EmuTypeOK
  <2>2. QED
    BY <1>1, <1>2, <1>3, <2>1, Positions DEF EmuTypeOK
<1>6. NeverStalls'
  BY <1>2, <1>4 DEF IInv, NeverStalls
<1>7. OneActivity'
  BY <1>2, Positions DEF IInv, OneActivity
<1>8. MaxCoversNodes' /\ Covered' /\ OneStepOn'
  BY <1>1, <1>2 DEF MaxCoversNodes, Covered, OneStepOn
<1>9. QED
  BY <1>5, <1>6, <1>7, <1>8 DEF IInv

-----------------------------------------------------------------------------
(* Callbacks of one step: the main thread is in no other. *)

LEMMA IdleKeeps ==
  ASSUME IInv, Idle, UNCHANGED max, valid' \in SUBSET valid
  PROVE  MaxCoversNodes' /\ Covered' /\ OneStepOn' /\ main' = "idle" /\ main \notin Starting
BY Positions DEF IInv, Idle, mainVars, MaxCoversNodes, Covered, OneStepOn

LEMMA LeaveStep == ASSUME IInv, NEW n \in Node, LeaveInd(n) PROVE IInv'
<1>1. MaxCoversNodes' /\ Covered' /\ OneStepOn'
  BY IdleKeeps DEF LeaveInd
<1>2. EmuTypeOK'
  BY DEF IInv, EmuTypeOK, LeaveInd, Idle, mainVars, placeVars
<1>3. NeverStalls' /\ OneActivity'
  BY DEF IInv, NeverStalls, OneActivity, LeaveInd, Idle, mainVars
<1>4. QED
  BY <1>1, <1>2, <1>3 DEF IInv

LEMMA ConfirmStep == ASSUME IInv, DataCfm \/ ForeignCfm PROVE IInv'
<1>1. /\ EmuTypeOK /\ asked \in Nat /\ armed \in SUBSET Timer
      /\ {"timeout", "node"} \subseteq Timer /\ main = "idle" /\ main \notin Starting
      /\ UNCHANGED <<valid, max, cur, step, block, active, lost, main, at, cut, missed>>
  BY Positions DEF DataCfm, ForeignCfm, Idle, mainVars, nodeVars, placeVars, IInv, EmuTypeOK, Timer
<1>2. MaxCoversNodes' /\ Covered' /\ OneStepOn'
  BY <1>1, IdleKeeps DEF DataCfm, ForeignCfm
<1>3. PICK t \in {"timeout", "node"} : armed' = armed \cup {t}
  BY DEF DataCfm, ForeignCfm, Confirmed
<1>4. CASE DataCfm
  <2>1. asked > 0 /\ asked' = asked - 1 /\ astray' = astray
    BY <1>4 DEF DataCfm
  <2>2. EmuTypeOK' /\ NeverStalls'
    BY <1>1, <1>3, <2>1 DEF EmuTypeOK, NeverStalls
  <2>3. astray' = 0 => asked' = 0 /\ armed' = {t}
    BY <1>1, <1>3, <2>1 DEF IInv, OneActivity
  <2>4. QED
    BY <1>1, <1>2, <2>2, <2>3 DEF IInv, OneActivity
<1>5. CASE ForeignCfm
  <2>1. asked' = asked /\ astray' \in 0 .. MaxAstray /\ astray' # 0
    BY <1>1, <1>5, InTurnFacts DEF ForeignCfm
  <2>2. EmuTypeOK' /\ NeverStalls' /\ OneActivity'
    BY <1>1, <1>3, <2>1 DEF EmuTypeOK, NeverStalls, OneActivity
  <2>3. QED
    BY <1>2, <2>2 DEF IInv
<1>6. QED
  BY <1>4, <1>5

LEMMA LossStep == ASSUME IInv, LoseCfm PROVE IInv'
<1>1. /\ EmuTypeOK /\ asked \in Nat /\ asked > 0 /\ asked' = asked - 1 /\ lost' = TRUE
      /\ UNCHANGED <<valid, max, cur, step, block, armed, active, astray, main, at, cut, missed>>
  BY DEF LoseCfm, mainVars, nodeVars, placeVars, IInv, EmuTypeOK
<1>2. EmuTypeOK' /\ NeverStalls'
  BY <1>1 DEF EmuTypeOK, NeverStalls
<1>3. OneActivity'
  BY <1>1 DEF IInv, OneActivity
<1>4. MaxCoversNodes' /\ Covered' /\ OneStepOn'
  BY <1>1 DEF IInv, MaxCoversNodes, Covered, OneStepOn
<1>5. QED
  BY <1>2, <1>3, <1>4 DEF IInv

LEMMA ReplyStep == ASSUME IInv, DataInd PROVE IInv'
<1>1. /\ EmuTypeOK /\ asked \in Nat /\ armed \in SUBSET Timer /\ main \notin Starting
      /\ {"step", "node"} \subseteq Timer
      /\ UNCHANGED <<valid, max, cur, step, block, asked, active, lost, main, at, cut, missed>>
  BY Positions DEF DataInd, Idle, mainVars, nodeVars, placeVars, IInv, EmuTypeOK, Timer
<1>2. PICK t \in {"step", "node"} : armed' = (armed \ {"timeout"}) \cup {t}
  BY DEF DataInd
<1>3. astray' \in 0 .. MaxAstray /\ (astray' = 0 => armed = {"timeout"} /\ asked = 0)
  BY <1>1, InTurnFacts DEF DataInd
<1>4. EmuTypeOK' /\ NeverStalls'
  BY <1>1, <1>2, <1>3 DEF EmuTypeOK, NeverStalls
<1>5. OneActivity'
  BY <1>1, <1>2, <1>3 DEF OneActivity
<1>6. MaxCoversNodes' /\ Covered' /\ OneStepOn'
  BY <1>1, IdleKeeps DEF DataInd
<1>7. QED
  BY <1>4, <1>5, <1>6 DEF IInv

LEMMA InitInv == EmuInit => IInv
<1> SUFFICES ASSUME EmuInit PROVE IInv
  OBVIOUS
<1>1. 1 \in 1 .. NumNode /\ 0 \in Node /\ 0 \in 0 .. NumBlock + 1 /\ 0 \in 0 .. MaxAstray
  BY EmuAssumption DEF Node
<1>2. EmuTypeOK
  BY <1>1, Positions DEF EmuInit, EmuTypeOK
<1>3. QED
  BY <1>2, Positions DEF EmuInit, IInv, MaxCoversNodes, NeverStalls, OneActivity, Covered, OneStepOn

\* The invariant the theorems below are read off from.
THEOREM EmuInvariant == EmuSpec => []IInv
<1>1. EmuInit => IInv
  BY InitInv
<1>2. IInv /\ [EmuNext]_emuVars => IInv'
  <2> SUFFICES ASSUME IInv, [EmuNext]_emuVars PROVE IInv'
    OBVIOUS
  <2>1. CASE TimerHandler
    BY <2>1, NextNodeStep, StepDueStep, CycleDueStep DEF TimerHandler, Timeout, NodeDue
  <2>2. CASE DataCfm \/ LoseCfm
    BY <2>2, ConfirmStep, LossStep
  <2>3. CASE Outside
    <3>1. CASE \E n \in Node : JoinTest(n) \/ LeaveInd(n)
      BY <3>1, JoinStep, LeaveStep
    <3>2. CASE ListEnd \/ ForeignCfm \/ DataInd \/ StopCycles
      BY <3>2, ListEndStep, ConfirmStep, ReplyStep, StopStep
    <3>3. QED
      BY <2>3, <3>1, <3>2 DEF Outside
  <2>4. CASE Callback
    <3>1. 0 \in Node
      BY EmuAssumption DEF Node
    <3>2. QED
      BY <2>4, <3>1, JoinStep, ScanStep, StartStep, StopStep DEF Callback
  <2>5. CASE UNCHANGED emuVars
    BY <2>5 DEF emuVars, nodeVars, placeVars, mainVars, IInv, EmuTypeOK, MaxCoversNodes,
                NeverStalls, OneActivity, Covered, OneStepOn
  <2>6. QED
    BY <2>1, <2>2, <2>3, <2>4, <2>5 DEF EmuNext
<1>3. QED
  BY <1>1, <1>2, PTL DEF EmuSpec

\* Type correctness, and with it that the block number, which the code raises twice
\* for each block, stays within one of the number of blocks.
THEOREM EmuTypeCorrect == EmuSpec => []EmuTypeOK
<1>1. IInv => EmuTypeOK
  BY DEF IInv
<1>2. QED
  BY <1>1, EmuInvariant, PTL

\* sus_max_index_connected_node is beyond every connected meter, however joins, lists
\* and the starts of cycles raise and lower it, unless a start came into a join and
\* none has come since.
THEOREM MaxCovers == EmuSpec => []MaxCoversNodes
<1>1. IInv => MaxCoversNodes
  BY DEF IInv
<1>2. QED
  BY <1>1, EmuInvariant, PTL

\* A cycle under way always has a timer or a confirm to wait for.
THEOREM CycleNeverStalls == EmuSpec => []NeverStalls
<1>1. IInv => NeverStalls
  BY DEF IInv
<1>2. QED
  BY <1>1, EmuInvariant, PTL

\* While events come in turn the cycle is one thread of control: no handler runs
\* between the steps of a start.
THEOREM OneThreadOfControl == EmuSpec => []OneActivity
<1>1. IInv => OneActivity
  BY DEF IInv
<1>2. QED
  BY <1>1, EmuInvariant, PTL
=============================================================================

--------------------------- MODULE CliReportsProofs ---------------------------
(***************************************************************************)
(* Proofs about CliReports, for every set of nodes, number of changes and  *)
(* number of commands.                                                     *)
(*                                                                         *)
(* What the files promise is about the moment all is answered; the         *)
(* invariant says what is owed until then.  A field that has not been      *)
(* answered has a request out for it or for an earlier one (ChainHolds); a *)
(* list that is no longer the base node's is followed by the event of the  *)
(* change (ListsCurrent); a file behind the base node's list has an event  *)
(* or a list on its way, whose flag is set (FlagCovered, FileCovered).     *)
(***************************************************************************)
EXTENDS CliReports, TLAPS, SequenceTheorems

What   == Info \cup {Other, "list"}
Notice == [what : What \cup {"event"}, nodes : SUBSET Node]

Asks(base, p)  == \E i \in 1 .. Len(base) : base[i] = p
Tells(host, w) == \E i \in 1 .. Len(host) : host[i].what = w
Pending(p)     == Asks(toBase, p) \/ Tells(toHost, p)

\* CliTypeOK, with the sets the two lines are sequences over.
LineTypeOK ==
  /\ status \in Status
  /\ have \in SUBSET Info /\ infoFile \in SUBSET Info
  /\ toXml \in BOOLEAN /\ overlapped \in BOOLEAN /\ lost \in BOOLEAN
  /\ listFile \in SUBSET Node /\ registered \in SUBSET Node
  /\ toBase \in Seq(What) /\ toHost \in Seq(Notice)
  /\ changes \in 0 .. MaxChange /\ cmds \in 0 .. MaxCmd

\* Between two calls the state machine waits, has done, or is about to start;
\* nothing is in the file that was not answered.
Stages == status \in {"mac", "wait", "ok"} /\ infoFile \subseteq have

\* Before the first cli_process nothing can be answered but the list of cli_init.
FirstIsList ==
  status = "mac" =>
    \/ toHost = <<>> /\ toBase # <<>> /\ Head(toBase) = "list"
    \/ toHost # <<>> /\ Head(toHost).what \in {"list", "event"}

\* The order in which the fields are read.
UpTo(f) ==
  CASE f = "mac" -> {"mac"} [] f = "fwv" -> {"mac", "fwv"}
    [] f = "vid" -> {"mac", "fwv", "vid"} [] f = "pid" -> Info

\* A missing field, a missing file and a wait all have a request out.
ChainHolds ==
  status \notin Info =>
    /\ \A f \in Info : f \in have \/ \E p \in UpTo(f) : Pending(p)
    /\ infoFile = Info \/ \E p \in Info : Pending(p)
    /\ status = "wait" => \E p \in Info : Pending(p)

\* A list on its way is the base node's, or an event is behind it.
Current(host, nodes) ==
  \A i \in 1 .. Len(host) :
    host[i].what = "list" =>
      host[i].nodes = nodes \/ \E j \in i + 1 .. Len(host) : host[j].what = "event"
ListsCurrent == Current(toHost, registered)

\* One list at most, asked for or answered.
OneAsked(base) ==
  \A i, j \in 1 .. Len(base) : base[i] = "list" /\ base[j] = "list" => i = j
OneTold(host) ==
  \A i, j \in 1 .. Len(host) : host[i].what = "list" /\ host[j].what = "list" => i = j
OneList ==
  OneAsked(toBase) /\ OneTold(toHost) /\ ~(Asks(toBase, "list") /\ Tells(toHost, "list"))

FlagCovered == Pending("list") => toXml
Told        == Tells(toHost, "event") \/ Pending("list") \/ registered = {}
FileCovered == Told \/ listFile = registered
FlagServed  == toXml => Told

\* The inductive invariant.
CliInv ==
  /\ LineTypeOK /\ Stages
  /\ ~lost => FirstIsList /\ ChainHolds
  /\ ListsCurrent
  /\ ~overlapped => OneList
  /\ ~lost /\ ~overlapped => FlagCovered /\ FileCovered
  /\ ~lost => FlagServed

-----------------------------------------------------------------------------
(* What appending, concatenating and taking the head do to the two lines. *)

\* Requests asked for by two sequences, one after the other.
LEMMA AsksConcat ==
  ASSUME NEW s \in Seq(What), NEW t \in Seq(What)
  PROVE  /\ s \o t \in Seq(What)
         /\ \A p : Asks(s \o t, p) <=> Asks(s, p) \/ Asks(t, p)
<1>1. /\ s \o t \in Seq(What) /\ Len(s \o t) = Len(s) + Len(t)
      /\ \A i \in 1 .. Len(s) + Len(t) : (s \o t)[i] = IF i <= Len(s) THEN s[i] ELSE t[i - Len(s)]
  BY ConcatProperties
<1>2. Len(s) \in Nat /\ Len(t) \in Nat
  BY LenProperties
<1>3. ASSUME NEW p, Asks(s \o t, p) PROVE Asks(s, p) \/ Asks(t, p)
  <2>1. PICK i \in 1 .. Len(s) + Len(t) : (s \o t)[i] = p
    BY <1>1, <1>3 DEF Asks
  <2>2. CASE i <= Len(s)
    BY <1>1, <1>2, <2>1, <2>2 DEF Asks
  <2>3. CASE i > Len(s)
    <3>1. i - Len(s) \in 1 .. Len(t) /\ t[i - Len(s)] = p
      BY <1>1, <1>2, <2>1, <2>3
    <3>2. QED
      BY <3>1 DEF Asks
  <2>4. QED
    BY <1>2, <2>2, <2>3
<1>4. ASSUME NEW p, Asks(s, p) PROVE Asks(s \o t, p)
  <2>1. PICK i \in 1 .. Len(s) : s[i] = p
    BY <1>4 DEF Asks
  <2>2. i \in 1 .. Len(s) + Len(t) /\ (s \o t)[i] = p
    BY <1>1, <1>2, <2>1
  <2>3. QED
    BY <1>1, <2>2 DEF Asks
<1>5. ASSUME NEW p, Asks(t, p) PROVE Asks(s \o t, p)
  <2>1. PICK i \in 1 .. Len(t) : t[i] = p
    BY <1>5 DEF Asks
  <2> DEFINE j == Len(s) + i
  <2>2. j \in 1 .. Len(s) + Len(t) /\ j - Len(s) = i /\ ~(j <= Len(s))
    BY <1>2
  <2>3. (s \o t)[j] = p
    BY <1>1, <2>1, <2>2
  <2>4. QED
    BY <1>1, <2>2, <2>3 DEF Asks
<1>6. QED
  BY <1>1, <1>3, <1>4, <1>5

\* A request appended.
LEMMA AsksAppend ==
  ASSUME NEW s \in Seq(What), NEW x \in What
  PROVE  /\ Append(s, x) \in Seq(What)
         /\ \A p : Asks(Append(s, x), p) <=> Asks(s, p) \/ p = x
<1> DEFINE t == Append(s, x)
           n == Len(s)
<1>1. /\ t \in Seq(What) /\ Len(t) = n + 1 /\ n \in Nat
      /\ \A i \in 1 .. n : t[i] = s[i]
      /\ t[n + 1] = x
  BY AppendProperties, LenProperties
<1> HIDE DEF t, n
<1>2. 1 .. n + 1 = (1 .. n) \cup {n + 1}
  BY <1>1
<1>3. ASSUME NEW p PROVE (\E i \in 1 .. n + 1 : t[i] = p) <=> (\E i \in 1 .. n : s[i] = p) \/ p = x
  <2>1. ASSUME NEW i \in 1 .. n + 1, t[i] = p
        PROVE  (\E j \in 1 .. n : s[j] = p) \/ p = x
    BY <1>1, <1>2, <2>1
  <2>2. ASSUME NEW i \in 1 .. n, s[i] = p PROVE \E j \in 1 .. n + 1 : t[j] = p
    BY <1>1, <1>2, <2>2
  <2>3. p = x => \E j \in 1 .. n + 1 : t[j] = p
    BY <1>1, <1>2
  <2>4. QED
    BY <2>1, <2>2, <2>3
<1>4. QED
  BY <1>1, <1>3 DEF Asks, t, n

\* The oldest request taken.
LEMMA AsksTail ==
  ASSUME NEW s \in Seq(What), s # <<>>
  PROVE  /\ Head(s) \in What /\ Tail(s) \in Seq(What)
         /\ \A p : Asks(s, p) <=> p = Head(s) \/ Asks(Tail(s), p)
BY DEF Asks

\* No request, one and two.
LEMMA AsksFew ==
  /\ \A p : ~Asks(<<>>, p)
  /\ \A x, p : Asks(<<x>>, p) <=> p = x
  /\ \A x, y, p : Asks(<<x, y>>, p) <=> p = x \/ p = y
BY DEF Asks

\* An answer or event appended.
LEMMA TellsAppend ==
  ASSUME NEW s \in Seq(Notice), NEW x \in Notice
  PROVE  /\ Append(s, x) \in Seq(Notice)
         /\ \A w : Tells(Append(s, x), w) <=> Tells(s, w) \/ w = x.what
<1> DEFINE t == Append(s, x)
           n == Len(s)
<1>1. /\ t \in Seq(Notice) /\ Len(t) = n + 1 /\ n \in Nat
      /\ \A i \in 1 .. n : t[i] = s[i]
      /\ t[n + 1] = x
  BY AppendProperties, LenProperties
<1> HIDE DEF t, n
<1>2. 1 .. n + 1 = (1 .. n) \cup {n + 1}
  BY <1>1
<1>3. ASSUME NEW w PROVE (\E i \in 1 .. n + 1 : t[i].what = w) <=> (\E i \in 1 .. n : s[i].what = w) \/ w = x.what
  <2>1. ASSUME NEW i \in 1 .. n + 1, t[i].what = w
        PROVE  (\E j \in 1 .. n : s[j].what = w) \/ w = x.what
    BY <1>1, <1>2, <2>1
  <2>2. ASSUME NEW i \in 1 .. n, s[i].what = w PROVE \E j \in 1 .. n + 1 : t[j].what = w
    BY <1>1, <1>2, <2>2
  <2>3. w = x.what => \E j \in 1 .. n + 1 : t[j].what = w
    BY <1>1, <1>2
  <2>4. QED
    BY <2>1, <2>2, <2>3
<1>4. QED
  BY <1>1, <1>3 DEF Tells, t, n

\* The oldest answer or event taken.
LEMMA TellsTail ==
  ASSUME NEW s \in Seq(Notice), s # <<>>
  PROVE  /\ Head(s) \in Notice /\ Tail(s) \in Seq(Notice)
         /\ \A w : Tells(s, w) <=> w = Head(s).what \/ Tells(Tail(s), w)
BY DEF Tells

\* With a list appended where none was asked for, one is asked for.
LEMMA OneAskedConcat ==
  ASSUME NEW s \in Seq(What), NEW t \in Seq(What),
         OneAsked(s), OneAsked(t), ~(Asks(s, "list") /\ Asks(t, "list"))
  PROVE  OneAsked(s \o t)
<1>1. /\ Len(s \o t) = Len(s) + Len(t)
      /\ \A i \in 1 .. Len(s) + Len(t) : (s \o t)[i] = IF i <= Len(s) THEN s[i] ELSE t[i - Len(s)]
  BY ConcatProperties
<1>2. Len(s) \in Nat /\ Len(t) \in Nat
  BY LenProperties
<1> SUFFICES ASSUME NEW i \in 1 .. Len(s) + Len(t), NEW j \in 1 .. Len(s) + Len(t),
                    (s \o t)[i] = "list", (s \o t)[j] = "list"
             PROVE  i = j
  BY <1>1 DEF OneAsked
<1>3. ASSUME NEW k \in 1 .. Len(s) + Len(t), (s \o t)[k] = "list"
      PROVE  \/ k \in 1 .. Len(s) /\ s[k] = "list" /\ Asks(s, "list")
             \/ k - Len(s) \in 1 .. Len(t) /\ t[k - Len(s)] = "list" /\ Asks(t, "list")
  <2>1. CASE k <= Len(s)
    BY <1>1, <1>2, <1>3, <2>1 DEF Asks
  <2>2. CASE k > Len(s)
    <3>1. k - Len(s) \in 1 .. Len(t) /\ t[k - Len(s)] = "list"
      BY <1>1, <1>2, <1>3, <2>2
    <3>2. QED
      BY <3>1 DEF Asks
  <2>3. QED
    BY <1>2, <2>1, <2>2
<1>4. CASE Asks(s, "list")
  <2>1. i \in 1 .. Len(s) /\ s[i] = "list" /\ j \in 1 .. Len(s) /\ s[j] = "list"
    BY <1>3, <1>4
  <2>2. QED
    BY <2>1 DEF OneAsked
<1>5. CASE ~Asks(s, "list")
  <2>1. /\ i - Len(s) \in 1 .. Len(t) /\ t[i - Len(s)] = "list"
        /\ j - Len(s) \in 1 .. Len(t) /\ t[j - Len(s)] = "list"
    BY <1>3, <1>5
  <2>2. i - Len(s) = j - Len(s)
    BY <2>1 DEF OneAsked
  <2>3. QED
    BY <1>2, <2>2
<1>6. QED
  BY <1>4, <1>5

\* The same of one request.
LEMMA OneAskedAppend ==
  ASSUME NEW s \in Seq(What), NEW x \in What, OneAsked(s), x = "list" => ~Asks(s, "list")
  PROVE  OneAsked(Append(s, x))
BY DEF OneAsked, Asks

\* When the list that was asked for is answered, no other is asked for.
LEMMA OneAskedTail ==
  ASSUME NEW s \in Seq(What), s # <<>>, OneAsked(s)
  PROVE  /\ OneAsked(Tail(s))
         /\ Head(s) = "list" => ~Asks(Tail(s), "list")
BY DEF OneAsked, Asks

LEMMA OneAskedFew ==
  /\ OneAsked(<<>>)
  /\ \A x : OneAsked(<<x>>)
  /\ \A x, y : x # "list" => OneAsked(<<x, y>>)
  /\ \A x, y : y # "list" => OneAsked(<<x, y>>)
BY DEF OneAsked

LEMMA OneToldAppend ==
  ASSUME NEW s \in Seq(Notice), NEW x \in Notice, OneTold(s), x.what = "list" => ~Tells(s, "list")
  PROVE  OneTold(Append(s, x))
BY DEF OneTold, Tells

LEMMA OneToldTail ==
  ASSUME NEW s \in Seq(Notice), s # <<>>, OneTold(s)
  PROVE  /\ OneTold(Tail(s))
         /\ Head(s).what = "list" => ~Tells(Tail(s), "list")
BY DEF OneTold, Tells

\* Lists stay current when an answer is appended that is, ...
LEMMA CurrentAppend ==
  ASSUME NEW s \in Seq(Notice), NEW x \in Notice, NEW nodes \in SUBSET Node,
         Current(s, nodes), x.what = "list" => x.nodes = nodes
  PROVE  Current(Append(s, x), nodes)
BY DEF Current

\* ... when the oldest is taken, which is current itself, ...
LEMMA CurrentTail ==
  ASSUME NEW s \in Seq(Notice), s # <<>>, NEW nodes \in SUBSET Node, Current(s, nodes)
  PROVE  /\ Current(Tail(s), nodes)
         /\ Head(s).what = "list" => Head(s).nodes = nodes \/ Tells(Tail(s), "event")
<1>1. /\ Len(s) \in Nat \ {0} /\ Len(Tail(s)) = Len(s) - 1
      /\ \A i \in 1 .. Len(Tail(s)) : Tail(s)[i] = s[i + 1]
      /\ Head(s) = s[1]
  BY HeadTailProperties, EmptySeq
<1>2. ASSUME NEW i \in 1 .. Len(s), NEW j \in i + 1 .. Len(s), s[j].what = "event"
      PROVE  j - 1 \in i .. Len(Tail(s)) /\ Tail(s)[j - 1].what = "event"
  BY <1>1, <1>2
<1>3. Current(Tail(s), nodes)
  <2> SUFFICES ASSUME NEW i \in 1 .. Len(Tail(s)), Tail(s)[i].what = "list",
                      Tail(s)[i].nodes # nodes
               PROVE  \E j \in i + 1 .. Len(Tail(s)) : Tail(s)[j].what = "event"
    BY DEF Current
  <2>1. i + 1 \in 1 .. Len(s) /\ s[i + 1].what = "list" /\ s[i + 1].nodes # nodes
    BY <1>1
  <2>2. PICK j \in (i + 1) + 1 .. Len(s) : s[j].what = "event"
    BY <2>1 DEF Current
  <2>3. QED
    BY <1>2, <2>1, <2>2
<1>4. ASSUME Head(s).what = "list", Head(s).nodes # nodes PROVE Tells(Tail(s), "event")
  <2>1. PICK j \in 1 + 1 .. Len(s) : s[j].what = "event"
    BY <1>1, <1>4 DEF Current
  <2>2. j - 1 \in 1 .. Len(Tail(s)) /\ Tail(s)[j - 1].what = "event"
    BY <1>1, <1>2, <2>1
  <2>3. QED
    BY <2>2 DEF Tells
<1>5. QED
  BY <1>3, <1>4

\* ... and when the network changes, for the event follows every list.
LEMMA CurrentEvent ==
  ASSUME NEW s \in Seq(Notice), NEW x \in Notice, x.what = "event", NEW nodes \in SUBSET Node
  PROVE  Current(Append(s, x), nodes)
<1>1. /\ Len(Append(s, x)) = Len(s) + 1 /\ Len(s) \in Nat
      /\ Append(s, x)[Len(s) + 1] = x
  OBVIOUS
<1>2. ASSUME NEW i \in 1 .. Len(s) + 1, Append(s, x)[i].what = "list" PROVE i <= Len(s)
  BY <1>1, <1>2
<1>3. QED
  BY <1>1, <1>2 DEF Current

-----------------------------------------------------------------------------
(* What cli.c may do. *)

\* cli_process asks for one PIB if the state machine has one to get, and adds the
\* requests the callback has made.
LEMMA ProcessFacts ==
  ASSUME toBase \in Seq(What), NEW s \in Status, NEW h, NEW made \in Seq(What),
         Process(s, h, made)
  PROVE  /\ toBase' \in Seq(What) /\ have' = h
         /\ status' = IF s \in Info THEN "wait" ELSE IF s = "create" THEN "ok" ELSE s
         /\ infoFile' = IF s = "create" THEN h ELSE infoFile
         /\ \A p : Asks(toBase', p) <=> Asks(toBase, p) \/ Asks(made, p) \/ (s \in Info /\ p = s)
<1>1. CASE s \in Info
  <2>1. status' = "wait" /\ toBase' = toBase \o Append(made, s) /\ infoFile' = infoFile /\ have' = h
    BY <1>1 DEF Process, Info
  <2>2. s \in What /\ s # "create"
    BY <1>1 DEF What, Info
  <2>3. /\ Append(made, s) \in Seq(What)
        /\ \A p : Asks(Append(made, s), p) <=> Asks(made, p) \/ p = s
    BY <2>2, AsksAppend
  <2>4. /\ toBase' \in Seq(What)
        /\ \A p : Asks(toBase', p) <=> Asks(toBase, p) \/ Asks(Append(made, s), p)
    BY <2>1, <2>3, AsksConcat
  <2>5. QED
    BY <1>1, <2>1, <2>2, <2>3, <2>4
<1>2. CASE s \notin Info
  <2>1. toBase' = toBase \o made /\ have' = h
    BY <1>2 DEF Process
  <2>2. /\ status' = IF s = "create" THEN "ok" ELSE s
        /\ infoFile' = IF s = "create" THEN h ELSE infoFile
    BY <1>2 DEF Process
  <2>3. toBase' \in Seq(What) /\ \A p : Asks(toBase', p) <=> Asks(toBase, p) \/ Asks(made, p)
    BY <2>1, AsksConcat
  <2>4. QED
    BY <1>2, <2>1, <2>2, <2>3
<1>3. QED
  BY <1>1, <1>2

\* It never asks for a list itself.
LEMMA ProcessLists ==
  ASSUME toBase \in Seq(What), NEW s \in Status, NEW h, NEW made \in Seq(What),
         Process(s, h, made),
         OneAsked(toBase), OneAsked(made), ~(Asks(toBase, "list") /\ Asks(made, "list"))
  PROVE  OneAsked(toBase')
<1>1. CASE s \in Info
  <2>1. s \in What /\ s # "list"
    BY <1>1 DEF What, Info
  <2>2. /\ Append(made, s) \in Seq(What) /\ OneAsked(Append(made, s))
        /\ Asks(Append(made, s), "list") <=> Asks(made, "list")
    BY <2>1, AsksAppend, OneAskedAppend
  <2>3. toBase' = toBase \o Append(made, s)
    BY <1>1 DEF Process, Info
  <2>4. QED
    BY <2>2, <2>3, OneAskedConcat
<1>2. CASE s \notin Info
  <2>1. toBase' = toBase \o made
    BY <1>2 DEF Process
  <2>2. QED
    BY <2>1, OneAskedConcat
<1>3. QED
  BY <1>1, <1>2

\* The flag is raised, and two lists out together are noted.
LEMMA RequestFacts ==
  ASSUME LineTypeOK, GetRegisteredNodes
  PROVE  /\ toXml' = TRUE /\ listFile' = listFile /\ overlapped' \in BOOLEAN
         /\ overlapped' = (overlapped \/ Pending("list"))
<1>1. DOMAIN toBase = 1 .. Len(toBase) /\ DOMAIN toHost = 1 .. Len(toHost)
  BY LenProperties DEF LineTypeOK
<1>2. Listing <=> Pending("list")
  BY <1>1 DEF Listing, Pending, Asks, Tells
<1>3. QED
  BY <1>2 DEF GetRegisteredNodes, LineTypeOK

LEMMA CliInitInv == CliInit => CliInv
<1> SUFFICES ASSUME CliInit PROVE CliInv
  OBVIOUS
<1>1. toBase = <<"list">> /\ toHost = <<>> /\ status = "mac"
  BY DEF CliInit
<1>2. toBase \in Seq(What) /\ toHost \in Seq(Notice)
  BY <1>1 DEF What
<1>3. LineTypeOK /\ Stages
  <2>1. changes \in 0 .. MaxChange /\ cmds \in 0 .. MaxCmd
    BY CliAssumption DEF CliInit
  <2>2. toXml \in BOOLEAN /\ overlapped \in BOOLEAN /\ lost \in BOOLEAN
    BY DEF CliInit
  <2>3. status \in Status /\ infoFile \subseteq have /\ have \in SUBSET Info
    BY DEF CliInit, Status, Info
  <2>4. QED
    BY <1>1, <1>2, <2>1, <2>2, <2>3 DEF CliInit, LineTypeOK, Stages
<1>4. FirstIsList /\ ChainHolds
  BY <1>1 DEF FirstIsList, ChainHolds, Info
<1>5. ListsCurrent
  BY <1>1 DEF ListsCurrent, Current
<1>6. OneList
  BY <1>1 DEF OneList, OneAsked, OneTold, Tells
<1>7. FlagCovered /\ FileCovered /\ FlagServed
  BY DEF CliInit, FlagCovered, FileCovered, FlagServed, Told
<1>8. QED
  BY <1>3, <1>4, <1>5, <1>6, <1>7 DEF CliInv

\* select() times out: at most the first PIB is asked for.
LEMMA TimeoutStep == ASSUME CliInv, Timeout PROVE CliInv'
<1>1. /\ Process(status, have, <<>>)
      /\ UNCHANGED <<toXml, listFile, overlapped, registered, toHost, changes, cmds, lost>>
  BY DEF Timeout, listVars
<1>2. LineTypeOK /\ Stages /\ status \in Status /\ toBase \in Seq(What) /\ <<>> \in Seq(What)
  BY DEF CliInv, LineTypeOK
<1>3. /\ toBase' \in Seq(What) /\ have' = have
      /\ status' = IF status \in Info THEN "wait" ELSE status
      /\ infoFile' = infoFile
      /\ \A p : Asks(toBase', p) <=> Asks(toBase, p) \/ (status \in Info /\ p = status)
  <2>1. status # "create"
    BY <1>2 DEF Stages
  <2>2. QED
    BY <1>1, <1>2, <2>1, ProcessFacts, AsksFew
<1>4. LineTypeOK' /\ Stages'
  BY <1>1, <1>2, <1>3 DEF LineTypeOK, Stages, Status, Info
<1>5. \A p : /\ Pending(p) => Pending(p)'
             /\ status = "mac" /\ p = "mac" => Pending(p)'
             /\ p \notin Info => (Pending(p)' <=> Pending(p))
  BY <1>1, <1>3 DEF Pending, Info
<1>6. ~lost' => FirstIsList' /\ ChainHolds'
  <2>1. CASE status = "mac"
    BY <1>1, <1>3, <1>5, <2>1 DEF FirstIsList, ChainHolds, UpTo, Info
  <2>2. CASE status \notin Info
    BY <1>1, <1>3, <1>5, <2>2 DEF CliInv, FirstIsList, ChainHolds, Info
  <2>3. QED
    BY <1>2, <2>1, <2>2 DEF Stages, Info
<1>7. ListsCurrent'
  BY <1>1 DEF CliInv, ListsCurrent
<1>8. ~overlapped' => OneList'
  <2> SUFFICES ASSUME OneList PROVE OneList'
    BY <1>1 DEF CliInv
  <2>1. OneAsked(toBase')
    BY <1>1, <1>2, ProcessLists, OneAskedFew, AsksFew DEF OneList
  <2>2. Asks(toBase', "list") <=> Asks(toBase, "list")
    BY <1>3 DEF Info
  <2>3. QED
    BY <1>1, <2>1, <2>2 DEF OneList
<1>9. /\ ~lost' /\ ~overlapped' => FlagCovered' /\ FileCovered'
      /\ ~lost' => FlagServed'
  BY <1>1, <1>5 DEF CliInv, FlagCovered, FileCovered, FlagServed, Told, Info
<1>10. QED
  BY <1>4, <1>6, <1>7, <1>8, <1>9 DEF CliInv

\* A client, or the web, asks for the list: the flag is raised for a list that is now
\* on its way.
LEMMA ListAskedStep == ASSUME CliInv, WebCommand \/ ClientList PROVE CliInv'
<1>1. /\ GetRegisteredNodes /\ cmds' \in 0 .. MaxCmd
      /\ UNCHANGED <<have, infoFile, registered, toHost, changes, lost>>
      /\ \/ status \in Info /\ toBase' = toBase \o <<status, "list">> /\ status' = "wait"
         \/ toBase' = Append(toBase, "list") /\ status' = status
  <2>1. cmds \in Int /\ MaxCmd \in Nat /\ cmds >= 0
    BY CliAssumption DEF CliInv, LineTypeOK
  <2>2. cmds < MaxCmd /\ cmds' = cmds + 1
    BY DEF WebCommand, ClientList, Command
  <2>3. cmds' \in 0 .. MaxCmd
    BY <2>1, <2>2
  <2>4. CASE WebCommand
    BY <2>3, <2>4 DEF WebCommand, infoVars
  <2>5. CASE ClientList
    BY <2>3, <2>5 DEF ClientList, infoVars
  <2>6. QED
    BY <2>4, <2>5
<1>2. LineTypeOK /\ Stages /\ toBase \in Seq(What) /\ "list" \in What
  BY DEF CliInv, LineTypeOK, What
<1>3. toXml' = TRUE /\ listFile' = listFile /\ overlapped' \in BOOLEAN
      /\ overlapped' = (overlapped \/ Pending("list"))
  BY <1>1, <1>2, RequestFacts
<1>4. CASE status \in Info /\ toBase' = toBase \o <<status, "list">> /\ status' = "wait"
  <2>1. status = "mac" /\ <<status, "list">> \in Seq(What)
    BY <1>2, <1>4 DEF Stages, Info, What
  <2>2. toBase' \in Seq(What)
        /\ \A p : Asks(toBase', p) <=> Asks(toBase, p) \/ p = "mac" \/ p = "list"
    <3>1. /\ toBase' \in Seq(What)
          /\ \A p : Asks(toBase', p) <=> Asks(toBase, p) \/ Asks(<<status, "list">>, p)
      BY <1>2, <1>4, <2>1, AsksConcat
    <3>2. QED
      BY <2>1, <3>1, AsksFew
  <2>3. LineTypeOK' /\ Stages'
    BY <1>1, <1>2, <1>3, <1>4, <2>2 DEF LineTypeOK, Stages, Status
  <2>4. Pending("mac")' /\ Pending("list")' /\ \A p : Pending(p) => Pending(p)'
    BY <1>1, <2>2 DEF Pending
  <2>5. FirstIsList' /\ ChainHolds'
    BY <1>4, <2>4 DEF FirstIsList, ChainHolds, UpTo, Info
  <2>6. ListsCurrent'
    BY <1>1 DEF CliInv, ListsCurrent
  <2>7. ~overlapped' => OneList'
    <3> SUFFICES ASSUME OneList, ~Pending("list") PROVE OneList'
      BY <1>3 DEF CliInv
    <3>1. OneAsked(toBase')
      BY <1>2, <1>4, <2>1, OneAskedConcat, OneAskedFew DEF OneList, Pending
    <3>2. QED
      BY <1>1, <3>1 DEF OneList, Pending
  <2>8. FlagCovered' /\ FileCovered' /\ FlagServed'
    BY <1>3, <2>4 DEF FlagCovered, FileCovered, FlagServed, Told
  <2>9. QED
    BY <2>3, <2>5, <2>6, <2>7, <2>8 DEF CliInv
<1>5. CASE toBase' = Append(toBase, "list") /\ status' = status
  <2>1. toBase' \in Seq(What)
        /\ \A p : Asks(toBase', p) <=> Asks(toBase, p) \/ p = "list"
    BY <1>2, <1>5, AsksAppend
  <2>2. LineTypeOK' /\ Stages'
    BY <1>1, <1>2, <1>3, <1>5, <2>1 DEF LineTypeOK, Stages
  <2>3. Pending("list")' /\ \A p : Pending(p) => Pending(p)'
    BY <1>1, <2>1 DEF Pending
  <2>4. ~lost' => FirstIsList'
    BY <1>1, <1>2, <1>5 DEF CliInv, FirstIsList
  <2>5. ~lost' => ChainHolds'
    BY <1>1, <1>5, <2>3 DEF CliInv, ChainHolds
  <2>6. ListsCurrent'
    BY <1>1 DEF CliInv, ListsCurrent
  <2>7. ~overlapped' => OneList'
    <3> SUFFICES ASSUME OneList, ~Pending("list") PROVE OneList'
      BY <1>3 DEF CliInv
    <3>1. OneAsked(toBase')
      BY <1>2, <1>5, OneAskedAppend DEF OneList, Pending
    <3>2. QED
      BY <1>1, <3>1 DEF OneList, Pending
  <2>8. FlagCovered' /\ FileCovered' /\ FlagServed'
    BY <1>3, <2>3 DEF FlagCovered, FileCovered, FlagServed, Told
  <2>9. QED
    BY <2>2, <2>4, <2>5, <2>6, <2>7, <2>8 DEF CliInv
<1>6. QED
  BY <1>1, <1>4, <1>5

\* A client reads a PIB.
LEMMA ClientGetStep ==
  ASSUME CliInv, NEW p \in Info \cup {Other}, ClientGet(p)
  PROVE  CliInv'
<1>1. /\ cmds' \in 0 .. MaxCmd /\ toBase' = Append(toBase, p)
      /\ UNCHANGED <<status, have, infoFile, toXml, listFile, overlapped, registered, toHost,
                     changes, lost>>
  BY CliAssumption DEF CliInv, LineTypeOK, ClientGet, Command, ownVars, infoVars, listVars
<1>2. LineTypeOK /\ Stages /\ toBase \in Seq(What) /\ p \in What /\ p # "list"
  BY DEF CliInv, LineTypeOK, What, Info, Other
<1>3. toBase' \in Seq(What) /\ \A q : Asks(toBase', q) <=> Asks(toBase, q) \/ q = p
  BY <1>1, <1>2, AsksAppend
<1>4. LineTypeOK' /\ Stages'
  BY <1>1, <1>2, <1>3 DEF LineTypeOK, Stages
<1>5. /\ \A q : Pending(q) => Pending(q)'
      /\ Pending("list")' <=> Pending("list")
  BY <1>1, <1>2, <1>3 DEF Pending
<1>6. ~lost' => FirstIsList'
  BY <1>1, <1>2 DEF CliInv, FirstIsList
<1>7. ~lost' => ChainHolds'
  BY <1>1, <1>5 DEF CliInv, ChainHolds
<1>8. ListsCurrent'
  BY <1>1 DEF CliInv, ListsCurrent
<1>9. ~overlapped' => OneList'
  <2> SUFFICES ASSUME OneList PROVE OneList'
    BY <1>1 DEF CliInv
  <2>1. OneAsked(toBase')
    BY <1>1, <1>2, OneAskedAppend DEF OneList
  <2>2. QED
    BY <1>1, <1>2, <1>3, <2>1 DEF OneList
<1>10. /\ ~lost' /\ ~overlapped' => FlagCovered' /\ FileCovered'
       /\ ~lost' => FlagServed'
  BY <1>1, <1>5 DEF CliInv, FlagCovered, FileCovered, FlagServed, Told
<1>11. QED
  BY <1>4, <1>6, <1>7, <1>8, <1>9, <1>10 DEF CliInv


\* The state machine follows the order of UpTo, and creates the file after the last.
LEMMA AfterFacts ==
  ASSUME NEW p \in Info
  PROVE  /\ After(p) \in Status /\ After(p) \notin {"mac", "wait", "ok", "list", "event"}
         /\ After(p) \in Info => \A f \in Info : p \in UpTo(f) => f = p \/ After(p) \in UpTo(f)
         /\ After(p) \notin Info => After(p) = "create" /\ \A f \in Info : p \in UpTo(f) => f = p
         /\ \A f \in Info : UpTo(f) \subseteq Info
BY DEF After, UpTo, Info, Status

\* What an answer takes from the line to the host, if it is neither list nor event.
LEMMA AnswerTaken ==
  ASSUME CliInv, NEW p \in Info \cup {Other},
         toHost # <<>>, Head(toHost).what = p, toHost' = Tail(toHost), registered' = registered
  PROVE  /\ toHost' \in Seq(Notice) /\ ListsCurrent'
         /\ \A w : w # p => (Tells(toHost', w) <=> Tells(toHost, w))
         /\ p \notin {"list", "event"}
         /\ OneTold(toHost) => OneTold(toHost')
         /\ ~lost => status # "mac"
<1>1. toHost \in Seq(Notice) /\ registered \in SUBSET Node /\ Current(toHost, registered)
  BY DEF CliInv, LineTypeOK, ListsCurrent
<1>2. p \notin {"list", "event"}
  BY DEF Info, Other
<1>3. toHost' \in Seq(Notice) /\ \A w : Tells(toHost, w) <=> w = p \/ Tells(toHost', w)
  BY <1>1, TellsTail
<1>4. ListsCurrent'
  BY <1>1, CurrentTail DEF ListsCurrent
<1>5. OneTold(toHost) => OneTold(toHost')
  BY <1>1, OneToldTail
<1>6. ~lost => status # "mac"
  BY <1>2 DEF CliInv, FirstIsList
<1>7. QED
  BY <1>2, <1>3, <1>4, <1>5, <1>6

\* A PIB is answered: the next request goes out in the same step, so a field that waited
\* for this answer is in, or waits for the next.
LEMMA GetCfmStep ==
  ASSUME CliInv, NEW p \in Info \cup {Other}, GetCfm(p)
  PROVE  CliInv'
<1>1. /\ toHost # <<>> /\ Head(toHost).what = p /\ toHost' = Tail(toHost)
      /\ UNCHANGED <<toXml, listFile, overlapped, registered, changes, cmds, lost>>
  BY DEF GetCfm, Arrives, listVars
<1>2. LineTypeOK /\ Stages /\ toBase \in Seq(What) /\ <<>> \in Seq(What)
      /\ status \in Status /\ have \in SUBSET Info
  BY DEF CliInv, LineTypeOK
<1>3. /\ toHost' \in Seq(Notice) /\ ListsCurrent'
      /\ \A w : w # p => (Tells(toHost', w) <=> Tells(toHost, w))
      /\ p \notin {"list", "event"}
      /\ OneTold(toHost) => OneTold(toHost')
      /\ ~lost => status # "mac"
  BY <1>1, AnswerTaken
<1>4. PICK s \in Status, h \in SUBSET Info :
        /\ Process(s, h, <<>>) /\ have \subseteq h /\ s # "list"
        /\ \/ p \in Info /\ s = After(p) /\ h = have \cup {p}
           \/ p = Other /\ s = status /\ h = have /\ s \in {"mac", "wait", "ok"}
  <2>1. CASE p \in Info /\ Process(After(p), have \cup {p}, <<>>)
    <3>1. After(p) \in Status /\ After(p) # "list" /\ have \cup {p} \in SUBSET Info
      BY <1>2, <2>1, AfterFacts
    <3>2. QED
      BY <2>1, <3>1
  <2>2. CASE p = Other /\ Process(status, have, <<>>)
    BY <1>2, <2>2 DEF Stages
  <2>3. QED
    BY <2>1, <2>2 DEF GetCfm
<1>5. /\ toBase' \in Seq(What) /\ have' = h
      /\ status' = IF s \in Info THEN "wait" ELSE IF s = "create" THEN "ok" ELSE s
      /\ infoFile' = IF s = "create" THEN h ELSE infoFile
      /\ \A q : Asks(toBase', q) <=> Asks(toBase, q) \/ (s \in Info /\ q = s)
  BY <1>2, <1>4, ProcessFacts, AsksFew
<1>6. LineTypeOK' /\ Stages' /\ status' # "mac"
  <2>1. status' \in {"wait", "ok"}
    BY <1>4, <1>5, AfterFacts DEF Status, Info
  <2>2. infoFile' \subseteq have' /\ infoFile' \in SUBSET Info /\ have' \in SUBSET Info
    BY <1>2, <1>4, <1>5 DEF LineTypeOK, Stages
  <2>3. QED
    BY <1>1, <1>2, <1>3, <1>5, <2>1, <2>2 DEF LineTypeOK, Stages, Status
<1>7. /\ \A q : q # p /\ Pending(q) => Pending(q)'
      /\ s \in Info => Pending(s)'
      /\ Pending("list")' <=> Pending("list")
      /\ Tells(toHost', "event") <=> Tells(toHost, "event")
  BY <1>3, <1>5 DEF Pending, Info
<1>8. ASSUME ~lost' PROVE FirstIsList' /\ ChainHolds'
  <2>1. FirstIsList'
    BY <1>6 DEF FirstIsList
  <2>2. /\ status \notin Info
        /\ \A f \in Info : f \in have \/ \E q \in UpTo(f) : Pending(q)
        /\ infoFile = Info \/ \E q \in Info : Pending(q)
        /\ status = "wait" => \E q \in Info : Pending(q)
    BY <1>1, <1>2, <1>3, <1>8 DEF CliInv, ChainHolds, Stages, Info
  <2>3. CASE p \in Info /\ s = After(p) /\ h = have \cup {p}
    <3>1. /\ After(p) \in Info => \A f \in Info : p \in UpTo(f) => f = p \/ After(p) \in UpTo(f)
          /\ After(p) \notin Info => After(p) = "create" /\ \A f \in Info : p \in UpTo(f) => f = p
          /\ \A f \in Info : UpTo(f) \subseteq Info
      BY <2>3, AfterFacts
    <3>2. ASSUME NEW f \in Info PROVE f \in have' \/ \E q \in UpTo(f) : Pending(q)'
      BY <1>5, <1>7, <2>2, <2>3, <3>1
    <3>3. CASE s \in Info
      BY <1>7, <2>1, <3>2, <3>3 DEF ChainHolds
    <3>4. CASE s \notin Info
      <4>1. status' = "ok" /\ infoFile' = have' /\ have' \in SUBSET Info
        BY <1>5, <2>3, <3>1, <3>4
      <4>2. infoFile' = Info \/ \E q \in Info : Pending(q)'
        BY <3>1, <3>2, <4>1
      <4>3. QED
        BY <2>1, <3>2, <4>1, <4>2 DEF ChainHolds
    <3>5. QED
      BY <3>3, <3>4
  <2>4. CASE p = Other /\ s = status /\ h = have /\ s \in {"mac", "wait", "ok"}
    <3>1. \A q \in Info : Pending(q) => Pending(q)'
      BY <1>7, <2>4 DEF Info, Other
    <3>2. status' = status /\ have' = have /\ infoFile' = infoFile
      BY <1>5, <2>2, <2>4
    <3>3. \A f \in Info : UpTo(f) \subseteq Info
      BY AfterFacts
    <3>4. QED
      BY <2>1, <2>2, <3>1, <3>2, <3>3 DEF ChainHolds
  <2>5. QED
    BY <1>4, <2>1, <2>3, <2>4
<1>9. ~overlapped' => OneList'
  <2> SUFFICES ASSUME OneList PROVE OneList'
    BY <1>1 DEF CliInv
  <2>1. OneAsked(toBase')
    BY <1>2, <1>4, ProcessLists, OneAskedFew, AsksFew DEF OneList
  <2>2. Asks(toBase', "list") <=> Asks(toBase, "list")
    BY <1>4, <1>5
  <2>3. QED
    BY <1>3, <2>1, <2>2 DEF OneList
<1>10. /\ ~lost' /\ ~overlapped' => FlagCovered' /\ FileCovered'
       /\ ~lost' => FlagServed'
  BY <1>1, <1>7 DEF CliInv, FlagCovered, FileCovered, FlagServed, Told
<1>11. QED
  BY <1>1, <1>3, <1>6, <1>8, <1>9, <1>10 DEF CliInv

\* What a callback that reads no PIB leaves of the chain: nothing is taken from it, and
\* cli_process starts it if it has not been started.
LEMMA ChainKept ==
  ASSUME CliInv, NEW made \in Seq(What), Process(status, have, made),
         \A p \in Info : Tells(toHost, p) => Tells(toHost', p), lost' = lost
  PROVE  /\ Stages' /\ status' # "mac" /\ status' \in Status
         /\ have' \in SUBSET Info /\ infoFile' \in SUBSET Info
         /\ toBase' \in Seq(What)
         /\ Asks(toBase', "list") <=> Asks(toBase, "list") \/ Asks(made, "list")
         /\ ~lost' => FirstIsList' /\ ChainHolds'
<1>1. LineTypeOK /\ Stages /\ toBase \in Seq(What) /\ status \in Status
  BY DEF CliInv, LineTypeOK
<1>2. /\ toBase' \in Seq(What) /\ have' = have
      /\ status' = IF status \in Info THEN "wait" ELSE IF status = "create" THEN "ok" ELSE status
      /\ infoFile' = IF status = "create" THEN have ELSE infoFile
      /\ \A p : Asks(toBase', p) <=>
                  Asks(toBase, p) \/ Asks(made, p) \/ (status \in Info /\ p = status)
  BY <1>1, ProcessFacts
<1>3. /\ infoFile' = infoFile
      /\ status' = IF status = "mac" THEN "wait" ELSE status
  BY <1>1, <1>2 DEF Stages, Info
<1>4. /\ status' # "mac" /\ status' \in Status /\ Stages'
      /\ have' \in SUBSET Info /\ infoFile' \in SUBSET Info
  BY <1>1, <1>2, <1>3 DEF Stages, LineTypeOK, Status
<1>5. /\ \A p \in Info : Pending(p) => Pending(p)'
      /\ status = "mac" => Pending("mac")'
  BY <1>2 DEF Pending, Info
<1>6. FirstIsList'
  BY <1>4 DEF FirstIsList
<1>7. ASSUME ~lost PROVE ChainHolds'
  <2>1. CASE status = "mac"
    BY <1>5, <2>1 DEF ChainHolds, UpTo, Info
  <2>2. CASE status # "mac"
    <3>1. status \notin Info /\ ChainHolds
      BY <1>1, <1>7, <2>2 DEF CliInv, Stages, Info
    <3>2. \A f \in Info : UpTo(f) \subseteq Info
      BY AfterFacts
    <3>3. QED
      BY <1>2, <1>3, <1>5, <2>2, <3>1, <3>2 DEF ChainHolds
  <2>3. QED
    BY <2>1, <2>2
<1>8. "list" \notin Info
  BY DEF Info
<1>9. QED
  BY <1>2, <1>4, <1>6, <1>7, <1>8

\* A list is answered: it is the base node's, or an event is behind it, so the file is
\* right, or a list will be asked for.
LEMMA ListStep == ASSUME CliInv, ListGetCfm PROVE CliInv'
<1> DEFINE nodes == Head(toHost).nodes
           write == nodes # {} /\ toXml
<1>1. /\ toHost # <<>> /\ Head(toHost).what = "list" /\ toHost' = Tail(toHost)
      /\ listFile' = IF write THEN nodes ELSE listFile
      /\ toXml' = (toXml /\ ~write)
      /\ Process(status, have, <<>>)
      /\ UNCHANGED <<overlapped, registered, changes, cmds, lost>>
  BY DEF ListGetCfm, Arrives
<1>2. LineTypeOK /\ toBase \in Seq(What) /\ toHost \in Seq(Notice) /\ <<>> \in Seq(What)
      /\ status \in Status /\ registered \in SUBSET Node /\ Current(toHost, registered)
  BY DEF CliInv, LineTypeOK, ListsCurrent
<1>3. /\ Head(toHost) \in Notice /\ toHost' \in Seq(Notice)
      /\ \A w : Tells(toHost, w) <=> w = "list" \/ Tells(toHost', w)
  BY <1>1, <1>2, TellsTail
<1>4. /\ ListsCurrent'
      /\ nodes = registered \/ Tells(toHost', "event")
  BY <1>1, <1>2, CurrentTail DEF ListsCurrent
<1>5. nodes \in SUBSET Node
  BY <1>3 DEF Notice
<1>6. /\ Stages' /\ status' \in Status
      /\ have' \in SUBSET Info /\ infoFile' \in SUBSET Info
      /\ toBase' \in Seq(What)
      /\ Asks(toBase', "list") <=> Asks(toBase, "list")
      /\ ~lost' => FirstIsList' /\ ChainHolds'
  <2>1. \A p \in Info : Tells(toHost, p) => Tells(toHost', p)
    BY <1>3 DEF Info
  <2>2. QED
    BY <1>1, <1>2, <2>1, ChainKept, AsksFew
<1>7. LineTypeOK'
  <2>1. toXml' \in BOOLEAN /\ listFile' \in SUBSET Node
    BY <1>1, <1>2, <1>5 DEF LineTypeOK
  <2>2. QED
    BY <1>1, <1>2, <1>3, <1>6, <2>1 DEF LineTypeOK
<1>8. ~overlapped' => OneList' /\ ~Pending("list")'
  <2> SUFFICES ASSUME OneList PROVE OneList' /\ ~Pending("list")'
    BY <1>1 DEF CliInv
  <2>1. OneAsked(toBase')
    BY <1>1, <1>2, ProcessLists, OneAskedFew, AsksFew DEF OneList
  <2>2. OneTold(toHost') /\ ~Tells(toHost', "list")
    BY <1>1, <1>2, OneToldTail DEF OneList
  <2>3. ~Asks(toBase', "list")
    BY <1>3, <1>6 DEF OneList
  <2>4. QED
    BY <2>1, <2>2, <2>3 DEF OneList, Pending
<1>9. ~lost' => FlagServed'
  <2>1. CASE toXml'
    <3>1. nodes = {} \/ ~toXml
      BY <1>1, <2>1
    <3>2. nodes = {}
      BY <1>1, <2>1, <3>1
    <3>3. Told'
      BY <1>1, <1>4, <3>2 DEF Told
    <3>4. QED
      BY <3>3 DEF FlagServed
  <2>2. CASE ~toXml'
    BY <2>2 DEF FlagServed
  <2>3. QED
    BY <2>1, <2>2
<1>10. ~lost' /\ ~overlapped' => FlagCovered' /\ FileCovered'
  <2> SUFFICES ASSUME ~lost, ~overlapped PROVE FlagCovered' /\ FileCovered'
    BY <1>1
  <2>1. FlagCovered'
    BY <1>1, <1>8 DEF FlagCovered
  <2>2. toXml
    BY <1>3 DEF CliInv, FlagCovered, Pending
  <2>3. nodes = {} \/ listFile' = nodes
    BY <1>1, <2>2
  <2>4. FileCovered'
    BY <1>1, <1>4, <2>3 DEF FileCovered, Told
  <2>5. QED
    BY <2>1, <2>4
<1>11. QED
  BY <1>4, <1>6, <1>7, <1>8, <1>9, <1>10 DEF CliInv

\* The network changed: the list is asked for again, with its flag.
LEMMA EventStep == ASSUME CliInv, NetworkEvent PROVE CliInv'
<1>1. /\ toHost # <<>> /\ Head(toHost).what = "event" /\ toHost' = Tail(toHost)
      /\ GetRegisteredNodes
      /\ Process(status, have, <<"list">>)
      /\ UNCHANGED <<registered, changes, cmds, lost>>
  BY DEF NetworkEvent, Arrives
<1>2. LineTypeOK /\ toBase \in Seq(What) /\ toHost \in Seq(Notice) /\ <<"list">> \in Seq(What)
      /\ status \in Status /\ registered \in SUBSET Node /\ Current(toHost, registered)
  BY DEF CliInv, LineTypeOK, ListsCurrent, What
<1>3. /\ toHost' \in Seq(Notice)
      /\ \A w : Tells(toHost, w) <=> w = "event" \/ Tells(toHost', w)
  BY <1>1, <1>2, TellsTail
<1>4. ListsCurrent'
  BY <1>1, <1>2, CurrentTail DEF ListsCurrent
<1>5. /\ toXml' = TRUE /\ listFile' = listFile /\ overlapped' \in BOOLEAN
      /\ overlapped' = (overlapped \/ Pending("list"))
  BY <1>1, <1>2, RequestFacts
<1>6. /\ Stages' /\ status' \in Status
      /\ have' \in SUBSET Info /\ infoFile' \in SUBSET Info
      /\ toBase' \in Seq(What) /\ Asks(toBase', "list")
      /\ ~lost' => FirstIsList' /\ ChainHolds'
  <2>1. \A p \in Info : Tells(toHost, p) => Tells(toHost', p)
    BY <1>3 DEF Info
  <2>2. QED
    BY <1>1, <1>2, <2>1, ChainKept, AsksFew
<1>7. LineTypeOK'
  BY <1>1, <1>2, <1>3, <1>5, <1>6 DEF LineTypeOK
<1>8. ~overlapped' => OneList'
  <2> SUFFICES ASSUME OneList, ~Pending("list") PROVE OneList'
    BY <1>5 DEF CliInv
  <2>1. OneAsked(toBase')
    BY <1>1, <1>2, ProcessLists, OneAskedFew DEF OneList, Pending
  <2>2. OneTold(toHost') /\ ~Tells(toHost', "list")
    BY <1>1, <1>2, <1>3, OneToldTail DEF OneList, Pending
  <2>3. QED
    BY <2>1, <2>2 DEF OneList
<1>9. FlagCovered' /\ FileCovered' /\ FlagServed'
  BY <1>5, <1>6 DEF FlagCovered, FileCovered, FlagServed, Told, Pending
<1>10. QED
  BY <1>4, <1>6, <1>7, <1>8, <1>9 DEF CliInv

-----------------------------------------------------------------------------
(* What the base node and the line may do. *)

\* The first of a line with one more at its end.
LEMMA HeadStays ==
  ASSUME NEW s \in Seq(Notice), NEW x \in Notice
  PROVE  /\ Append(s, x) # <<>>
         /\ Head(Append(s, x)) = IF s = <<>> THEN x ELSE Head(s)
<1>1. /\ Append(s, x) \in Seq(Notice) /\ Len(s) \in Nat
      /\ Len(Append(s, x)) = Len(s) + 1
      /\ Append(s, x)[1] = IF Len(s) = 0 THEN x ELSE s[1]
  OBVIOUS
<1>2. Append(s, x) # <<>> /\ (s = <<>> <=> Len(s) = 0)
  BY <1>1, EmptySeq
<1>3. Head(Append(s, x)) = Append(s, x)[1]
  BY <1>1, <1>2
<1>4. QED
  BY <1>1, <1>2, <1>3

\* The base node answers: what was asked for is now answered, and a list is its own.
LEMMA AnswerStep == ASSUME CliInv, Answer PROVE CliInv'
<1> DEFINE a == [what |-> Head(toBase),
                 nodes |-> IF Head(toBase) = "list" THEN registered ELSE {}]
<1>1. /\ toBase # <<>> /\ toBase' = Tail(toBase) /\ toHost' = Append(toHost, a)
      /\ UNCHANGED <<status, have, infoFile, toXml, listFile, overlapped, registered,
                     changes, cmds, lost>>
  BY DEF Answer, ownVars, infoVars, listVars
<1>2. LineTypeOK /\ Stages /\ toBase \in Seq(What) /\ toHost \in Seq(Notice)
      /\ registered \in SUBSET Node /\ Current(toHost, registered)
  BY DEF CliInv, LineTypeOK, ListsCurrent
<1>3. /\ Head(toBase) \in What /\ toBase' \in Seq(What)
      /\ \A p : Asks(toBase, p) <=> p = Head(toBase) \/ Asks(toBase', p)
  BY <1>1, <1>2, AsksTail
<1>4. a \in Notice /\ a.what = Head(toBase) /\ (a.what = "list" => a.nodes = registered)
  BY <1>2, <1>3 DEF Notice
<1> HIDE DEF a
<1>5. /\ toHost' \in Seq(Notice)
      /\ \A w : Tells(toHost', w) <=> Tells(toHost, w) \/ w = Head(toBase)
  BY <1>1, <1>2, <1>4, TellsAppend
<1>6. LineTypeOK' /\ Stages'
  BY <1>1, <1>2, <1>3, <1>5 DEF LineTypeOK, Stages
<1>7. \A p : Pending(p)' <=> Pending(p)
  BY <1>3, <1>5 DEF Pending
<1>8. Tells(toHost, "event") => Tells(toHost', "event")
  BY <1>5
<1>9. ~lost' => FirstIsList'
  <2> SUFFICES ASSUME FirstIsList PROVE FirstIsList'
    BY <1>1 DEF CliInv
  <2>1. toHost' # <<>> /\ Head(toHost') = IF toHost = <<>> THEN a ELSE Head(toHost)
    BY <1>1, <1>2, <1>4, HeadStays
  <2>2. QED
    BY <1>1, <1>4, <2>1 DEF FirstIsList
<1>10. ~lost' => ChainHolds'
  BY <1>1, <1>7 DEF CliInv, ChainHolds
<1>11. ListsCurrent'
  BY <1>1, <1>2, <1>4, CurrentAppend DEF ListsCurrent
<1>12. ~overlapped' => OneList'
  <2> SUFFICES ASSUME OneList PROVE OneList'
    BY <1>1 DEF CliInv
  <2>1. OneAsked(toBase') /\ (Head(toBase) = "list" => ~Asks(toBase', "list"))
    BY <1>1, <1>2, OneAskedTail DEF OneList
  <2>2. Head(toBase) = "list" => ~Tells(toHost, "list")
    BY <1>3 DEF OneList
  <2>3. OneTold(toHost')
    BY <1>1, <1>2, <1>4, <2>2, OneToldAppend DEF OneList
  <2>4. ~(Asks(toBase', "list") /\ Tells(toHost', "list"))
    BY <1>3, <1>5, <2>1 DEF OneList
  <2>5. QED
    BY <2>1, <2>3, <2>4 DEF OneList
<1>13. /\ ~lost' /\ ~overlapped' => FlagCovered' /\ FileCovered'
       /\ ~lost' => FlagServed'
  BY <1>1, <1>7, <1>8 DEF CliInv, FlagCovered, FileCovered, FlagServed, Told
<1>14. QED
  BY <1>6, <1>9, <1>10, <1>11, <1>12, <1>13 DEF CliInv

\* The network changes: the event follows every list already on its way.
LEMMA ChangeStep == ASSUME CliInv, NEW n \in Node, Change(n) PROVE CliInv'
<1> DEFINE e == [what |-> "event", nodes |-> {}]
<1>1. /\ changes' \in 0 .. MaxChange /\ registered' \in SUBSET Node
      /\ toHost' = Append(toHost, e)
      /\ UNCHANGED <<status, have, infoFile, toXml, listFile, overlapped, toBase, cmds, lost>>
  BY CliAssumption DEF CliInv, LineTypeOK, Change, ownVars, infoVars, listVars
<1>2. LineTypeOK /\ Stages /\ toHost \in Seq(Notice)
  BY DEF CliInv, LineTypeOK
<1>3. e \in Notice /\ e.what = "event"
  BY DEF Notice
<1> HIDE DEF e
<1>4. /\ toHost' \in Seq(Notice)
      /\ \A w : Tells(toHost', w) <=> Tells(toHost, w) \/ w = "event"
  BY <1>1, <1>2, <1>3, TellsAppend
<1>5. LineTypeOK' /\ Stages'
  BY <1>1, <1>2, <1>4 DEF LineTypeOK, Stages
<1>6. \A p : Pending(p) => Pending(p)'
  BY <1>1, <1>4 DEF Pending
<1>7. Pending("list")' => Pending("list")
  BY <1>1, <1>4 DEF Pending
<1>8. ~lost' => FirstIsList'
  <2> SUFFICES ASSUME FirstIsList PROVE FirstIsList'
    BY <1>1 DEF CliInv
  <2>1. toHost' # <<>> /\ Head(toHost') = IF toHost = <<>> THEN e ELSE Head(toHost)
    BY <1>1, <1>2, <1>3, HeadStays
  <2>2. QED
    BY <1>1, <1>3, <2>1 DEF FirstIsList
<1>9. ~lost' => ChainHolds'
  BY <1>1, <1>6 DEF CliInv, ChainHolds
<1>10. ListsCurrent'
  BY <1>1, <1>2, <1>3, CurrentEvent DEF ListsCurrent
<1>11. ~overlapped' => OneList'
  <2> SUFFICES ASSUME OneList PROVE OneList'
    BY <1>1 DEF CliInv
  <2>1. OneTold(toHost')
    BY <1>1, <1>2, <1>3, OneToldAppend DEF OneList
  <2>2. QED
    BY <1>1, <1>4, <2>1 DEF OneList
<1>12. Told'
  BY <1>4 DEF Told
<1>13. /\ ~lost' /\ ~overlapped' => FlagCovered' /\ FileCovered'
       /\ FlagServed'
  BY <1>1, <1>7, <1>12 DEF CliInv, FlagCovered, FileCovered, FlagServed
<1>14. QED
  BY <1>5, <1>8, <1>9, <1>10, <1>11, <1>13 DEF CliInv

\* A loss leaves little to keep: the types, the order of lists and events, and one list.
LEMMA LoseStep == ASSUME CliInv, Lose PROVE CliInv'
<1>1. /\ toHost # <<>> /\ toHost' = Tail(toHost) /\ lost' = TRUE
      /\ UNCHANGED <<status, have, infoFile, toXml, listFile, overlapped, registered, toBase,
                     changes, cmds>>
  BY DEF Lose, ownVars, infoVars, listVars
<1>2. LineTypeOK /\ Stages /\ toHost \in Seq(Notice)
      /\ registered \in SUBSET Node /\ Current(toHost, registered)
  BY DEF CliInv, LineTypeOK, ListsCurrent
<1>3. /\ toHost' \in Seq(Notice)
      /\ \A w : Tells(toHost', w) => Tells(toHost, w)
  BY <1>1, <1>2, TellsTail
<1>4. LineTypeOK' /\ Stages'
  BY <1>1, <1>2, <1>3 DEF LineTypeOK, Stages
<1>5. ListsCurrent'
  BY <1>1, <1>2, CurrentTail DEF ListsCurrent
<1>6. ~overlapped' => OneList'
  <2> SUFFICES ASSUME OneList PROVE OneList'
    BY <1>1 DEF CliInv
  <2>1. OneTold(toHost')
    BY <1>1, <1>2, OneToldTail DEF OneList
  <2>2. QED
    BY <1>1, <1>3, <2>1 DEF OneList
<1>7. QED
  BY <1>1, <1>4, <1>5, <1>6 DEF CliInv

\* The invariant holds of every behaviour.
THEOREM CliInvariant == CliSpec => []CliInv
<1>1. CliInv /\ [CliNext]_cliVars => CliInv'
  <2> SUFFICES ASSUME CliInv, [CliNext]_cliVars PROVE CliInv'
    OBVIOUS
  <2>1. CASE UNCHANGED cliVars
    BY <2>1 DEF cliVars, ownVars, infoVars, listVars, baseVars, CliInv, LineTypeOK, Stages,
       FirstIsList, ChainHolds, ListsCurrent, OneList, FlagCovered, FileCovered, FlagServed,
       Told, Pending
  <2>2. CASE Timeout \/ WebCommand \/ ClientList
    BY <2>2, TimeoutStep, ListAskedStep
  <2>3. ASSUME NEW p \in Info \cup {Other}, ClientGet(p) \/ GetCfm(p) PROVE CliInv'
    BY <2>3, ClientGetStep, GetCfmStep
  <2>4. CASE ListGetCfm \/ NetworkEvent
    BY <2>4, ListStep, EventStep
  <2>5. CASE Answer \/ Lose
    BY <2>5, AnswerStep, LoseStep
  <2>6. ASSUME NEW n \in Node, Change(n) PROVE CliInv'
    BY <2>6, ChangeStep
  <2>7. QED
    BY <2>1, <2>2, <2>3, <2>4, <2>5, <2>6 DEF CliNext
<1>2. QED
  BY CliInitInv, <1>1, PTL DEF CliSpec

-----------------------------------------------------------------------------
(* What it says of the files. *)

\* The state machine, the files and the two lines keep their types.
THEOREM CliTypeCorrect == CliSpec => []CliTypeOK
<1>1. CliInv => CliTypeOK
  <2> SUFFICES ASSUME CliInv PROVE CliTypeOK
    OBVIOUS
  <2>1. LineTypeOK
    BY DEF CliInv
  <2>2. \A i \in DOMAIN toBase : toBase[i] \in Info \cup {Other, "list"}
    BY <2>1, LenProperties, ElementOfSeq DEF LineTypeOK, What
  <2>3. ASSUME NEW i \in DOMAIN toHost
        PROVE  /\ toHost[i].what \in Info \cup {Other, "list", "event"}
               /\ toHost[i].nodes \in SUBSET Node
    <3>1. toHost[i] \in Notice
      BY <2>1, LenProperties, ElementOfSeq DEF LineTypeOK
    <3>2. QED
      BY <3>1 DEF Notice, What
  <2>4. QED
    BY <2>1, <2>2, <2>3 DEF LineTypeOK, CliTypeOK
<1>2. QED
  BY <1>1, CliInvariant, PTL

\* With all answered, nothing is pending.
LEMMA QuietFacts ==
  ASSUME Quiet
  PROVE  status \notin Info /\ (\A p : ~Pending(p)) /\ ~Tells(toHost, "event")
BY DEF Quiet, Pending, Asks, Tells

\* However clients' reads push the state machine about, once all is answered the file
\* describes the base node in full and the machine is at rest.
THEOREM InfoAlwaysComplete == CliSpec => []InfoComplete
<1>1. CliInv => InfoComplete
  <2> SUFFICES ASSUME CliInv, Quiet, ~lost PROVE status = "ok" /\ infoFile = Info
    BY DEF InfoComplete
  <2>1. status \notin Info /\ \A p : ~Pending(p)
    BY QuietFacts
  <2>2. infoFile = Info /\ status # "wait"
    BY <2>1 DEF CliInv, ChainHolds
  <2>3. QED
    BY <2>1, <2>2 DEF CliInv, Stages, Info
<1>2. QED
  BY <1>1, CliInvariant, PTL

\* Once all is answered, the list file shows the registered nodes, if no two requests
\* for the list were out together.
THEOREM ListAlwaysFresh == CliSpec => []ListFresh
<1>1. CliInv => ListFresh
  BY QuietFacts DEF CliInv, FileCovered, Told, ListFresh
<1>2. QED
  BY <1>1, CliInvariant, PTL

\* The flag does not outlive the requests it was set for, however many were out together,
\* while somebody is registered.
THEOREM FlagAlwaysServed == CliSpec => []FlagIsServed
<1>1. CliInv => FlagIsServed
  BY QuietFacts DEF CliInv, FlagServed, Told, FlagIsServed
<1>2. QED
  BY <1>1, CliInvariant, PTL
=============================================================================

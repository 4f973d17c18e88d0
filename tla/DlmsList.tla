------------------------------ MODULE DlmsList ------------------------------
(***************************************************************************)
(* The management layer's list as it enters DLMSoTCP's table of meters:    *)
(* MngLayer and DlmsNodes side by side.  An answer handed to DLMSoTCP's    *)
(* callback fills the table in the same step, between any two joins,       *)
(* leaves and commands.  The emulator's start commands race it for the     *)
(* answers, and may take the page of the table away.                       *)
(***************************************************************************)
EXTENDS MngLayer, DlmsNodes

CONSTANT
  NodeOf     \* the meter of each record, or NoAddr for a broadcast connection

ASSUME ListAssumption == NodeOf \in [0 .. NumRec - 1 -> Node \cup {NoAddr}]

listVars == <<mngVars, nodesVars>>

ListInit == MngInit /\ NodesInit

\* "Broadcast connection, ignore"
NodesOf(from) == {NodeOf[k] : k \in Page(from)} \cap Node

\* the callback DLMSoTCP registered is given a page
FillsTable == owner = DlmsOTcp /\ Head(wire).what = "list"

Answered ==
  /\ Received
  /\ IF FillsTable THEN ListPage(NodesOf(Head(wire).from)) ELSE UNCHANGED nodesVars

\* queries of the emulator, and what the serial line does to them
QueryStep == (StartCycles \/ LoseQuery) /\ UNCHANGED nodesVars

\* the base node's indications and the concentrator's commands
NodeStep ==
  /\ \/ \E n \in Node : JoinInd(n) \/ LeaveInd(n)
     \/ EnableNotifications \/ OtherData \/ ClientConnects \/ ClientGone
     \/ \E n \in Node : Delete(n) \/ EnableAutoClose(n) \/ DisableAutoClose(n)
  /\ UNCHANGED mngVars

ListNext == Answered \/ QueryStep \/ NodeStep

ListSpec == ListInit /\ [][ListNext]_listVars

-----------------------------------------------------------------------------
\* Type invariant.
ListTypeOK == MngTypeOK /\ NodesTypeOK
=============================================================================

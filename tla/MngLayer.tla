------------------------------ MODULE MngLayer ------------------------------
(***************************************************************************)
(* ifaceMngLayer.c and its two users.  DLMSoTCP asks the base node for the *)
(* list of connected nodes when the daemon starts, and for the base node's *)
(* own address at the end of the list; the DLMS emulator asks for the list *)
(* whenever its client starts the cycles.  The list comes in pages, and a  *)
(* page that is full is followed by a query for the next.                  *)
(*                                                                         *)
(* An answer does not say whom it is for: the layer keeps the id of the    *)
(* application that asked last.  Record k of the list has iterator k.      *)
(***************************************************************************)
EXTENDS Integers, Sequences, FiniteSets

CONSTANTS
  DlmsOTcp, Emu,   \* the two applications with a response callback
  Invalid,         \* MNGP_API_INVALID
  PageLen,         \* MNGP_PRIME_ENHANCED_LIST_MAX_RECORDS, 30 in the code
  NumRec,          \* records in the base node's list
  MaxStart         \* bound: START_CYCLES commands

ASSUME MngAssumption ==
  /\ DlmsOTcp # Emu /\ Invalid \notin {DlmsOTcp, Emu}
  /\ PageLen \in Nat \ {0} /\ NumRec \in Nat /\ MaxStart \in Nat

Asker == {DlmsOTcp, Emu}

VARIABLES
  owner,     \* suc_mngp_id_req
  wire,      \* queries the base node has not answered, oldest first
  listed,    \* records each application has put in its table
  macKnown,  \* puc_mac_address is not all zeroes
  queries,   \* queries each application has sent
  handled,   \* calls of each application's response callback
  starts,    \* START_CYCLES commands the emulator got
  cycles     \* cycles its callback started

mngVars == <<owner, wire, listed, macKnown, queries, handled, starts, cycles>>

ListQuery(from) == [what |-> "list", from |-> from]
MacQuery        == [what |-> "mac", from |-> 0]

Query == [what : {"list", "mac"}, from : Nat]

Page(from) == {k \in 0 .. NumRec - 1 : from <= k /\ k < from + PageLen}

\* dlmsotcp_init sends the first query; dlms_emu_init only registers.
MngInit ==
  /\ owner = DlmsOTcp /\ wire = <<ListQuery(0)>>
  /\ listed = [a \in Asker |-> {}] /\ macKnown = FALSE
  /\ queries = [a \in Asker |-> IF a = DlmsOTcp THEN 1 ELSE 0]
  /\ handled = [a \in Asker |-> 0]
  /\ starts = 0 /\ cycles = 0

\* mngLay_NewMsg, mngLay_Add..., mngLay_SendMsg: what they do to queries and wire.
\* A query that does not fit in the serial buffer is lost there: see LoseQuery.
Send(a, q, rest) ==
  /\ wire' = Append(rest, q)
  /\ queries' = [queries EXCEPT ![a] = @ + 1]

NoSend(rest) == wire' = rest /\ UNCHANGED queries

\* Fault: the cycles are started at once, and again when the list has come.
StartsAtOnce ==
  /\ starts < MaxStart
  /\ starts' = starts + 1
  /\ Send(Emu, ListQuery(0), wire)
  /\ owner' = Emu /\ cycles' = cycles + 1
  /\ UNCHANGED <<listed, macKnown, handled>>

\* _update_nodes_list, on the client's START_CYCLES
StartCycles ==
  /\ starts < MaxStart
  /\ starts' = starts + 1
  /\ Send(Emu, ListQuery(0), wire)
  /\ owner' = Emu
  /\ UNCHANGED <<listed, macKnown, handled, cycles>>

-----------------------------------------------------------------------------
(* The response callbacks, on the answer to q. *)

Records(a, q) == listed' = [listed EXCEPT ![a] = @ \cup Page(q.from)]

FullPage(q) == Cardinality(Page(q.from)) = PageLen

\* _dlmsotcp_mngp_rsp_cb
DlmsRsp(q, rest) ==
  /\ IF q.what = "mac"
     THEN macKnown' = TRUE /\ NoSend(rest) /\ UNCHANGED listed
     ELSE /\ Records(DlmsOTcp, q) /\ UNCHANGED macKnown
          /\ IF FullPage(q) THEN Send(DlmsOTcp, ListQuery(q.from + PageLen), rest)
             ELSE IF ~macKnown THEN Send(DlmsOTcp, MacQuery, rest)
             ELSE NoSend(rest)
  /\ UNCHANGED cycles

\* _dlms_mngp_rsp_cb: the last page starts a cycle
EmuRsp(q, rest) ==
  /\ IF q.what = "mac" THEN NoSend(rest) /\ UNCHANGED <<listed, cycles>>
     ELSE /\ Records(Emu, q)
          /\ IF FullPage(q)
             THEN Send(Emu, ListQuery(q.from + PageLen), rest) /\ UNCHANGED cycles
             ELSE NoSend(rest) /\ cycles' = cycles + 1
  /\ UNCHANGED macKnown

\* Fault: the owner is kept after its callback.
ReceivedKeepsOwner ==
  /\ wire # <<>> /\ owner \in Asker
  /\ \/ owner = DlmsOTcp /\ DlmsRsp(Head(wire), Tail(wire))
     \/ owner = Emu /\ EmuRsp(Head(wire), Tail(wire))
  /\ handled' = [handled EXCEPT ![owner] = @ + 1]
  /\ UNCHANGED <<owner, starts>>

\* mngLay_receivedCmd: the callback may have sent a query and so claimed the
\* next answer, but the owner is cleared after it returns.
ReceivedCmd ==
  /\ wire # <<>> /\ owner \in Asker
  /\ \/ owner = DlmsOTcp /\ DlmsRsp(Head(wire), Tail(wire))
     \/ owner = Emu /\ EmuRsp(Head(wire), Tail(wire))
  /\ handled' = [handled EXCEPT ![owner] = @ + 1]
  /\ owner' = Invalid
  /\ UNCHANGED starts

\* An answer nobody owns is dropped.
ReceivedNoOwner ==
  /\ wire # <<>> /\ owner = Invalid
  /\ NoSend(Tail(wire))
  /\ UNCHANGED <<owner, listed, macKnown, handled, starts, cycles>>

\* A query or its answer does not survive the serial line.
LoseQuery ==
  /\ wire # <<>>
  /\ NoSend(Tail(wire))
  /\ UNCHANGED <<owner, listed, macKnown, handled, starts, cycles>>

Received == ReceivedCmd \/ ReceivedNoOwner

MngNext == StartCycles \/ Received \/ LoseQuery

MngSpec == MngInit /\ [][MngNext]_mngVars

\* The base node answers every query; the loop hands every answer over.
AnsweredSpec ==
  MngInit /\ [][StartCycles \/ Received]_mngVars /\ WF_mngVars(Received)

-----------------------------------------------------------------------------
\* Type invariant.
MngTypeOK ==
  /\ owner \in Asker \cup {Invalid} /\ wire \in Seq(Query)
  /\ listed \in [Asker -> SUBSET (0 .. NumRec - 1)] /\ macKnown \in BOOLEAN
  /\ queries \in [Asker -> Nat] /\ handled \in [Asker -> Nat]
  /\ starts \in Nat /\ cycles \in Nat

\* However the two applications' queries and answers cross, and however many are
\* lost, no application is called back more often than it has asked.
HandledOnce == \A a \in Asker : handled[a] <= queries[a]

\* A START_CYCLES starts one chain of requests at most: the answer to somebody
\* else's query may start it in place of the emulator's own, never in addition.
OneCyclePerStart == cycles <= starts

\* "Request next elements on the list" (dlmsotcp.c:687): with no answer lost,
\* DLMSoTCP gets to know all of it.
NodeListArrives == <>(listed[DlmsOTcp] = 0 .. NumRec - 1)
=============================================================================

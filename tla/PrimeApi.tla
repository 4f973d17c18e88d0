------------------------------ MODULE PrimeApi ------------------------------
(***************************************************************************)
(* ifacePrime_api.c as its users meet it.  An application calls            *)
(* ifacePrime_select_api and then a request; confirms and most indications *)
(* go to the callback of the application selected when they arrive, some   *)
(* indications to every application.  The CLI, DLMSoTCP and the DLMS       *)
(* emulator share it; the emulator's timers run in a signal handler, which *)
(* may come between another application's selection and its request.       *)
(*                                                                         *)
(* A frame is the kind of its command.  Each application has one request   *)
(* of each kind with the base node at a time: the bound of the model.      *)
(***************************************************************************)
CONSTANTS Cli, DlmsOTcp, Emu,   \* application ids
          Nobody                \* no application: PRIME_API_INVALID

ASSUME ApiAssumption ==
  /\ Cli # DlmsOTcp /\ Cli # Emu /\ DlmsOTcp # Emu
  /\ Nobody \notin {Cli, DlmsOTcp, Emu}

User == {Cli, DlmsOTcp, Emu}

\* The requests the applications make ...
Makes(a) == CASE a = Cli      -> {"get", "set", "list", "version"}
              [] a = DlmsOTcp -> {"data", "release"}
              [] a = Emu      -> {"data"}

\* ... and who has a callback for the answer to each.  The reply to a data request
\* is the meter's, a data indication that follows the confirm.
Registered(what) == CASE what \in {"get", "set", "list", "version"} -> {Cli}
                      [] what \in {"data", "reply"} -> {DlmsOTcp, Emu}
                      [] what = "release" -> {}

Request == UNION {[app : {a}, what : Makes(a)] : a \in User}
Open    == Request \cup [app : {DlmsOTcp, Emu}, what : {"reply"}]
Idle    == [app |-> Nobody, what |-> "none"]

VARIABLES
  selected,    \* suc_prime_app_id_req
  inCall,      \* the request the main thread has selected for and not yet sent
  asked,       \* requests the base node, or the meter, has still to answer
  overlapped,  \* an application selected itself while another's answer was due
  misrouted    \* the answer of the last step, when it missed the application it is for

apiVars == <<selected, inCall, asked, overlapped, misrouted>>

\* cli_init asks for the node list; nothing else uses the API before the loop.
ApiInit ==
  /\ selected = Cli /\ inCall = Idle
  /\ asked = {[app |-> Cli, what |-> "list"]}
  /\ overlapped = FALSE /\ misrouted = {}

-----------------------------------------------------------------------------
(* Requests. *)

Others(a) == {r \in asked : r.app # a}

\* ifacePrime_select_api
Select(a) ==
  /\ selected' = a
  /\ overlapped' = (overlapped \/ Others(a) # {} \/ inCall.app \notin {a, Nobody})

\* The main thread: the selection ...
Call(r) ==
  /\ inCall = Idle /\ r \notin asked
  /\ Select(r.app)
  /\ inCall' = r
  /\ asked' = asked /\ misrouted' = {}

EmuRequest == [app |-> Emu, what |-> "data"]

\* ... and the request itself, which may be lost.  The timer handler may have put its
\* own request in the buffer meanwhile: see UsiSend.
SendRequest ==
  /\ inCall # Idle
  /\ \E sent \in SUBSET (IF overlapped THEN {inCall, EmuRequest} ELSE {inCall}) :
       asked' = asked \cup sent
  /\ inCall' = Idle
  /\ misrouted' = {}
  /\ UNCHANGED <<selected, overlapped>>

\* _timer_handler: the emulator's next request, wherever the main thread is
EmuTimer ==
  /\ EmuRequest \notin asked
  /\ Select(Emu)
  /\ asked' \in {asked, asked \cup {EmuRequest}}
  /\ misrouted' = {} /\ UNCHANGED inCall

-----------------------------------------------------------------------------
(* ifacePrime_api_ReceivedCmd. *)

\* Fault: the selected application is called, registered or not.
CalleeUnchecked(what) == selected

Callee(what) == IF selected \in Registered(what) THEN selected ELSE Nobody

Route(r) ==
  misrouted' = IF r.app \in Registered(r.what) /\ Callee(r.what) # r.app
               THEN {[for |-> r, to |-> Callee(r.what)]}
               ELSE {}

\* Fault: the selection is cleared once an answer has been handed over.
AnswerDeselects(r) ==
  /\ inCall = Idle /\ r \in asked /\ r.what # "data"
  /\ asked' = asked \ {r}
  /\ Route(r)
  /\ selected' = Nobody
  /\ UNCHANGED <<inCall, overlapped>>

\* A confirm or an indication for the application selected.
Answer(r) ==
  /\ inCall = Idle /\ r \in asked /\ r.what # "data"
  /\ asked' = asked \ {r}
  /\ Route(r)
  /\ UNCHANGED <<selected, inCall, overlapped>>

ReplyTo(r) == [app |-> r.app, what |-> "reply"]

\* A data confirm.  The meter may reply later.  DLMSoTCP's callback, when more
\* messages wait, goes on to request the next.
DataCfm(r) ==
  /\ inCall = Idle /\ r \in asked /\ r.what = "data"
  /\ \E replies \in SUBSET {ReplyTo(r)} : asked' = (asked \ {r}) \cup replies
  /\ Route(r)
  /\ \/ UNCHANGED <<selected, overlapped, inCall>>
     \/ /\ Callee("data") = DlmsOTcp
        /\ inCall' = [app |-> DlmsOTcp, what |-> "data"]
        /\ selected' = DlmsOTcp
        /\ overlapped' = (overlapped \/ \E o \in asked' : o.app # DlmsOTcp)

\* A network event goes to every callback; the CLI's asks for the node list.
NetworkInd ==
  /\ inCall = Idle
  /\ Select(Cli)
  /\ inCall' = [app |-> Cli, what |-> "list"]
  /\ asked' = asked /\ misrouted' = {}

ApiNext ==
  \/ \E r \in Request : Call(r)
  \/ SendRequest \/ EmuTimer \/ NetworkInd
  \/ \E r \in asked : Answer(r) \/ DataCfm(r)

ApiSpec == ApiInit /\ [][ApiNext]_apiVars

-----------------------------------------------------------------------------
\* Type invariant.
ApiTypeOK ==
  /\ selected \in User \cup {Nobody} /\ inCall \in Request \cup {Idle}
  /\ asked \in SUBSET Open
  /\ overlapped \in BOOLEAN
  /\ misrouted \in SUBSET [for : Open, to : User \cup {Nobody}]

\* One selected application is enough as long as no application starts a request
\* while another's answer is due: an answer that goes astray needs an overlap.
AstrayNeedsOverlap == ~overlapped => misrouted = {}

\* An answer is never given to an application that has no callback of its kind: the
\* CLI never sees DLMS data, DLMSoTCP and the emulator never see a PIB.
StrayStaysInFamily == \A m \in misrouted : m.to # Nobody => {m.to, m.for.app} = {DlmsOTcp, Emu}

\* "New DLMS data arrived, forward it to the client" (dlmsotcp.c:406): what a meter
\* sends back to DLMSoTCP's request reaches DLMSoTCP.
DlmsReplyArrives == \A m \in misrouted : m.for # [app |-> DlmsOTcp, what |-> "reply"]
=============================================================================

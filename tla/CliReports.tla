----------------------------- MODULE CliReports -----------------------------
(***************************************************************************)
(* cli.c: the two files the daemon keeps for the web pages.  One describes *)
(* the base node, from four PIBs read one after the other; the other lists *)
(* the registered nodes, and is rewritten when the network changes, or     *)
(* when a client or the web asks for it.                                   *)
(*                                                                         *)
(* Neither answer says who asked: the PIBs a client gets pass through the  *)
(* same callback, and one flag says whether a list is meant for the file.  *)
(***************************************************************************)
EXTENDS Sequences, Naturals

CONSTANTS
  Node,        \* nodes that may register
  MaxChange,   \* bound: registrations and departures
  MaxCmd       \* bound: commands of clients and of the web

ASSUME CliAssumption == MaxChange \in Nat /\ MaxCmd \in Nat

Info   == {"mac", "fwv", "vid", "pid"}   \* fields of x_cli_prime_info_t
Other  == "other"                        \* a PIB the callback does not know
Status == Info \cup {"wait", "create", "ok"}

VARIABLES
  status,      \* suc_info_status: the PIB to get, or wait, create, ok
  have,        \* fields of sx_prime_info that have been answered
  infoFile,    \* the fields in prime_info.xml
  toXml,       \* sb_update_to_xml
  listFile,    \* the nodes in nodelist.xml
  registered,  \* the base node's list
  toBase,      \* requests on their way
  toHost,      \* answers and events on their way
  changes, cmds,
  overlapped,  \* a list was requested while another was on its way
  lost         \* an answer or event never came, or came empty

infoVars == <<have, infoFile>>
listVars == <<toXml, listFile, overlapped>>
ownVars  == <<status, infoVars, listVars>>
baseVars == <<registered, toBase, toHost>>
cliVars  == <<ownVars, baseVars, changes, cmds, lost>>

\* cli_init
CliInit ==
  /\ status = "mac" /\ have = {} /\ infoFile = {}
  /\ toXml = TRUE /\ toBase = <<"list">> /\ listFile = {}
  /\ registered = {} /\ toHost = <<>>
  /\ changes = 0 /\ cmds = 0 /\ overlapped = FALSE /\ lost = FALSE

-----------------------------------------------------------------------------
(* What cli.c does when it is called. *)

Listing ==
  (\E i \in DOMAIN toBase : toBase[i] = "list")
  \/ (\E i \in DOMAIN toHost : toHost[i].what = "list")

\* Fault: the flag is not set.
GetsNoFile ==
  /\ UNCHANGED <<toXml, listFile>>
  /\ overlapped' = (overlapped \/ Listing)

\* _get_registered_nodes; the request itself is appended by whoever calls it
GetRegisteredNodes ==
  /\ toXml' = TRUE /\ UNCHANGED listFile
  /\ overlapped' = (overlapped \/ Listing)

\* cli_process, on the status s and the fields h a callback has left, with the
\* requests it has made
Process(s, h, made) ==
  /\ have' = h
  /\ \/ /\ s \in Info
        /\ status' = "wait" /\ toBase' = toBase \o Append(made, s)
        /\ UNCHANGED infoFile
     \/ /\ s = "create"
        /\ status' = "ok" /\ infoFile' = h
        /\ toBase' = toBase \o made
     \/ /\ s \in {"wait", "ok"}
        /\ status' = s /\ toBase' = toBase \o made
        /\ UNCHANGED infoFile

\* select() timed out
Timeout ==
  /\ Process(status, have, <<>>)
  /\ UNCHANGED <<listVars, registered, toHost, changes, cmds, lost>>

Command == cmds < MaxCmd /\ cmds' = cmds + 1

\* the web's message.txt asks for the list
WebCommand ==
  /\ Command
  /\ \/ status \in Info /\ toBase' = toBase \o <<status, "list">> /\ status' = "wait"
     \/ status \notin Info /\ toBase' = Append(toBase, "list") /\ UNCHANGED status
  /\ GetRegisteredNodes
  /\ UNCHANGED <<infoVars, registered, toHost, changes, lost>>

\* _cli_rcv_cmd, which cli_process does not follow
ClientList ==
  /\ Command
  /\ GetRegisteredNodes /\ toBase' = Append(toBase, "list")
  /\ UNCHANGED <<status, infoVars, registered, toHost, changes, lost>>

ClientGet(p) ==
  /\ Command
  /\ toBase' = Append(toBase, p)
  /\ UNCHANGED <<ownVars, registered, toHost, changes, lost>>

-----------------------------------------------------------------------------
(* What comes from the base node: usi_host_process, then cli_process. *)

Arrives(what) ==
  /\ toHost # <<>> /\ Head(toHost).what = what
  /\ toHost' = Tail(toHost)
  /\ UNCHANGED <<registered, changes, cmds, lost>>

\* Fault: the vendor id is not asked for.
AfterSkips(p) ==
  CASE p = "mac" -> "fwv" [] p = "fwv" -> "pid" [] p = "vid" -> "pid" [] p = "pid" -> "create"

After(p) ==
  CASE p = "mac" -> "fwv" [] p = "fwv" -> "vid" [] p = "vid" -> "pid" [] p = "pid" -> "create"

\* Fault: whatever has been read is kept.
GetCfmKeepsAny(p) ==
  /\ Arrives(p)
  /\ Process(IF p = Other THEN status ELSE After(p), have \cup {p}, <<>>)
  /\ UNCHANGED listVars

\* _prime_cl_null_mlme_get_cfm_cb, for the daemon's own request or a client's
GetCfm(p) ==
  /\ Arrives(p)
  /\ \/ p \in Info /\ Process(After(p), have \cup {p}, <<>>)
     \/ p = Other /\ Process(status, have, <<>>)
  /\ UNCHANGED listVars

\* Fault: the flag stays set.
ListKeepsFlag ==
  /\ Arrives("list")
  /\ listFile' = IF toXml THEN Head(toHost).nodes ELSE listFile
  /\ Process(status, have, <<>>)
  /\ UNCHANGED <<toXml, overlapped>>

\* _prime_cl_null_mlme_list_get_cfm_cb: an empty list is ignored; the first one
\* that is not goes to the file and takes the flag; any other is told to a client.
ListGetCfm ==
  /\ Arrives("list")
  /\ LET nodes == Head(toHost).nodes
         write == nodes # {} /\ toXml
     IN /\ listFile' = IF write THEN nodes ELSE listFile
        /\ toXml' = (toXml /\ ~write)
  /\ Process(status, have, <<>>)
  /\ UNCHANGED overlapped

\* _network_event_ind_cb
NetworkEvent ==
  /\ Arrives("event")
  /\ GetRegisteredNodes
  /\ Process(status, have, <<"list">>)

-----------------------------------------------------------------------------
(* The base node: it answers in order, and tells of every change. *)

Answer ==
  /\ toBase # <<>> /\ toBase' = Tail(toBase)
  /\ toHost' = Append(toHost,
       [what |-> Head(toBase), nodes |-> IF Head(toBase) = "list" THEN registered ELSE {}])
  /\ UNCHANGED <<ownVars, registered, changes, cmds, lost>>

Change(n) ==
  /\ changes < MaxChange /\ changes' = changes + 1
  /\ registered' = IF n \in registered THEN registered \ {n} ELSE registered \cup {n}
  /\ toHost' = Append(toHost, [what |-> "event", nodes |-> {}])
  /\ UNCHANGED <<ownVars, toBase, cmds, lost>>

\* Lost on the line, without a value, or routed to another application.
Lose ==
  /\ toHost # <<>> /\ toHost' = Tail(toHost)
  /\ lost' = TRUE
  /\ UNCHANGED <<ownVars, registered, toBase, changes, cmds>>

CliNext ==
  \/ Timeout \/ WebCommand \/ ClientList
  \/ \E p \in Info \cup {Other} : ClientGet(p) \/ GetCfm(p)
  \/ ListGetCfm \/ NetworkEvent
  \/ Answer \/ Lose
  \/ \E n \in Node : Change(n)

CliSpec == CliInit /\ [][CliNext]_cliVars

-----------------------------------------------------------------------------
\* Type invariant.
CliTypeOK ==
  /\ status \in Status
  /\ have \in SUBSET Info /\ infoFile \in SUBSET Info
  /\ toXml \in BOOLEAN /\ overlapped \in BOOLEAN /\ lost \in BOOLEAN
  /\ listFile \in SUBSET Node /\ registered \in SUBSET Node
  /\ \A i \in DOMAIN toBase : toBase[i] \in Info \cup {Other, "list"}
  /\ \A i \in DOMAIN toHost :
       /\ toHost[i].what \in Info \cup {Other, "list", "event"}
       /\ toHost[i].nodes \in SUBSET Node
  /\ changes \in 0 .. MaxChange /\ cmds \in 0 .. MaxCmd

Quiet == toBase = <<>> /\ toHost = <<>> /\ status \notin Info

\* However clients' own reads of the same PIBs push the state machine about (it
\* may create the file early, or start again), once all is answered the file has
\* the four fields and the machine is at rest.
InfoComplete == Quiet /\ ~lost => status = "ok" /\ infoFile = Info

\* Once all is answered the list file shows the registered nodes, if no two
\* requests for the list were ever out together and the list is not empty.
ListFresh == Quiet /\ ~lost /\ ~overlapped /\ registered # {} => listFile = registered

\* The flag never outlives the requests it was set for, overlapped or not, unless
\* the base node has said that nobody is registered: a flag left set would divert
\* the answer to somebody else's request to the file.
FlagIsServed == Quiet /\ ~lost /\ toXml => registered = {}

\* An UPDATE_NODE_LIST is to "create an xml file with the content of the
\* registered node list" (cli.h:28).
ListUpToDate == Quiet /\ ~lost => listFile = registered
=============================================================================

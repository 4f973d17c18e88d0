----------------------------- MODULE DlmsNodes -----------------------------
(***************************************************************************)
(* dlmsotcp.c: the table of meters (432 connections) and what the          *)
(* concentrator is told of it.  Joins and leaves come from the base node,  *)
(* list pages from the management layer, commands and the end of the       *)
(* connection from the concentrator.  "view" is what the concentrator can  *)
(* conclude from the notices of its present connection.                    *)
(***************************************************************************)
EXTENDS Naturals, FiniteSets

CONSTANTS
  Node,      \* indices of x_list_nodes_connected the model uses
  NoAddr,    \* CL_432_INVALID_ADDRESS
  Wrap       \* autoclose_enabled is a uint8_t: 256 in the code

ASSUME NodesAssumption == NoAddr \notin Node /\ Wrap \in Nat \ {0, 1, 2}

VARIABLES
  valid,     \* nodes whose dst_address is not CL_432_INVALID_ADDRESS
  autoclose, \* autoclose_enabled of each node
  link,      \* "none", "quiet" (accepted, nothing received), "live" (si_dlmsoctp_data_fd)
  notify,    \* i_enable_notifications
  asked,     \* command 3 has come over this connection
  view,      \* nodes the concentrator has been told of and not told to forget
  released,  \* prime_cl_432_release_request made in the last step
  muted,     \* nodes that had the autoclose flag at, or since, the last command 3
  paged      \* nodes that came in a list page since the last command 3

nodesVars == <<valid, autoclose, link, notify, asked, view, released, muted, paged>>

NodesInit ==
  /\ valid = {} /\ autoclose = [n \in Node |-> 0]
  /\ link = "none" /\ notify = FALSE /\ asked = FALSE /\ view = {}
  /\ released = {} /\ muted = {} /\ paged = {}

\* what every notice is subject to: si_dlmsoctp_data_fd > 0 and the flag
Notifying == link = "live" /\ notify

-----------------------------------------------------------------------------
(* From the base node. *)

\* _dlmsotcp_cl_432_join_ind_cb
JoinInd(n) ==
  /\ valid' = valid \cup {n}
  /\ view' = IF Notifying /\ autoclose[n] = 0 THEN view \cup {n} ELSE view
  /\ released' = {}
  /\ UNCHANGED <<autoclose, link, notify, asked, muted, paged>>

\* _is_enabled_auto_close, on the table as the leave has left it
IsEnabledAutoClose(valid2, auto2, n) == n \in valid2 /\ auto2[n] > 0

\* Fault: the autoclose flag is looked at before it is cleared.
LeaveKeptQuiet(n) ==
  /\ valid' = valid \ {n}
  /\ autoclose' = [autoclose EXCEPT ![n] = 0]
  /\ view' = IF Notifying /\ ~IsEnabledAutoClose(valid, autoclose, n)
             THEN view \ {n} ELSE view
  /\ released' = {}
  /\ UNCHANGED <<link, notify, asked, muted, paged>>

\* _dlmsotcp_cl_432_leave_ind_cb: the flag is cleared before it is looked at
LeaveInd(n) ==
  /\ valid' = valid \ {n}
  /\ autoclose' = [autoclose EXCEPT ![n] = 0]
  /\ view' = IF Notifying /\ ~IsEnabledAutoClose(valid', autoclose', n)
             THEN view \ {n} ELSE view
  /\ released' = {}
  /\ UNCHANGED <<link, notify, asked, muted, paged>>

\* _dlmsotcp_mngp_rsp_cb: the nodes of a page enter the table, nobody is told
ListPage(ns) ==
  /\ valid' = valid \cup ns /\ paged' = paged \cup ns
  /\ released' = {}
  /\ UNCHANGED <<autoclose, link, notify, asked, view, muted>>

-----------------------------------------------------------------------------
(* From the concentrator: dlmsotcp_RxProcess.  Whatever it sends first makes  *)
(* its descriptor si_dlmsoctp_data_fd.                                        *)

\* Fault: the notices are enabled and the list is not sent.
EnableSendsNoList ==
  /\ link # "none" /\ link' = "live"
  /\ notify' = TRUE /\ asked' = TRUE
  /\ muted' = {n \in Node : autoclose[n] > 0} /\ paged' = {}
  /\ released' = {}
  /\ UNCHANGED <<valid, autoclose, view>>

\* command 3, and _send_list_432_connections
EnableNotifications ==
  /\ link # "none" /\ link' = "live"
  /\ notify' = TRUE /\ asked' = TRUE
  /\ view' = view \cup valid
  /\ muted' = {n \in Node : autoclose[n] > 0} /\ paged' = {}
  /\ released' = {}
  /\ UNCHANGED <<valid, autoclose>>

\* command 4
Delete(n) ==
  /\ link # "none" /\ link' = "live"
  /\ autoclose' = [autoclose EXCEPT ![n] = 0]
  /\ released' = {n}
  /\ UNCHANGED <<valid, notify, asked, view, muted, paged>>

\* Fault: a counter that does not wrap.
AutoCloseUnbounded(n) ==
  /\ link # "none" /\ link' = "live"
  /\ autoclose[n] < Wrap /\ autoclose' = [autoclose EXCEPT ![n] = @ + 1]
  /\ muted' = muted \cup {n}
  /\ released' = {}
  /\ UNCHANGED <<valid, notify, asked, view, paged>>

\* command 5: a counter, not a flag
EnableAutoClose(n) ==
  /\ link # "none" /\ link' = "live"
  /\ autoclose' = [autoclose EXCEPT ![n] = (@ + 1) % Wrap]
  /\ muted' = muted \cup {n}
  /\ released' = {}
  /\ UNCHANGED <<valid, notify, asked, view, paged>>

\* command 6
DisableAutoClose(n) ==
  /\ link # "none" /\ link' = "live"
  /\ autoclose' = [autoclose EXCEPT ![n] = 0]
  /\ released' = {}
  /\ UNCHANGED <<valid, notify, asked, view, muted, paged>>

\* any other message
OtherData ==
  /\ link # "none" /\ link' = "live" /\ released' = {}
  /\ UNCHANGED <<valid, autoclose, notify, asked, view, muted, paged>>

\* dlmsotcp_callback, LINK: a second connection is dropped, see AcceptOnlyOne
ClientConnects ==
  /\ link = "none" /\ link' = "quiet" /\ released' = {}
  /\ UNCHANGED <<valid, autoclose, notify, asked, view, muted, paged>>

\* dlmsotcp_close_432
AutoClosed == {n \in Node : autoclose[n] = 1}

Close432 ==
  /\ released' = {IF n \in valid THEN n ELSE NoAddr : n \in AutoClosed}
  /\ valid' = valid \ AutoClosed
  /\ autoclose' = [n \in Node |-> IF n \in AutoClosed THEN 0 ELSE autoclose[n]]

\* dlmsotcp_callback when the last connection has gone
ClientGone ==
  /\ link # "none" /\ link' = "none"
  /\ Close432
  /\ view' = {} /\ asked' = FALSE
  /\ UNCHANGED <<notify, muted, paged>>

NodesNext ==
  \/ \E n \in Node : JoinInd(n) \/ LeaveInd(n)
  \/ \E ns \in SUBSET Node : ListPage(ns)
  \/ EnableNotifications \/ OtherData \/ ClientConnects \/ ClientGone
  \/ \E n \in Node : Delete(n) \/ EnableAutoClose(n) \/ DisableAutoClose(n)

NodesSpec == NodesInit /\ [][NodesNext]_nodesVars

-----------------------------------------------------------------------------
\* Type invariant.
NodesTypeOK ==
  /\ valid \in SUBSET Node /\ autoclose \in [Node -> 0 .. Wrap - 1]
  /\ link \in {"none", "quiet", "live"} /\ notify \in BOOLEAN /\ asked \in BOOLEAN
  /\ view \in SUBSET Node /\ released \in SUBSET (Node \cup {NoAddr})
  /\ muted \in SUBSET Node /\ paged \in SUBSET Node

\* The concentrator never believes in a meter the daemon knows to be gone: every
\* leave of a meter it was told of is told, with the autoclose flag or without.
ViewSound == view \subseteq valid

\* A concentrator that has asked for the list on this connection knows every
\* meter in the table, but for those whose joins the autoclose flag has kept quiet
\* since, and those that have come in a list page since.
ViewComplete == asked => valid \ view \subseteq muted \cup paged

\* "Close 432 connections where auto_close status has been set" (dlmsotcp.c:902).
AutoCloseHonoured ==
  [][ClientGone => \A n \in Node : autoclose[n] > 0 /\ n \in valid => n \in released']_nodesVars

\* "When a new client connection is accepted, it is needed to notify the current
\* 432 connection status" (dlmsotcp.c:348): a client that gets notices knows the
\* meters that are not set to close silently.
NewClientKnowsAll == Notifying => valid \ view \subseteq muted \cup paged
=============================================================================

------------------------------ MODULE DlmsEmu ------------------------------
(***************************************************************************)
(* dlms_emu.c: the emulator of a concentrator, which reads every connected *)
(* meter in a cycle: association, date, S02 profile and its blocks,        *)
(* release.  Four one-shot timers drive it: the wait for a reply, and the  *)
(* pauses before the next step, the next node and the next cycle.          *)
(*                                                                         *)
(* Neither a confirm nor a reply is compared with what was asked, so those *)
(* that are late, or meant for DLMSoTCP, drive the cycle as well.  They    *)
(* are counted as events out of turn, with a second start and with a stop  *)
(* that leaves a request behind.                                           *)
(*                                                                         *)
(* The timers' handler is a signal's: it runs to its end wherever the main *)
(* thread is.  The callbacks of the main thread that read or write what it *)
(* shares more than once are therefore in steps, and main says where.      *)
(***************************************************************************)
EXTENDS Integers, Sequences

CONSTANTS
  NumNode,    \* DLMS_EMU_MAX_NUM_NODES_CONNECTED, 16 in the code
  NumBlock,   \* DLMS_SO2_NUMBER_OF_BLOCKS, 12 in the code
  MaxAstray   \* bound: events out of turn

ASSUME EmuAssumption ==
  NumNode \in Nat \ {0} /\ NumBlock \in Nat /\ MaxAstray \in Nat

Node   == 0 .. NumNode - 1
NoNode == NumNode     \* what _get_next_node_to_cycle returns when there is none
Step   == {"association", "date", "s02", "nextblock", "release"}
Timer  == {"timeout", "cycle", "node", "step"}

VARIABLES
  valid,    \* nodes of sx_list_nodes whose dst_address is valid
  max,      \* sus_max_index_connected_node
  cur,      \* sus_current_node
  step,     \* suc_current_node_dlms_step
  block,    \* suc_blocknumber
  armed,    \* timers that are running
  asked,    \* data requests the base node has not confirmed
  active,   \* a cycle was started, and neither stopped nor left without a node
  astray,   \* events out of turn so far
  lost,     \* some confirm never came
  main,     \* the step the main thread is about to take, "idle" between callbacks
  at,       \* the node that joins, the index of a scan, or the timers stopped so far
  cut,      \* a cycle was started in the middle of a join, and none since
  missed    \* nodes connected ever since the cycle began and not yet associated with;
            \* node 0, where no search begins, is not counted

nodeVars  == <<valid, max>>
placeVars == <<cur, step, block>>
mainVars  == <<main, at, cut>>
emuVars   == <<nodeVars, placeVars, armed, asked, active, astray, lost, mainVars, missed>>

\* Where the main thread may be: in a join, in the start of a cycle, or in a stop
Joining  == {"raise", "enter"}
Starting == {"scan", "choose", "begin", "send", "next"}

EmuInit ==
  /\ valid = {} /\ max = 1
  /\ cur = 0 /\ step = "association" /\ block = 0
  /\ armed = {} /\ asked = 0 /\ active = FALSE
  /\ astray = 0 /\ lost = FALSE /\ missed = {}
  /\ main = "idle" /\ at = 0 /\ cut = FALSE

-----------------------------------------------------------------------------
(* Choosing and asking a node. *)

\* _get_next_node_to_cycle, over the table and the maximum it is given
Candidates(i, top) == {n \in valid : i < n /\ n < top}

NextNode(i, top) ==
  IF Candidates(i, top) = {} THEN NoNode
  ELSE CHOOSE n \in Candidates(i, top) : \A m \in Candidates(i, top) : n <= m

\* _generate_str and the data request.  S02 starts the block numbers, NEXTBLOCK
\* uses the next one.
Request(n, s, b) ==
  /\ asked' = asked + 1
  /\ block' = CASE s = "s02" -> 1 [] s = "nextblock" -> b + 1 [] OTHER -> b
  /\ missed' = IF s = "association" THEN missed \ {n} ELSE missed

EndOfCycle(s, b, running) ==
  /\ armed' = running \cup {"cycle"}
  /\ step' = s /\ block' = b
  /\ UNCHANGED <<asked, missed>>

\* Fault: the first node follows the last without a pause.
CycleNextWraps(s, b, running) ==
  LET n == IF NextNode(cur, max) = NoNode THEN NextNode(0, max) ELSE NextNode(cur, max)
  IN /\ cur' = n
     /\ \/ /\ n # NoNode
           /\ step' = "association" /\ Request(n, "association", b)
           /\ armed' = running
        \/ n = NoNode /\ EndOfCycle(s, b, running)

\* _cycle_next_node, while the timers in running are; s and b are what the caller
\* has already put in step and block
CycleNextNode(s, b, running) ==
  /\ cur' = NextNode(cur, max)
  /\ \/ /\ cur' # NoNode
        /\ step' = "association" /\ Request(cur', "association", b)
        /\ armed' = running
     \/ cur' = NoNode /\ EndOfCycle(s, b, running)

\* CMD_SEND of _st_machine for the current node: one that has left is skipped.
\* After the end of a cycle the index is that of no node, and what the table
\* seems to hold there decides.
Send(s, b, running) ==
  \/ /\ cur \in valid \cup {NoNode}
     /\ step' = s /\ Request(cur, s, b)
     /\ armed' = running /\ UNCHANGED cur
  \/ cur \notin valid /\ CycleNextNode(s, b, running)

\* _get_number_nodes_connected: one beyond the last node, if there is any
Top ==
  IF valid = {} THEN max
  ELSE 1 + (CHOOSE n \in valid : \A m \in valid : m <= n)

\* Where _start_cycle begins: node 0 is never the first.
First == {n \in valid : n > 0 /\ \A m \in valid : m > 0 => n <= m}

-----------------------------------------------------------------------------
(* The main thread's callbacks in steps. *)

\* An event in turn, and one out of turn
InTurn(yes) ==
  IF yes THEN UNCHANGED astray ELSE astray < MaxAstray /\ astray' = astray + 1

Goes(from, to, where) == main = from /\ main' = to /\ at' = where

\* A join, or a record of a list.  The maximum is compared, raised if it is too
\* small, and only then is the node valid.
JoinTest(n) ==
  /\ Goes("idle", IF n >= max THEN "raise" ELSE "enter", n)
  /\ UNCHANGED <<nodeVars, placeVars, armed, asked, active, astray, lost, cut, missed>>

\* Fault: the maximum is not raised.
RaiseForgotten ==
  /\ Goes("raise", "enter", at)
  /\ UNCHANGED <<nodeVars, placeVars, armed, asked, active, astray, lost, cut, missed>>

JoinRaise ==
  /\ Goes("raise", "enter", at)
  /\ max' = at + 1
  /\ UNCHANGED <<valid, placeVars, armed, asked, active, astray, lost, cut, missed>>

JoinEnter ==
  /\ Goes("enter", "idle", 0)
  /\ valid' = valid \cup {at}
  /\ UNCHANGED <<max, placeVars, armed, asked, active, astray, lost, cut, missed>>

\* The end of _dlms_mngp_rsp_cb for the last page, the answer to a START_CYCLES, in
\* the main thread's _start_cycle.
ListEnd ==
  /\ Goes("idle", "scan", 0)
  /\ InTurn(armed = {} /\ asked = 0)
  /\ UNCHANGED <<nodeVars, placeVars, armed, asked, active, lost, cut, missed>>

\* _get_number_nodes_connected, one valid node after the other: the maximum falls to
\* the first and rises again.
ScanNode ==
  \E n \in valid :
    /\ n >= at /\ \A m \in valid : m >= at => n <= m
    /\ Goes("scan", "scan", n + 1)
    /\ max' = n + 1
    /\ UNCHANGED <<valid, placeVars, armed, asked, active, astray, lost, cut, missed>>

ScanEnds ==
  /\ \A n \in valid : n < at
  /\ Goes("scan", IF valid = {} THEN "idle" ELSE "choose", 0)
  /\ cut' = FALSE
  /\ UNCHANGED <<nodeVars, placeVars, armed, asked, active, astray, lost, missed>>

Choose ==
  /\ Goes("choose", "begin", 0)
  /\ cur' = NextNode(0, max)
  /\ missed' = valid \ {0, cur'}
  /\ UNCHANGED <<nodeVars, step, block, armed, asked, active, astray, lost, cut>>

\* Is there a node?
Begin ==
  /\ \/ /\ Goes("begin", "send", 0)
        /\ cur # NoNode /\ step' = "association"
     \/ /\ Goes("begin", "idle", 0)
        /\ cur = NoNode /\ UNCHANGED step
  /\ UNCHANGED <<nodeVars, cur, block, armed, asked, active, astray, lost, cut, missed>>

\* CMD_SEND in the main thread.  The step is read again or not, as the compiler has
\* it; an index that is no node's reads beyond the table.
MainSend ==
  /\ cur \in valid \cup {NoNode}
  /\ Goes("send", "idle", 0)
  /\ \E s \in {"association", step} : Request(cur, s, block)
  /\ active' = TRUE
  /\ UNCHANGED <<nodeVars, cur, step, armed, astray, lost, cut>>

\* Its _cycle_next_node, in two steps
MainSkips ==
  /\ cur \notin valid
  /\ Goes("send", "next", 0)
  /\ cur' = NextNode(cur, max)
  /\ UNCHANGED <<nodeVars, step, block, armed, asked, active, astray, lost, cut, missed>>

MainNext ==
  /\ \/ /\ Goes("next", "send", 0)
        /\ cur # NoNode /\ step' = "association"
        /\ UNCHANGED <<block, armed, asked, active, missed>>
     \/ /\ Goes("next", "idle", 0)
        /\ cur = NoNode /\ EndOfCycle(step, block, armed)
        /\ active' = TRUE
  /\ UNCHANGED <<nodeVars, cur, astray, lost, cut>>

Stops == <<"timeout", "cycle", "node", "step">>

\* _stop_cycles, one timer after the other.  The request that is out stays out, and
\* a handler may start again a timer that is stopped already.
StopCycles ==
  /\ Goes("idle", "stop", 1)
  /\ armed' = armed \ {"timeout"} /\ active' = FALSE
  /\ InTurn(asked = 0)
  /\ UNCHANGED <<nodeVars, placeVars, asked, lost, cut, missed>>

StopNext ==
  /\ at < Len(Stops)
  /\ Goes("stop", "stop", at + 1)
  /\ armed' = armed \ {Stops[at + 1]} /\ active' = FALSE
  /\ UNCHANGED <<nodeVars, placeVars, asked, astray, lost, cut, missed>>

Stopped ==
  /\ at = Len(Stops)
  /\ Goes("stop", "idle", 0)
  /\ step' = "association"
  /\ UNCHANGED <<nodeVars, cur, block, armed, asked, active, astray, lost, cut, missed>>

-----------------------------------------------------------------------------
(* Those that are one step. *)

Idle == main = "idle" /\ UNCHANGED mainVars

LeaveInd(n) ==
  /\ Idle
  /\ valid' = valid \ {n} /\ missed' = missed \ {n}
  /\ UNCHANGED <<max, placeVars, armed, asked, active, astray, lost>>

\* _dlms_emu_cl_432_dl_data_cfm_cb: success, or one of the four errors
Confirmed == \E t \in {"timeout", "node"} : armed' = armed \cup {t}

DataCfm ==
  /\ Idle
  /\ asked > 0 /\ asked' = asked - 1
  /\ Confirmed
  /\ UNCHANGED <<nodeVars, placeVars, active, astray, lost, missed>>

\* A confirm of DLMSoTCP's, routed here.
ForeignCfm ==
  /\ Idle
  /\ Confirmed
  /\ InTurn(FALSE)
  /\ UNCHANGED <<nodeVars, placeVars, asked, active, lost, missed>>

\* The confirm is lost, routed to DLMSoTCP, or of a status the switch ignores.
LoseCfm ==
  /\ asked > 0 /\ asked' = asked - 1
  /\ lost' = TRUE
  /\ UNCHANGED <<nodeVars, placeVars, armed, active, astray, mainVars, missed>>

\* Faults: an invalid reply is reported and no more; the timeout is not stopped.
InvalidIsIgnored ==
  /\ Idle
  /\ \/ armed' = (armed \ {"timeout"}) \cup {"step"}
     \/ armed' = armed \ {"timeout"}
  /\ InTurn(armed = {"timeout"} /\ asked = 0)
  /\ UNCHANGED <<nodeVars, placeVars, asked, active, lost, missed>>

TimeoutStaysArmed ==
  /\ Idle
  /\ \E t \in {"step", "node"} : armed' = armed \cup {t}
  /\ InTurn(armed = {"timeout"} /\ asked = 0)
  /\ UNCHANGED <<nodeVars, placeVars, asked, active, lost, missed>>

\* _dlms_emu_cl_432_dl_data_ind_cb: a valid reply, or an invalid one
DataInd ==
  /\ Idle
  /\ \E t \in {"step", "node"} : armed' = (armed \ {"timeout"}) \cup {t}
  /\ InTurn(armed = {"timeout"} /\ asked = 0)
  /\ UNCHANGED <<nodeVars, placeVars, asked, active, lost, missed>>

-----------------------------------------------------------------------------
(* _timer_handler, in one step: the signal is masked while it runs and the main *)
(* thread waits.  A timer is one-shot: it is not running any more.              *)

Expires(t) == t \in armed
Rest(t)    == armed \ {t}

Kept == UNCHANGED <<astray, lost, main, at>>

\* _timeout, which reports, and the pause before the next node
NextNodeDue(t) ==
  /\ Expires(t)
  /\ CycleNextNode(step, block, Rest(t))
  /\ Kept /\ UNCHANGED <<nodeVars, active, cut>>

Timeout == NextNodeDue("timeout")
NodeDue == NextNodeDue("node")

\* Its _start_cycle.  The maximum becomes that of the nodes of the table.
CycleDue ==
  /\ Expires("cycle")
  /\ armed' = Rest("cycle")
  /\ max' = Top /\ active' = (First # {})
  /\ IF First # {}
     THEN /\ cur' \in First
          /\ step' = "association"
          /\ asked' = asked + 1 /\ missed' = valid \ {0, cur'}
          /\ UNCHANGED block
     ELSE /\ cur' = IF valid = {} THEN cur ELSE NoNode
          /\ missed' = {}
          /\ UNCHANGED <<step, asked, block>>
  /\ cut' = (main \in Joining)
  /\ Kept /\ UNCHANGED valid

\* Fault: there is no last block.
BlocksNeverEnd(running) == Send("nextblock", block + 1, running)

\* The NEXTBLOCK branch of _next_step: the number is raised here, and once more by
\* _generate_str.
AfterBlock(running) ==
  IF block + 1 > NumBlock THEN Send("release", 0, running)
  ELSE Send("nextblock", block + 1, running)

\* Its RELEASE branch chooses the next node already.
AfterRelease(running) ==
  /\ cur' = NextNode(cur, max)
  /\ armed' = running \cup {IF cur' = NoNode THEN "cycle" ELSE "node"}
  /\ UNCHANGED <<step, block, asked, missed>>

\* _next_step
StepDue ==
  /\ Expires("step")
  /\ \/ step = "association" /\ Send("date", 0, Rest("step"))
     \/ step = "date" /\ Send("s02", block, Rest("step"))
     \/ step = "s02" /\ Send("nextblock", 0, Rest("step"))
     \/ step = "nextblock" /\ AfterBlock(Rest("step"))
     \/ step = "release" /\ AfterRelease(Rest("step"))
  /\ Kept /\ UNCHANGED <<nodeVars, active, cut>>

TimerHandler == Timeout \/ NodeDue \/ CycleDue \/ StepDue

\* What the base node and the client send while the main thread is in no callback
Outside ==
  \/ \E n \in Node : JoinTest(n) \/ LeaveInd(n)
  \/ ListEnd \/ ForeignCfm \/ DataInd \/ StopCycles

\* The rest of the callback it is in
Callback ==
  \/ JoinRaise \/ JoinEnter
  \/ ScanNode \/ ScanEnds \/ Choose \/ Begin \/ MainSend \/ MainSkips \/ MainNext
  \/ StopNext \/ Stopped

EmuNext == TimerHandler \/ DataCfm \/ LoseCfm \/ Outside \/ Callback

EmuSpec == EmuInit /\ [][EmuNext]_emuVars

\* The base node confirms a request or loses the confirm; timers expire; a callback
\* comes to its end.  Meters owe no reply.
FairEmuSpec ==
  /\ EmuSpec /\ WF_emuVars(DataCfm \/ LoseCfm) /\ WF_emuVars(Callback)
  /\ WF_emuVars(Timeout) /\ WF_emuVars(NodeDue)
  /\ WF_emuVars(CycleDue) /\ WF_emuVars(StepDue)

-----------------------------------------------------------------------------
\* Type invariant.
EmuTypeOK ==
  /\ valid \in SUBSET Node /\ max \in 1 .. NumNode
  /\ cur \in Node \cup {NoNode} /\ step \in Step /\ block \in 0 .. NumBlock + 1
  /\ armed \in SUBSET Timer /\ asked \in Nat
  /\ active \in BOOLEAN /\ astray \in 0 .. MaxAstray /\ lost \in BOOLEAN
  /\ missed \in SUBSET Node /\ cut \in BOOLEAN
  /\ main \in {"idle", "stop"} \cup Joining \cup Starting
  /\ at \in CASE main \in Joining -> Node
          [] main = "scan" -> 0 .. NumNode
          [] main = "stop" -> 1 .. Len(Stops)
          [] OTHER -> {0}

\* No connected meter is beyond the index the search for the next node stops at,
\* although every start of a cycle lowers it: only one that comes into the middle of
\* a join leaves a meter there, and the next start finds it.
MaxCoversNodes == ~cut /\ main # "scan" => \A n \in valid : n < max

\* "store the maximum index in the list of connected nodes" (dlms_emu.c:55): between
\* callbacks no connected meter is beyond it.
MaxIsMaximum == main = "idle" => \A n \in valid : n < max

\* A cycle under way is never dropped: as long as no confirm is lost, some timer
\* is running or a confirm is due, whatever leaves, replies and foreign answers
\* came in between.
NeverStalls == active /\ ~lost => armed # {} \/ asked > 0

\* Until an event comes out of turn there is one thread of control: one request
\* out and no timer, or one timer.  No meter is asked twice at once, and no timer
\* handler comes into the start of a cycle, which would share its node and step.
OneActivity ==
  astray = 0 => /\ \A s, t \in armed : s = t
                /\ asked <= 1
                /\ asked = 1 => armed = {}
                /\ main \in Starting => armed = {} /\ asked = 0

\* Every cycle comes to its pause, unless it is stopped, has no node to start with
\* or loses a confirm, also with silent meters, meters that leave and answers out
\* of turn.
CycleEnds == active ~> ("cycle" \in armed \/ ~active \/ lost)

\* "get next node to cycle if all nodes have been cycles wait before start from
\* with the first node" (dlms_emu.c:342): the pause comes when no node connected
\* since the start of the cycle is left (the start came into no join).
CycleCoversNodes == "cycle" \in armed /\ astray = 0 /\ ~cut => missed = {}
=============================================================================

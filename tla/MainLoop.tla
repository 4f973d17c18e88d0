------------------------------ MODULE MainLoop ------------------------------
(***************************************************************************)
(* main.c: the single-threaded loop.  select() reports descriptors, the    *)
(* lowest one is attributed to an application, and that application's      *)
(* callback runs to completion.  Around the socket table it adds the       *)
(* clients, and the descriptors three applications remember in statics:    *)
(* the loopback of the USI layer, the CLI's data descriptor and DLMSoTCP's.*)
(* The 10 ms timeout of select() changes none of this state.               *)
(***************************************************************************)
EXTENDS SocketHandler

CONSTANTS
  PrimeMng, Cli, DlmsOTcp,   \* ids from plcmanager.h
  MaxBacklog                 \* bound: clients waiting to be accepted by one server

ASSUME LoopAssumption ==
  /\ DlmsOTcp \in Single
  /\ Cli \in Server \ Single
  /\ PrimeMng \notin {Cli, DlmsOTcp}
  /\ MaxBacklog \in Nat

VARIABLES
  backlog,   \* clients the kernel has queued for each server
  rx,        \* what read() can still return on each descriptor
  serial,    \* the base node has sent something
  loopback,  \* usi_host_loopback's descriptor
  cliFd,     \* si_cli_data_fd
  dlmsFd     \* si_dlmsoctp_data_fd

envVars  == <<backlog, rx, serial>>
heldVars == <<loopback, cliFd, dlmsFd>>
loopVars == <<tab, open, envVars, heldVars>>

NoFd == 0    \* the initial value of a static int

-----------------------------------------------------------------------------
(* select() and the attribution of what it reports. *)

Readable(fd) ==
  \/ \E a \in Server : tab.server[a] = fd /\ backlog[a] > 0
  \/ SlotsOf(tab, Usi, fd) # {} /\ serial
  \/ rx[fd] # {}

\* Fault: select(si_max_listener, ...)
ReportedBelowMax == {fd \in tab.listen : fd < tab.max /\ Readable(fd)}

\* select(si_max_listener + 1, ...) looks no higher than the largest listener
Reported == {fd \in tab.listen : fd <= tab.max /\ Readable(fd)}

Owner(fd) == Least({a \in App : tab.server[a] = fd \/ SlotsOf(tab, a, fd) # {}})

Forget(r, fds) == [fd \in Fd |-> IF fd \in fds THEN r[fd] ELSE {}]

-----------------------------------------------------------------------------
LoopInit ==
  /\ SocketInit
  /\ backlog = [a \in Server |-> 0]
  /\ rx = [fd \in Fd |-> {}]
  /\ serial = FALSE
  /\ loopback = Unused /\ cliFd = NoFd /\ dlmsFd = Unused

\* main() before the loop: five servers, then the serial port
Boot ==
  /\ (\E a \in Server : CreateServer(a)) \/ AttachSerial
  /\ UNCHANGED <<envVars, heldVars>>

\* A client's connect() is complete once the kernel has queued it.
Connect(a) ==
  /\ tab.server[a] # Unused /\ backlog[a] < MaxBacklog
  /\ backlog' = [backlog EXCEPT ![a] = @ + 1]
  /\ UNCHANGED <<tab, open, rx, serial, heldVars>>

ClientFds == {fd \in Fd : \E a \in Server : SlotsOf(tab, a, fd) # {}}

ClientSend(fd) ==
  /\ fd \in ClientFds /\ "eof" \notin rx[fd]
  /\ rx' = [rx EXCEPT ![fd] = @ \cup {"data"}]
  /\ UNCHANGED <<tab, open, backlog, serial, heldVars>>

\* What was sent before the close can still be read.
ClientClose(fd) ==
  /\ fd \in ClientFds /\ "eof" \notin rx[fd]
  /\ rx' = [rx EXCEPT ![fd] = @ \cup {"eof"}]
  /\ UNCHANGED <<tab, open, backlog, serial, heldVars>>

SerialInput ==
  /\ Booted /\ serial' = TRUE
  /\ UNCHANGED <<tab, open, backlog, rx, heldVars>>

ClientStep ==
  \/ \E a \in Server : Connect(a)
  \/ \E fd \in Fd : ClientSend(fd) \/ ClientClose(fd)
  \/ SerialInput

-----------------------------------------------------------------------------
(* The callbacks.  SOCKET_EV_LINK_TYPE: *)

\* Fault: with every slot taken, the newcomer gets that of the first client.
ReplaceFirst(a) ==
  LET old == tab.conn[a][1]
  IN \E fd \in Fd :
       /\ NewFd(fd)
       /\ tab' = [Attach([tab EXCEPT !.conn[a][1] = Unused], a, fd)
                    EXCEPT !.listen = @ \ {old}]
       /\ open' = (open \ {old}) \cup {fd}

LinkReplacesFirst(a, fd) ==
  /\ a # Usi /\ fd = tab.server[a]
  /\ backlog' = [backlog EXCEPT ![a] = @ - 1]
  /\ \/ a \in Single /\ AcceptOnlyOne(a)
     \/ a \notin Single /\ FreeSlots(tab, a) # {} /\ AcceptConn(a)
     \/ a \notin Single /\ FreeSlots(tab, a) = {} /\ ReplaceFirst(a)
  /\ rx' = Forget(rx, open')
  /\ UNCHANGED <<serial, heldVars>>

\* Fault: the CLI remembers the descriptor of the event, whatever the event is.
LinkRemembers(a, fd) ==
  /\ a # Usi /\ fd = tab.server[a]
  /\ backlog' = [backlog EXCEPT ![a] = @ - 1]
  /\ IF a \in Single THEN AcceptOnlyOne(a) ELSE AcceptConn(a)
  /\ rx' = Forget(rx, open')
  /\ cliFd' = IF a = Cli THEN fd ELSE cliFd
  /\ UNCHANGED <<serial, loopback, dlmsFd>>

Link(a, fd) ==
  /\ a # Usi /\ fd = tab.server[a]
  /\ backlog' = [backlog EXCEPT ![a] = @ - 1]
  /\ IF a \in Single THEN AcceptOnlyOne(a) ELSE AcceptConn(a)
  /\ rx' = Forget(rx, open')
  /\ UNCHANGED <<serial, heldVars>>

\* SOCKET_EV_DATA_TYPE with something to read: each application remembers, or
\* does not, whom it heard from.
DataEvent(a, fd) == a # Usi /\ fd # tab.server[a]

ReadSome(a, fd) ==
  /\ DataEvent(a, fd) /\ "data" \in rx[fd]
  /\ rx' = [rx EXCEPT ![fd] = @ \ {"data"}]
  /\ loopback' = IF a = PrimeMng THEN fd ELSE loopback
  /\ cliFd' = IF a = Cli THEN fd ELSE cliFd
  /\ dlmsFd' = IF a = DlmsOTcp THEN fd ELSE dlmsFd
  /\ UNCHANGED <<tab, open, backlog, serial>>

\* Faults: DLMSoTCP resets its descriptor to 0, or not at all.
GoneResetsTo(a, fd, value) ==
  /\ DataEvent(a, fd) /\ "data" \notin rx[fd]
  /\ DropConn(a, fd)
  /\ rx' = Forget(rx, open')
  /\ cliFd' = IF a = Cli THEN fd ELSE cliFd
  /\ dlmsFd' = IF a = DlmsOTcp THEN value ELSE dlmsFd
  /\ UNCHANGED <<backlog, serial, loopback>>

GoneResetsToZero(a, fd) == GoneResetsTo(a, fd, NoFd)
GoneKeepsFd(a, fd)      == GoneResetsTo(a, fd, dlmsFd)

\* ... and with nothing: socket_check_connection detaches it.  Only DLMSoTCP
\* forgets the descriptor, once it has no connection left.
PeerGone(a, fd) ==
  /\ DataEvent(a, fd) /\ "data" \notin rx[fd]
  /\ DropConn(a, fd)
  /\ rx' = Forget(rx, open')
  /\ cliFd' = IF a = Cli THEN fd ELSE cliFd
  /\ dlmsFd' = IF a # DlmsOTcp THEN dlmsFd
               ELSE IF Connections(tab', a) = {} THEN Unused ELSE fd
  /\ UNCHANGED <<backlog, serial, loopback>>

\* usi_host_process reads what the serial port has
UsiEvent(a) ==
  /\ a = Usi
  /\ serial' = FALSE
  /\ UNCHANGED <<tab, open, backlog, rx, heldVars>>

\* socket_select returns one event for each call, on the lowest descriptor ready
Callback ==
  /\ Booted
  /\ \E fd \in Reported : \E a \in App :
       /\ \A g \in Reported : fd <= g
       /\ a = Owner(fd)
       /\ Link(a, fd) \/ ReadSome(a, fd) \/ PeerGone(a, fd) \/ UsiEvent(a)

LoopNext == Boot \/ ClientStep \/ Callback

LoopSpec == LoopInit /\ [][LoopNext]_loopVars

\* main() never blocks outside select(), so it keeps booting and keeps handling
\* what select() reports; nothing is assumed of the clients.
FairLoopSpec == LoopSpec /\ WF_loopVars(Boot) /\ WF_loopVars(Callback)

-----------------------------------------------------------------------------
\* Type invariant of the loop's own variables.
LoopTypeOK ==
  /\ backlog \in [Server -> 0 .. MaxBacklog]
  /\ rx \in [Fd -> SUBSET {"data", "eof"}]
  /\ serial \in BOOLEAN
  /\ loopback \in Fd \cup {Unused}
  /\ cliFd \in Fd \cup {NoFd}
  /\ dlmsFd \in Fd \cup {Unused}

\* Whatever the base node sends to DLMSoTCP's client (data indications, join and
\* leave notices) is written to the client that is connected now: the callback
\* resets si_dlmsoctp_data_fd before anybody else can be given the number.
DlmsFdIsLive == dlmsFd # Unused => dlmsFd = tab.conn[DlmsOTcp][1]

\* The CLI and PRIME Manager write to the descriptor they last read from, long after
\* its connection has gone and whatever its number is by then (cli.c:361,
\* prime_manager.c:51): it may be nobody's, or another client's, but never a listening
\* socket and never the serial port.
StaleStaysClient == \A fd \in {loopback, cliFd} \cap open : fd \in ClientFds

\* The notifications cli.c sends "to CLI" go to a connection of the CLI, if they
\* go anywhere: claimed by the comments at cli.c:19 and cli.c:100.
CliFdIsCli == cliFd \in open => SlotsOf(tab, Cli, cliFd) # {}

\* The lowest descriptor is served first, so a busy client can starve the others;
\* but once the clients and the base node pause, everything they left in the
\* kernel is handled: no connection is stuck behind si_max_listener, and the one
\* event per select() loses none.
AllServedOncePaused ==
  <>[][~ClientStep]_loopVars
    => <>[](\A fd \in Fd : rx[fd] = {}) /\ <>[](\A a \in Server : backlog[a] = 0)
==============================================================================

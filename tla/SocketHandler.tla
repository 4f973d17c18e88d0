---------------------------- MODULE SocketHandler ----------------------------
(***************************************************************************)
(* socket_handler.c: the table of server and connection descriptors of     *)
(* every application, the fd_set that select() watches and the largest     *)
(* watched descriptor.  The table is one record so that a callback that    *)
(* calls two functions in a row (accept, then drop the second connection)  *)
(* is one step built from two operators.                                   *)
(*                                                                         *)
(* The process's descriptors are the integers 1..MaxFd, and the kernel     *)
(* hands out the lowest one that is not open, as POSIX requires: that is   *)
(* what makes a closed number come back as somebody else's connection.     *)
(***************************************************************************)
EXTENDS Integers

CONSTANTS
  Server,   \* ids of the applications main() creates a server socket for
  Usi,      \* PLC_MNG_USI_APP_ID, which holds the serial descriptor
  Single,   \* servers whose callback keeps one connection at most
  MaxConn,  \* SOCKET_MAX_CONN, 5 in the code
  MaxFd     \* bound: descriptors the process can have open

ASSUME SocketAssumption ==
  /\ Server \subseteq Nat
  /\ Usi \in Nat \ Server
  /\ Single \subseteq Server
  /\ MaxConn \in Nat /\ MaxConn >= 2
  /\ MaxFd \in Nat

App    == Server \cup {Usi}
Slot   == 1 .. MaxConn
Fd     == 1 .. MaxFd
Unused == -1              \* SOCKET_UNUSED, and SOCKET_ERROR: the same number

VARIABLES
  tab,      \* sx_sockets, sx_socket_listeners and si_max_listener
  open      \* descriptors of this process the kernel holds open

socketVars == <<tab, open>>

-----------------------------------------------------------------------------
(* The table and what can be read from it. *)

Least(S) == CHOOSE i \in S : \A j \in S : i <= j

Connections(t, a) == {s \in Slot : t.conn[a][s] > 0}   \* socket_get_connections_fds
FreeSlots(t, a)   == {s \in Slot : t.conn[a][s] = Unused}
SlotsOf(t, a, fd) == {s \in Slot : t.conn[a][s] = fd}

Owned(t) == {fd \in Fd : \E a \in App : t.server[a] = fd \/ SlotsOf(t, a, fd) # {}}

EmptyTable ==
  [server |-> [a \in App |-> Unused],
   conn   |-> [a \in App |-> [s \in Slot |-> Unused]],
   listen |-> {},
   max    |-> 0]

-----------------------------------------------------------------------------
(* The functions of socket_handler.c, as operators on the table. *)

\* socket_append_listener, at the end of socket_create_server
AppendServer(t, a, fd) ==
  [t EXCEPT !.server[a] = fd,
            !.listen = @ \cup {fd},
            !.max = IF fd > @ THEN fd ELSE @]

\* Faults: an attach that forgets the maximum, one whose loop does not stop.
AttachForgetsMax(t, a, fd) ==
  IF FreeSlots(t, a) = {} THEN t
  ELSE [t EXCEPT !.conn[a][Least(FreeSlots(t, a))] = fd, !.listen = @ \cup {fd}]

AttachFillsAll(t, a, fd) ==
  [t EXCEPT !.conn[a] = [s \in Slot |-> IF @[s] = Unused THEN fd ELSE @[s]],
            !.listen = IF FreeSlots(t, a) = {} THEN @ ELSE @ \cup {fd},
            !.max = IF FreeSlots(t, a) # {} /\ fd > @ THEN fd ELSE @]

\* The first free slot takes the descriptor; a full table refuses it.
Attach(t, a, fd) ==
  IF FreeSlots(t, a) = {} THEN t
  ELSE [t EXCEPT !.conn[a][Least(FreeSlots(t, a))] = fd,
                 !.listen = @ \cup {fd},
                 !.max = IF fd > @ THEN fd ELSE @]

\* The first slot that holds the descriptor is freed and the set forgets it.
Dettach(t, a, fd) ==
  IF SlotsOf(t, a, fd) = {} THEN t
  ELSE [t EXCEPT !.conn[a][Least(SlotsOf(t, a, fd))] = Unused,
                 !.listen = @ \ {fd},
                 !.max = IF fd = @ THEN @ - 1 ELSE @]

\* close(_fd) happens only when the slot was found
CloseIfHeld(t, a, fd, fds) == IF SlotsOf(t, a, fd) = {} THEN fds ELSE fds \ {fd}

\* The number socket(), open() or accept() returns
NewFd(fd) == fd \in Fd \ open /\ \A g \in Fd \ open : fd <= g

-----------------------------------------------------------------------------
SocketInit == tab = EmptyTable /\ open = {}

\* main() opens the servers in the order of their ids, before the serial port
CreateServer(a) ==
  /\ tab.server[a] = Unused
  /\ \A b \in Server : b < a => tab.server[b] # Unused
  /\ \E fd \in Fd : /\ NewFd(fd)
                    /\ tab' = AppendServer(tab, a, fd)
                    /\ open' = open \cup {fd}

ServersUp == \A b \in Server : tab.server[b] # Unused
Booted    == ServersUp /\ Connections(tab, Usi) # {}

AttachSerial ==
  /\ ServersUp /\ ~Booted
  /\ \E fd \in Fd : /\ NewFd(fd)
                    /\ tab' = Attach(tab, Usi, fd)
                    /\ open' = open \cup {fd}

\* Fault: the connection there is no slot for is not closed.
AcceptLeaks(a) ==
  \E fd \in Fd :
    /\ NewFd(fd)
    /\ tab' = Attach(tab, a, fd)
    /\ open' = open \cup {fd}

\* socket_accept_conn: a connection the table has no slot for is closed again
AcceptConn(a) ==
  \E fd \in Fd :
    /\ NewFd(fd)
    /\ tab' = Attach(tab, a, fd)
    /\ open' = IF FreeSlots(tab, a) = {} THEN open ELSE open \cup {fd}

\* Fault: the newcomer is not dropped.
AcceptEveryOne(a) == AcceptConn(a)

\* The LINK branch of the callbacks that keep one connection: accept, count,
\* and drop whatever sits in the second slot.
AcceptOnlyOne(a) ==
  \E fd \in Fd :
    LET t == Attach(tab, a, fd)
        o == IF FreeSlots(tab, a) = {} THEN open ELSE open \cup {fd}
        second == t.conn[a][2]
    IN /\ NewFd(fd)
       /\ IF \E i, j \in Connections(t, a) : i # j
          THEN /\ tab' = Dettach(t, a, second)
               /\ open' = CloseIfHeld(t, a, second, o)
          ELSE tab' = t /\ open' = o

\* socket_check_connection when FIONREAD finds nothing: the peer has gone
DropConn(a, fd) ==
  /\ tab' = Dettach(tab, a, fd)
  /\ open' = CloseIfHeld(tab, a, fd, open)

SocketNext ==
  \/ \E a \in Server : CreateServer(a)
  \/ AttachSerial
  \/ \E a \in Server \ Single : Booted /\ AcceptConn(a)
  \/ \E a \in Single : Booted /\ AcceptOnlyOne(a)
  \/ \E a \in Server : \E s \in Connections(tab, a) : Booted /\ DropConn(a, tab.conn[a][s])

SocketSpec == SocketInit /\ [][SocketNext]_socketVars

-----------------------------------------------------------------------------
\* Type invariant: a record of the shapes above; si_max_listener is never negative.
SocketTypeOK ==
  /\ tab \in [server : [App -> Fd \cup {Unused}],
              conn   : [App -> [Slot -> Fd \cup {Unused}]],
              listen : SUBSET Fd,
              max    : Nat]
  /\ open \in SUBSET Fd

\* select() watches exactly the descriptors some slot or server entry owns: a
\* descriptor it reports can always be attributed to an application
\* (socket_select's last loop never falls through to SOCKET_ERROR).
ListenersAreOwned == tab.listen = Owned(tab)

\* si_max_listener, which is only ever raised by an attach and lowered by one
\* when its own descriptor is detached, never falls below a watched descriptor:
\* select(si_max_listener + 1, ...) would be deaf to it.
MaxCoversListeners == \A fd \in tab.listen : fd <= tab.max

\* A descriptor number has one owner, although numbers are reused as soon as
\* they are closed: socket_select's scan cannot hand an event to the wrong one.
OneOwner ==
  \A a, b \in App :
    /\ \A s, r \in Slot : tab.conn[a][s] # Unused /\ tab.conn[a][s] = tab.conn[b][r]
                          => a = b /\ s = r
    /\ tab.server[a] # Unused => /\ tab.server[a] = tab.server[b] => a = b
                                 /\ SlotsOf(tab, b, tab.server[a]) = {}

\* No accept or detach leaks a descriptor, and none leaves a closed one in the table.
NoLeakNoDangling == open = Owned(tab)

\* PRIME Manager and DLMSoTCP never have a second client, and theirs is in the
\* first slot, which is why dropping entry 1 of the array drops the newcomer.
SingleConnection == \A a \in Single : Connections(tab, a) \subseteq {1}
==============================================================================

--------------------------- MODULE MainLoopProofs ---------------------------
(***************************************************************************)
(* Proofs about MainLoop: the loop only does to the socket table what      *)
(* SocketHandler allows, so everything proved there holds of the daemon,   *)
(* and DLMSoTCP's remembered descriptor is its client's.  The argument     *)
(* needs the client in the first slot (SingleConnection) and the event     *)
(* attributed to the application that owns the descriptor.  The two        *)
(* descriptors that are never forgotten stay away from the listeners and   *)
(* the serial port, because these are opened first and never closed.       *)
(***************************************************************************)
EXTENDS MainLoop, SocketHandlerProofs

\* Only a client's descriptor has something to read.
Silent == \A fd \in Fd : rx[fd] # {} => fd \in ClientFds

\* The inductive invariant.
LInv == IInv /\ LoopTypeOK /\ DlmsFdIsLive /\ Silent

LEMMA IdFacts ==
  /\ DlmsOTcp \in Single /\ DlmsOTcp \in Server /\ DlmsOTcp \in App /\ DlmsOTcp # Usi
  /\ App \subseteq Nat /\ Server = App \ {Usi}
BY SocketAssumption, LoopAssumption DEF App

LEMMA InitInv == LoopInit => LInv
<1> SUFFICES ASSUME LoopInit PROVE LInv
  OBVIOUS
<1>1. IInv
  BY InitSound DEF LoopInit
<1>2. backlog \in [Server -> 0 .. MaxBacklog]
  BY LoopAssumption DEF LoopInit
<1>3. rx \in [Fd -> SUBSET {"data", "eof"}] /\ Silent
  BY DEF LoopInit, Silent
<1>4. QED
  BY <1>1, <1>2, <1>3 DEF LoopInit, LInv, LoopTypeOK, DlmsFdIsLive

\* A step that leaves the sockets alone keeps what is said of them.
LEMMA SameSockets ==
  ASSUME IInv, UNCHANGED <<tab, open>>
  PROVE  IInv' /\ ClientFds' = ClientFds
<1>1. tab' = tab /\ open' = open
  OBVIOUS
<1>2. Sound(tab', open') /\ OnlyFirst(tab')
  BY <1>1 DEF IInv
<1>3. ClientFds' = ClientFds
  BY <1>1 DEF ClientFds
<1>4. QED
  BY <1>2, <1>3 DEF IInv

\* socket_select attributes a watched descriptor to an application that owns it.
LEMMA OwnerOwns ==
  ASSUME IInv, NEW fd \in Reported
  PROVE  /\ fd \in Fd /\ Owner(fd) \in App
         /\ tab.server[Owner(fd)] = fd \/ SlotsOf(tab, Owner(fd), fd) # {}
<1> DEFINE S == {a \in App : tab.server[a] = fd \/ SlotsOf(tab, a, fd) # {}}
<1>1. fd \in tab.listen /\ fd \in Fd
  BY DEF Reported, IInv, Sound, Typed
<1>2. S # {}
  BY <1>1 DEF IInv, Sound, Watched, SlotsOf
<1>3. S \subseteq Nat
  BY IdFacts
<1>4. Least(S) \in S
  BY <1>2, <1>3, LeastInSet
<1>5. QED
  BY <1>1, <1>4 DEF Owner

\* A client that has gone was in a slot of the server.
LEMMA GoneSlot ==
  ASSUME IInv, NEW fd \in Reported, NEW a \in App, a = Owner(fd), DataEvent(a, fd)
  PROVE  /\ a \in Server
         /\ \E s \in Connections(tab, a) : tab.conn[a][s] = fd
<1>1. a \in Server /\ SlotsOf(tab, a, fd) # {} /\ fd \in Fd
  BY OwnerOwns, IdFacts DEF DataEvent
<1>2. PICK s \in Slot : tab.conn[a][s] = fd
  BY <1>1 DEF SlotsOf
<1>3. QED
  BY <1>1, <1>2, FdFacts DEF Connections

\* Every step of the loop is a step of the socket table, or leaves it alone.
LEMMA LoopStepIsSocketStep ==
  ASSUME IInv, [LoopNext]_loopVars
  PROVE  [SocketNext]_socketVars
<1>1. CASE UNCHANGED loopVars \/ ClientStep
  BY <1>1 DEF loopVars, socketVars, ClientStep, Connect, ClientSend, ClientClose, SerialInput
<1>2. CASE Boot
  BY <1>2 DEF Boot, SocketNext
<1>3. CASE Callback
  <2>1. PICK fd \in Reported, a \in App :
          a = Owner(fd) /\ (Link(a, fd) \/ ReadSome(a, fd) \/ PeerGone(a, fd) \/ UsiEvent(a))
    BY <1>3 DEF Callback
  <2>2. Booted
    BY <1>3 DEF Callback
  <2>3. CASE Link(a, fd)
    BY <2>2, <2>3, IdFacts DEF Link, SocketNext
  <2>4. CASE ReadSome(a, fd) \/ UsiEvent(a)
    BY <2>4 DEF ReadSome, UsiEvent, socketVars
  <2>5. CASE PeerGone(a, fd)
    <3>1. PICK s \in Connections(tab, a) : a \in Server /\ tab.conn[a][s] = fd
      BY <2>1, <2>5, GoneSlot DEF PeerGone
    <3>2. DropConn(a, tab.conn[a][s])
      BY <2>5, <3>1 DEF PeerGone
    <3>3. QED
      BY <2>2, <3>1, <3>2 DEF SocketNext
  <2>6. QED
    BY <2>1, <2>3, <2>4, <2>5
<1>4. QED
  BY <1>1, <1>2, <1>3 DEF LoopNext

-----------------------------------------------------------------------------
(* The invariant, step by step. *)

\* What keeps every connection keeps the clients' data and DLMSoTCP's descriptor.
LEMMA KeepsIsEnough ==
  ASSUME LInv, Keeps, UNCHANGED dlmsFd, \A fd \in Fd : rx'[fd] # {} => rx[fd] # {}
  PROVE  DlmsFdIsLive' /\ Silent'
<1>1. DlmsFdIsLive'
  BY IdFacts, SlotFacts DEF LInv, DlmsFdIsLive, Keeps
<1>2. ClientFds \subseteq ClientFds'
  <2> SUFFICES ASSUME NEW fd \in Fd, NEW b \in Server, SlotsOf(tab, b, fd) # {}
               PROVE  SlotsOf(tab', b, fd) # {}
    BY DEF ClientFds
  <2>1. PICK s \in Slot : tab.conn[b][s] = fd
    BY DEF SlotsOf
  <2>2. tab'.conn[b][s] = fd
    BY <2>1, FdFacts, AppFacts DEF Keeps
  <2>3. QED
    BY <2>2 DEF SlotsOf
<1>3. QED
  BY <1>1, <1>2 DEF LInv, Silent

LEMMA BootKeeps == ASSUME LInv, Boot PROVE LInv'
<1>1. IInv' /\ Keeps
  BY BootStep DEF LInv, Boot
<1>2. UNCHANGED <<backlog, rx, serial, loopback, cliFd, dlmsFd>>
  BY DEF Boot, envVars, heldVars
<1>3. LoopTypeOK'
  BY <1>2 DEF LInv, LoopTypeOK
<1>4. DlmsFdIsLive' /\ Silent'
  BY <1>1, <1>2, KeepsIsEnough
<1>5. QED
  BY <1>1, <1>3, <1>4 DEF LInv

LEMMA ClientKeeps == ASSUME LInv, ClientStep PROVE LInv'
<1>1. UNCHANGED <<tab, open, loopback, cliFd, dlmsFd>>
  BY DEF ClientStep, Connect, ClientSend, ClientClose, SerialInput, heldVars
<1>2. IInv' /\ DlmsFdIsLive' /\ ClientFds' = ClientFds
  BY <1>1, SameSockets DEF LInv, DlmsFdIsLive
<1>3. CASE \E a \in Server : Connect(a)
  <2>1. PICK a \in Server : Connect(a)
    BY <1>3
  <2>2. backlog[a] \in 0 .. MaxBacklog /\ backlog[a] < MaxBacklog /\ MaxBacklog \in Nat
    BY <2>1, LoopAssumption DEF LInv, LoopTypeOK, Connect
  <2>3. backlog[a] + 1 \in 0 .. MaxBacklog
    BY <2>2
  <2>4. backlog' \in [Server -> 0 .. MaxBacklog] /\ UNCHANGED <<rx, serial>>
    BY <2>1, <2>3 DEF Connect, LInv, LoopTypeOK
  <2>5. QED
    BY <1>1, <1>2, <2>4 DEF LInv, LoopTypeOK, Silent
<1>4. CASE \E fd \in Fd : ClientSend(fd) \/ ClientClose(fd)
  <2>1. PICK fd \in Fd : ClientSend(fd) \/ ClientClose(fd)
    BY <1>4
  <2>2. UNCHANGED <<backlog, serial>> /\ fd \in ClientFds
    BY <2>1 DEF ClientSend, ClientClose
  <2>3. rx' \in [Fd -> SUBSET {"data", "eof"}] /\ \A g \in Fd : g # fd => rx'[g] = rx[g]
    BY <2>1 DEF ClientSend, ClientClose, LInv, LoopTypeOK
  <2>4. QED
    BY <1>1, <1>2, <2>2, <2>3 DEF LInv, LoopTypeOK, Silent
<1>5. CASE SerialInput
  BY <1>1, <1>2, <1>5 DEF SerialInput, LInv, LoopTypeOK, Silent
<1>6. QED
  BY <1>3, <1>4, <1>5 DEF ClientStep

LEMMA LinkKeeps ==
  ASSUME LInv, Booted, NEW fd \in Reported, NEW a \in App, a = Owner(fd), Link(a, fd)
  PROVE  LInv'
<1>1. a \in Server /\ fd = tab.server[a] /\ fd \in Fd
  BY OwnerOwns, IdFacts DEF Link, LInv
<1>2. IInv' /\ Keeps
  <2>1. CASE a \in Single
    BY <1>1, <2>1, AcceptOnlyOneStep DEF Link, LInv
  <2>2. CASE a \notin Single
    BY <1>1, <2>2, AcceptStep DEF Link, LInv
  <2>3. QED
    BY <2>1, <2>2
<1>3. UNCHANGED <<serial, loopback, cliFd, dlmsFd>>
  BY DEF Link, heldVars
<1>4. \A g \in Fd : rx'[g] # {} => rx'[g] = rx[g]
  BY DEF Link, Forget
<1>5. rx' \in [Fd -> SUBSET {"data", "eof"}]
  BY DEF Link, Forget, LInv, LoopTypeOK
\* a listening socket holds no data, so it was reported for a waiting client
<1>6. backlog[a] > 0
  <2>1. UniqueServer(tab) /\ fd # Unused
    BY <1>1, FdFacts DEF LInv, IInv, Sound
  <2>2. \A b \in App : SlotsOf(tab, b, fd) = {}
    BY <1>1, <2>1 DEF UniqueServer, SlotsOf
  <2>3. rx[fd] = {}
    BY <1>1, <2>2, IdFacts DEF LInv, Silent, ClientFds
  <2>4. \A b \in Server : tab.server[b] = fd => b = a
    BY <1>1, <2>1, IdFacts DEF UniqueServer
  <2>5. QED
    BY <2>2, <2>3, <2>4, IdFacts, AppFacts DEF Reported, Readable
<1>7. backlog' \in [Server -> 0 .. MaxBacklog]
  <2>1. backlog[a] \in 0 .. MaxBacklog /\ MaxBacklog \in Nat
    BY <1>1, LoopAssumption DEF LInv, LoopTypeOK
  <2>2. backlog[a] - 1 \in 0 .. MaxBacklog
    BY <1>6, <2>1
  <2>3. QED
    BY <1>1, <2>2 DEF Link, LInv, LoopTypeOK
<1>8. LoopTypeOK'
  BY <1>3, <1>5, <1>7 DEF LInv, LoopTypeOK
<1>9. DlmsFdIsLive' /\ Silent'
  BY <1>2, <1>3, <1>4, KeepsIsEnough
<1>10. QED
  BY <1>2, <1>8, <1>9 DEF LInv

LEMMA ReadKeeps ==
  ASSUME LInv, NEW fd \in Reported, NEW a \in App, a = Owner(fd), ReadSome(a, fd)
  PROVE  LInv'
<1>1. fd \in Fd
  BY OwnerOwns DEF LInv
<1>2. UNCHANGED <<tab, open, backlog, serial>>
  BY DEF ReadSome
<1>3. IInv' /\ ClientFds' = ClientFds
  BY <1>2, SameSockets DEF LInv
<1>4. rx' \in [Fd -> SUBSET {"data", "eof"}] /\ \A g \in Fd : rx'[g] # {} => rx[g] # {}
  BY <1>1 DEF ReadSome, LInv, LoopTypeOK
<1>5. LoopTypeOK'
  BY <1>1, <1>2, <1>4 DEF ReadSome, LInv, LoopTypeOK
<1>6. Silent'
  BY <1>3, <1>4 DEF LInv, Silent
<1>7. DlmsFdIsLive'
  <2>1. CASE a = DlmsOTcp
    <3>1. PICK s \in Connections(tab, a) : tab.conn[a][s] = fd
      BY GoneSlot DEF ReadSome, LInv
    <3>2. s \in Slot /\ tab.conn[a][s] # Unused
      BY <3>1, <1>1, FdFacts DEF Connections
    <3>3. s = 1
      BY <2>1, <3>2, IdFacts DEF LInv, IInv, OnlyFirst
    <3>4. QED
      BY <1>2, <2>1, <3>1, <3>3 DEF ReadSome, DlmsFdIsLive
  <2>2. CASE a # DlmsOTcp
    BY <1>2, <2>2 DEF ReadSome, LInv, DlmsFdIsLive
  <2>3. QED
    BY <2>1, <2>2
<1>8. QED
  BY <1>3, <1>5, <1>6, <1>7 DEF LInv

LEMMA GoneKeeps ==
  ASSUME LInv, NEW fd \in Reported, NEW a \in App, a = Owner(fd), PeerGone(a, fd)
  PROVE  LInv'
<1>1. PICK s \in Connections(tab, a) : a \in Server /\ tab.conn[a][s] = fd
  BY GoneSlot DEF PeerGone, LInv
<1>2. fd \in Fd /\ s \in Slot
  BY <1>1, OwnerOwns DEF LInv, Connections
<1>3. /\ IInv'
      /\ \A b \in App : \A r \in Slot :
            tab'.conn[b][r] = IF b = a /\ r = s THEN Unused ELSE tab.conn[b][r]
  BY <1>1, DropStep DEF PeerGone, LInv
<1>4. UNCHANGED <<backlog, serial, loopback>>
  BY DEF PeerGone
<1>5. LoopTypeOK'
  <2>1. rx' \in [Fd -> SUBSET {"data", "eof"}]
    BY DEF PeerGone, Forget, LInv, LoopTypeOK
  <2>2. cliFd' \in Fd \cup {NoFd} /\ dlmsFd' \in Fd \cup {Unused}
    BY <1>2 DEF PeerGone, LInv, LoopTypeOK
  <2>3. QED
    BY <1>4, <2>1, <2>2 DEF LInv, LoopTypeOK
<1>6. Silent'
  <2> SUFFICES ASSUME NEW g \in Fd, rx'[g] # {} PROVE g \in ClientFds'
    BY DEF Silent
  <2>1. open' = open \ {fd}
    BY <1>1, <1>2 DEF PeerGone, DropConn, CloseIfHeld, SlotsOf
  <2>2. g # fd /\ rx[g] # {}
    BY <2>1 DEF PeerGone, Forget
  <2>3. PICK b \in Server, r \in Slot : tab.conn[b][r] = g
    BY <2>2 DEF LInv, Silent, ClientFds, SlotsOf
  <2>4. tab'.conn[b][r] = g
    BY <1>1, <1>3, <2>2, <2>3, AppFacts
  <2>5. QED
    BY <2>3, <2>4 DEF ClientFds, SlotsOf
<1>7. DlmsFdIsLive'
  <2>1. CASE a = DlmsOTcp
    <3>1. tab.conn[a][s] # Unused
      BY <1>1, <1>2, FdFacts
    <3>2. s = 1
      BY <1>2, <2>1, <3>1, IdFacts DEF LInv, IInv, OnlyFirst
    <3>3. \A r \in Slot : tab'.conn[a][r] = Unused
      BY <1>3, <2>1, <3>2, IdFacts DEF LInv, IInv, OnlyFirst
    <3>4. ~(Unused > 0)
      BY DEF Unused
    <3>5. Connections(tab', a) = {}
      BY <3>3, <3>4 DEF Connections
    <3>6. QED
      BY <2>1, <3>5 DEF PeerGone, DlmsFdIsLive
  <2>2. CASE a # DlmsOTcp
    BY <1>3, <2>2, IdFacts, SlotFacts DEF PeerGone, LInv, DlmsFdIsLive
  <2>3. QED
    BY <2>1, <2>2
<1>8. QED
  BY <1>3, <1>5, <1>6, <1>7 DEF LInv

\* The invariant holds of every behaviour of the daemon.
THEOREM LoopInvariant == LoopSpec => []LInv
<1>1. LInv /\ [LoopNext]_loopVars => LInv'
  <2> SUFFICES ASSUME LInv, [LoopNext]_loopVars PROVE LInv'
    OBVIOUS
  <2>1. CASE UNCHANGED loopVars
    <3>1. IInv' /\ ClientFds' = ClientFds
      BY <2>1, SameSockets DEF loopVars, LInv
    <3>2. QED
      BY <2>1, <3>1 DEF loopVars, envVars, heldVars, LInv, LoopTypeOK, DlmsFdIsLive, Silent
  <2>2. CASE Boot \/ ClientStep
    BY <2>2, BootKeeps, ClientKeeps
  <2>3. CASE Callback
    <3>1. PICK fd \in Reported, a \in App :
            a = Owner(fd) /\ (Link(a, fd) \/ ReadSome(a, fd) \/ PeerGone(a, fd) \/ UsiEvent(a))
      BY <2>3 DEF Callback
    <3>2. Booted
      BY <2>3 DEF Callback
    <3>3. CASE Link(a, fd)
      BY <3>1, <3>2, <3>3, LinkKeeps
    <3>4. CASE ReadSome(a, fd)
      BY <3>1, <3>4, ReadKeeps
    <3>5. CASE PeerGone(a, fd)
      BY <3>1, <3>5, GoneKeeps
    <3>6. CASE UsiEvent(a)
      <4>1. IInv' /\ ClientFds' = ClientFds
        BY <3>6, SameSockets DEF UsiEvent, LInv
      <4>2. QED
        BY <3>6, <4>1 DEF UsiEvent, heldVars, LInv, LoopTypeOK, DlmsFdIsLive, Silent
    <3>7. QED
      BY <3>1, <3>3, <3>4, <3>5, <3>6
  <2>4. QED
    BY <2>1, <2>2, <2>3 DEF LoopNext
<1>2. QED
  BY InitInv, <1>1, PTL DEF LoopSpec

\* The daemon's loop implements the socket table's specification.
THEOREM LoopImplementsSockets == LoopSpec => SocketSpec
<1>1. LoopInit => SocketInit
  BY DEF LoopInit
<1>2. LInv /\ [LoopNext]_loopVars => [SocketNext]_socketVars
  BY LoopStepIsSocketStep DEF LInv
<1>3. QED
  BY <1>1, <1>2, LoopInvariant, PTL DEF LoopSpec, SocketSpec

\* The loop's own state keeps its types.
THEOREM LoopTypeCorrect == LoopSpec => []LoopTypeOK
<1>1. LInv => LoopTypeOK
  BY DEF LInv
<1>2. QED
  BY <1>1, LoopInvariant, PTL

\* What the base node sends for DLMSoTCP's client reaches the client of now.
THEOREM DlmsFdAlwaysLive == LoopSpec => []DlmsFdIsLive
<1>1. LInv => DlmsFdIsLive
  BY DEF LInv
<1>2. QED
  BY <1>1, LoopInvariant, PTL

-----------------------------------------------------------------------------
(* The descriptors that are remembered too long. *)

NotClient(fd) == SlotsOf(tab, Usi, fd) # {} \/ \E a \in App : tab.server[a] = fd

HeldIsNoListener == \A fd \in {loopback, cliFd} \cap Fd : Booted /\ ~NotClient(fd)

\* No callback touches a server's entry or the slots of the serial port.
LEMMA CallbackFacts ==
  ASSUME LInv, Callback
  PROVE  /\ tab'.server = tab.server /\ tab'.conn[Usi] = tab.conn[Usi]
         /\ {loopback', cliFd'} \subseteq {loopback, cliFd} \cup ClientFds
<1>1. PICK fd \in Reported, a \in App :
        a = Owner(fd) /\ (Link(a, fd) \/ ReadSome(a, fd) \/ PeerGone(a, fd) \/ UsiEvent(a))
  BY DEF Callback
<1>2. Typed(tab, open)
  BY DEF LInv, IInv, Sound
<1>3. ASSUME NEW b \in Server, NEW t, NEW f,
             t.server = tab.server, t.conn[Usi] = tab.conn[Usi]
      PROVE  /\ Dettach(t, b, f).server = tab.server
             /\ Dettach(t, b, f).conn[Usi] = tab.conn[Usi]
  BY <1>3, SocketAssumption DEF Dettach
<1>4. ASSUME NEW b \in Server, NEW f
      PROVE  /\ Attach(tab, b, f).server = tab.server
             /\ Attach(tab, b, f).conn[Usi] = tab.conn[Usi]
  BY <1>2, <1>4, SocketAssumption DEF Attach, Typed
<1>5. CASE Link(a, fd)
  <2>1. a \in Server
    BY <1>5, IdFacts DEF Link
  <2>2. CASE a \in Single
    <3>1. PICK new \in Fd : \/ tab' = Attach(tab, a, new)
                            \/ tab' = Dettach(Attach(tab, a, new), a, Attach(tab, a, new).conn[a][2])
      BY <1>5, <2>2 DEF Link, AcceptOnlyOne
    <3>2. tab'.server = tab.server /\ tab'.conn[Usi] = tab.conn[Usi]
      BY <1>3, <1>4, <2>1, <3>1
    <3>3. QED
      BY <1>5, <3>2 DEF Link, heldVars
  <2>3. CASE a \notin Single
    BY <1>4, <1>5, <2>1, <2>3 DEF Link, AcceptConn, heldVars
  <2>4. QED
    BY <2>2, <2>3
<1>6. CASE ReadSome(a, fd) \/ PeerGone(a, fd)
  <2>1. PICK s \in Connections(tab, a) : a \in Server /\ tab.conn[a][s] = fd
    BY <1>1, <1>6, GoneSlot DEF ReadSome, PeerGone, LInv
  <2>2. fd \in ClientFds
    BY <1>1, <2>1, OwnerOwns DEF ClientFds, SlotsOf, Connections, LInv
  <2>3. CASE ReadSome(a, fd)
    BY <2>2, <2>3 DEF ReadSome
  <2>4. CASE PeerGone(a, fd)
    BY <1>3, <2>1, <2>2, <2>4 DEF PeerGone, DropConn
  <2>5. QED
    BY <1>6, <2>3, <2>4
<1>7. CASE UsiEvent(a)
  BY <1>7 DEF UsiEvent, heldVars
<1>8. QED
  BY <1>1, <1>5, <1>6, <1>7

LEMMA ClientIsClient == ASSUME LInv, NEW fd \in ClientFds PROVE fd \in Fd /\ ~NotClient(fd)
<1>1. PICK b \in Server, s \in Slot : fd \in Fd /\ tab.conn[b][s] = fd
  BY DEF ClientFds, SlotsOf
<1>2. fd # Unused /\ b \in App /\ b # Usi /\ Usi \in App
  BY <1>1, FdFacts, IdFacts, AppFacts
<1>3. \A r \in Slot : tab.conn[Usi][r] # fd
  BY <1>1, <1>2 DEF LInv, IInv, Sound, UniqueConn
<1>4. \A a \in App : tab.server[a] # fd
  BY <1>1, <1>2 DEF LInv, IInv, Sound, UniqueServer
<1>5. QED
  BY <1>1, <1>3, <1>4 DEF NotClient, SlotsOf

LEMMA HeldStep == ASSUME LInv, HeldIsNoListener, [LoopNext]_loopVars PROVE HeldIsNoListener'
<1>1. CASE UNCHANGED loopVars \/ ClientStep
  <2>1. UNCHANGED <<tab, loopback, cliFd>>
    BY <1>1 DEF loopVars, ClientStep, Connect, ClientSend, ClientClose, SerialInput, heldVars
  <2>2. QED
    BY <2>1 DEF HeldIsNoListener, NotClient, Booted, ServersUp, Connections, SlotsOf
<1>2. CASE Boot
  <2>1. ~Booted /\ UNCHANGED <<loopback, cliFd>>
    BY <1>2 DEF Boot, CreateServer, AttachSerial, Booted, ServersUp, heldVars
  <2>2. QED
    BY <2>1 DEF HeldIsNoListener
<1>3. CASE Callback
  <2>1. Booted /\ Booted' /\ \A fd : NotClient(fd)' <=> NotClient(fd)
    BY <1>3, CallbackFacts
       DEF Callback, Booted, ServersUp, Connections, NotClient, SlotsOf
  <2>2. ASSUME NEW fd \in {loopback', cliFd'} \cap Fd PROVE ~NotClient(fd)
    <3>1. CASE fd \in ClientFds
      BY <3>1, ClientIsClient
    <3>2. CASE fd \in {loopback, cliFd}
      BY <3>2 DEF HeldIsNoListener
    <3>3. QED
      BY <1>3, <3>1, <3>2, CallbackFacts
  <2>3. QED
    BY <2>1, <2>2 DEF HeldIsNoListener
<1>4. QED
  BY <1>1, <1>2, <1>3 DEF LoopNext

\* A descriptor remembered after its connection has gone is never a listener's nor the
\* serial port's.
THEOREM StaleAlwaysClient == LoopSpec => []StaleStaysClient
<1>1. LoopInit => HeldIsNoListener
  BY FdFacts DEF LoopInit, HeldIsNoListener, NoFd, Fd
<1>2. LInv /\ HeldIsNoListener => StaleStaysClient
  <2> SUFFICES ASSUME LInv, HeldIsNoListener, NEW fd \in {loopback, cliFd} \cap open
               PROVE  fd \in ClientFds
    BY DEF StaleStaysClient
  <2>1. fd \in Fd /\ fd \in tab.listen
    BY DEF LInv, IInv, Sound, Typed
  <2>2. PICK a \in App : tab.server[a] = fd \/ \E s \in Slot : tab.conn[a][s] = fd
    BY <2>1 DEF LInv, IInv, Sound, Watched
  <2>3. ~NotClient(fd)
    BY <2>1 DEF HeldIsNoListener
  <2>4. a \in Server /\ SlotsOf(tab, a, fd) # {}
    BY <2>2, <2>3, IdFacts DEF NotClient, SlotsOf
  <2>5. QED
    BY <2>1, <2>4 DEF ClientFds
<1>3. QED
  BY <1>1, <1>2, HeldStep, LoopInvariant, PTL DEF LoopSpec
=============================================================================

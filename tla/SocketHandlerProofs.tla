------------------------- MODULE SocketHandlerProofs -------------------------
(***************************************************************************)
(* Proofs about SocketHandler, for every number of servers, slots and      *)
(* descriptors.  The argument is one predicate on a table and a set of     *)
(* open descriptors, Sound, preserved by each function of socket_handler.c *)
(* (the three lemmas), plus SingleConnection, which needs the callbacks'   *)
(* order "accept, then drop the second slot".                              *)
(***************************************************************************)
EXTENDS SocketHandler, TLAPS, NaturalsInduction, WellFoundedInduction

Typed(t, o) ==
  /\ t \in [server : [App -> Fd \cup {Unused}],
            conn   : [App -> [Slot -> Fd \cup {Unused}]],
            listen : SUBSET Fd,
            max    : Nat]
  /\ o \in SUBSET Fd

UniqueConn(t) ==
  \A a, b \in App : \A s, r \in Slot :
     t.conn[a][s] # Unused /\ t.conn[a][s] = t.conn[b][r] => a = b /\ s = r

UniqueServer(t) ==
  \A a, b \in App : t.server[a] # Unused =>
     /\ t.server[a] = t.server[b] => a = b
     /\ \A s \in Slot : t.conn[b][s] # t.server[a]

Watched(t) ==
  \A fd \in Fd : fd \in t.listen <=>
     \E a \in App : t.server[a] = fd \/ \E s \in Slot : t.conn[a][s] = fd

Sound(t, o) ==
  /\ Typed(t, o)
  /\ Watched(t)
  /\ \A fd \in t.listen : fd <= t.max
  /\ UniqueConn(t)
  /\ UniqueServer(t)
  /\ o = t.listen

\* A nonempty set of naturals has a least element, so Least picks a member.
LEMMA LeastInSet ==
  ASSUME NEW S, S \subseteq Nat, S # {}
  PROVE  /\ Least(S) \in S
         /\ \A j \in S : Least(S) <= j
<1> DEFINE Less == {p \in Nat \X Nat : p[1] < p[2]}
<1>1. IsWellFoundedOn(Less, Nat)
  BY NatLessThanWellFounded DEF OpToRel
<1>2. PICK x \in S : \A y \in S : ~(<<y, x>> \in Less)
  BY <1>1, WFMin
<1>3. ASSUME NEW y \in S PROVE x <= y
  <2>1. x \in Nat /\ y \in Nat
    OBVIOUS
  <2>2. y < x => <<y, x>> \in Less
    BY <2>1
  <2>3. QED
    BY <1>2, <2>1, <2>2
<1>4. QED
  BY <1>3 DEF Least

-----------------------------------------------------------------------------
(* The functions of socket_handler.c keep a table sound. *)

LEMMA SlotFacts ==
  /\ Slot \subseteq Nat /\ \A s \in Slot : s >= 1
  /\ 1 \in Slot /\ 2 \in Slot
BY SocketAssumption DEF Slot

LEMMA FdFacts ==
  /\ Fd \subseteq Nat \ {0} /\ \A fd \in Fd : fd > 0
  /\ Unused \notin Fd /\ Unused \in Int
BY SocketAssumption DEF Fd, Unused

\* socket_attach_connection with a fresh descriptor and a free slot
LEMMA AttachSound ==
  ASSUME NEW t, NEW o, Sound(t, o),
         NEW a \in App, NEW fd \in Fd \ o, FreeSlots(t, a) # {}
  PROVE  Sound(Attach(t, a, fd), o \cup {fd})
<1> DEFINE k == Least(FreeSlots(t, a))
           u == [t EXCEPT !.conn[a][k] = fd,
                          !.listen = @ \cup {fd},
                          !.max = IF fd > @ THEN fd ELSE @]
<1>1. k \in Slot /\ t.conn[a][k] = Unused
  BY LeastInSet, SlotFacts DEF FreeSlots
<1>2. Attach(t, a, fd) = u
  BY DEF Attach
<1> HIDE DEF k
<1>3. Typed(t, o) /\ Watched(t) /\ UniqueConn(t) /\ UniqueServer(t)
      /\ (\A f \in t.listen : f <= t.max) /\ o = t.listen
  BY DEF Sound
<1>4. Typed(u, o \cup {fd})
  BY <1>1, <1>3, FdFacts DEF Typed
<1>5. /\ u.server = t.server
      /\ u.listen = t.listen \cup {fd}
      /\ u.max = IF fd > t.max THEN fd ELSE t.max
      /\ \A b \in App : \A s \in Slot :
            u.conn[b][s] = IF b = a /\ s = k THEN fd ELSE t.conn[b][s]
  BY <1>1, <1>3 DEF Typed
<1> HIDE DEF u
<1>6. \A b \in App : t.server[b] # fd /\ \A s \in Slot : t.conn[b][s] # fd
  BY <1>3 DEF Watched
<1>7. Watched(u)
  BY <1>1, <1>3, <1>5, <1>6, FdFacts DEF Watched
<1>8. \A f \in u.listen : f <= u.max
  <2>1. t.max \in Nat /\ fd \in Nat /\ \A f \in t.listen : f \in Nat
    BY <1>3, FdFacts DEF Typed
  <2>2. QED
    BY <1>3, <1>5, <2>1
<1>9. UniqueConn(u)
  BY <1>3, <1>5, <1>6 DEF UniqueConn
<1>10. UniqueServer(u)
  BY <1>3, <1>5, <1>6 DEF UniqueServer
<1>11. QED
  BY <1>2, <1>3, <1>4, <1>5, <1>7, <1>8, <1>9, <1>10 DEF Sound

\* socket_dettach_connection of a descriptor that a slot of the application holds
LEMMA DettachSound ==
  ASSUME NEW t, NEW o, Sound(t, o),
         NEW a \in App, NEW k \in Slot, t.conn[a][k] # Unused
  PROVE  /\ Sound(Dettach(t, a, t.conn[a][k]), CloseIfHeld(t, a, t.conn[a][k], o))
         /\ \A b \in App : \A s \in Slot :
               Dettach(t, a, t.conn[a][k]).conn[b][s] =
                 IF b = a /\ s = k THEN Unused ELSE t.conn[b][s]
<1> DEFINE fd == t.conn[a][k]
           u  == [t EXCEPT !.conn[a][k] = Unused,
                           !.listen = @ \ {fd},
                           !.max = IF fd = @ THEN @ - 1 ELSE @]
<1>1. Typed(t, o) /\ Watched(t) /\ UniqueConn(t) /\ UniqueServer(t)
      /\ (\A f \in t.listen : f <= t.max) /\ o = t.listen
  BY DEF Sound
<1>2. fd \in Fd
  BY <1>1 DEF Typed
<1>3. SlotsOf(t, a, fd) = {k}
  BY <1>1 DEF SlotsOf, UniqueConn
<1>4. Least(SlotsOf(t, a, fd)) = k
  BY <1>3, LeastInSet, SlotFacts
<1>5. Dettach(t, a, fd) = u
  BY <1>3, <1>4 DEF Dettach
<1>6. CloseIfHeld(t, a, fd, o) = o \ {fd}
  BY <1>3 DEF CloseIfHeld
<1>7. fd \in t.listen /\ fd <= t.max
  BY <1>1, <1>2 DEF Watched
<1>8. Typed(u, o \ {fd})
  <2>1. t.max \in Nat /\ (fd = t.max => t.max - 1 \in Nat)
    BY <1>1, <1>2, FdFacts DEF Typed
  <2>2. (IF fd = t.max THEN t.max - 1 ELSE t.max) \in Nat
    BY <2>1
  <2>3. [t.conn EXCEPT ![a][k] = Unused] \in [App -> [Slot -> Fd \cup {Unused}]]
    BY <1>1 DEF Typed
  <2>4. QED
    BY <1>1, <2>2, <2>3 DEF Typed
<1>9. /\ u.server = t.server
      /\ u.listen = t.listen \ {fd}
      /\ u.max = IF fd = t.max THEN t.max - 1 ELSE t.max
      /\ \A b \in App : \A s \in Slot :
            u.conn[b][s] = IF b = a /\ s = k THEN Unused ELSE t.conn[b][s]
  BY <1>1 DEF Typed
<1> HIDE DEF u
<1>10. Watched(u)
  BY <1>1, <1>2, <1>9, FdFacts DEF Watched, UniqueConn, UniqueServer
<1>11. \A f \in u.listen : f <= u.max
  <2>1. t.max \in Nat /\ fd \in Nat /\ \A f \in t.listen : f \in Nat
    BY <1>1, <1>2, FdFacts DEF Typed
  <2>2. QED
    BY <1>1, <1>9, <2>1
<1>12. UniqueConn(u)
  BY <1>1, <1>9 DEF UniqueConn
<1>13. UniqueServer(u)
  BY <1>1, <1>9 DEF UniqueServer
<1>14. QED
  <2>1. Sound(u, o \ {fd})
    BY <1>1, <1>8, <1>9, <1>10, <1>11, <1>12, <1>13 DEF Sound
  <2>2. QED
    BY <1>5, <1>6, <1>9, <2>1

\* socket_create_server with a fresh descriptor
LEMMA AppendServerSound ==
  ASSUME NEW t, NEW o, Sound(t, o),
         NEW a \in App, NEW fd \in Fd \ o, t.server[a] = Unused
  PROVE  Sound(AppendServer(t, a, fd), o \cup {fd})
<1> DEFINE u == AppendServer(t, a, fd)
<1>1. Typed(t, o) /\ Watched(t) /\ UniqueConn(t) /\ UniqueServer(t)
      /\ (\A f \in t.listen : f <= t.max) /\ o = t.listen
  BY DEF Sound
<1>2. Typed(u, o \cup {fd})
  BY <1>1, FdFacts DEF Typed, AppendServer
<1>3. /\ u.conn = t.conn
      /\ u.listen = t.listen \cup {fd}
      /\ u.max = IF fd > t.max THEN fd ELSE t.max
      /\ \A b \in App : u.server[b] = IF b = a THEN fd ELSE t.server[b]
  BY <1>1 DEF Typed, AppendServer
<1> HIDE DEF u
<1>4. \A b \in App : t.server[b] # fd /\ \A s \in Slot : t.conn[b][s] # fd
  BY <1>1 DEF Watched
<1>5. Watched(u)
  BY <1>1, <1>3, <1>4, FdFacts DEF Watched
<1>6. \A f \in u.listen : f <= u.max
  <2>1. t.max \in Nat /\ fd \in Nat /\ \A f \in t.listen : f \in Nat
    BY <1>1, FdFacts DEF Typed
  <2>2. QED
    BY <1>1, <1>3, <2>1
<1>7. UniqueConn(u)
  BY <1>1, <1>3 DEF UniqueConn
<1>8. UniqueServer(u)
  BY <1>1, <1>3, <1>4 DEF UniqueServer
<1>9. QED
  BY <1>1, <1>2, <1>3, <1>5, <1>6, <1>7, <1>8 DEF u, Sound

-----------------------------------------------------------------------------
(* The invariant of SocketSpec.                                            *)

OnlyFirst(t) == \A a \in Single : \A s \in Slot : s # 1 => t.conn[a][s] = Unused

IInv == Sound(tab, open) /\ OnlyFirst(tab)

\* A step of the boot or of an accept leaves every connection where it is.
Keeps == \A b \in App : \A s \in Slot :
           tab.conn[b][s] # Unused => tab'.conn[b][s] = tab.conn[b][s]

LEMMA AttachKeeps ==
  ASSUME NEW o, Sound(tab, o), NEW a \in App, NEW fd \in Fd, tab' = Attach(tab, a, fd)
  PROVE  Keeps
<1> DEFINE k == Least(FreeSlots(tab, a))
<1>1. CASE FreeSlots(tab, a) = {}
  BY <1>1 DEF Attach, Keeps
<1>2. CASE FreeSlots(tab, a) # {}
  <2>1. k \in Slot /\ tab.conn[a][k] = Unused
    BY <1>2, LeastInSet, SlotFacts DEF FreeSlots
  <2>2. tab' = [tab EXCEPT !.conn[a][k] = fd, !.listen = @ \cup {fd},
                           !.max = IF fd > @ THEN fd ELSE @]
    BY <1>2 DEF Attach
  <2> HIDE DEF k
  <2>3. \A b \in App : \A s \in Slot :
          tab'.conn[b][s] = IF b = a /\ s = k THEN fd ELSE tab.conn[b][s]
    BY <2>1, <2>2 DEF Sound, Typed
  <2>4. QED
    BY <2>1, <2>3 DEF Keeps
<1>3. QED
  BY <1>1, <1>2

LEMMA AppFacts == Server \subseteq App /\ Usi \in App /\ Single \subseteq App /\ Usi \notin Single
BY SocketAssumption DEF App

LEMMA InitSound == SocketInit => IInv
<1> SUFFICES ASSUME SocketInit PROVE IInv
  OBVIOUS
<1>1. tab = EmptyTable /\ open = {}
  BY DEF SocketInit
<1>2. Typed(tab, open)
  BY <1>1, FdFacts DEF Typed, EmptyTable
<1>3. /\ \A a \in App : tab.server[a] = Unused /\ \A s \in Slot : tab.conn[a][s] = Unused
      /\ tab.listen = {}
  BY <1>1 DEF EmptyTable
<1>4. Sound(tab, open)
  BY <1>1, <1>2, <1>3, FdFacts DEF Sound, Watched, UniqueConn, UniqueServer
<1>5. OnlyFirst(tab)
  BY <1>3, AppFacts DEF OnlyFirst
<1>6. QED
  BY <1>4, <1>5 DEF IInv

\* A step of the boot: a server socket or the serial port
LEMMA BootStep ==
  ASSUME IInv, (\E a \in Server : CreateServer(a)) \/ AttachSerial
  PROVE  IInv' /\ Keeps
<1>1. Sound(tab, open) /\ OnlyFirst(tab)
  BY DEF IInv
<1>2. CASE \E a \in Server : CreateServer(a)
  <2>1. PICK a \in Server : CreateServer(a)
    BY <1>2
  <2>2. PICK fd \in Fd \ open : tab' = AppendServer(tab, a, fd) /\ open' = open \cup {fd}
    BY <2>1 DEF CreateServer, NewFd
  <2>3. Sound(tab', open')
    BY <1>1, <2>1, <2>2, AppendServerSound, AppFacts DEF CreateServer
  <2>4. tab'.conn = tab.conn
    BY <1>1, <2>2 DEF AppendServer, Sound, Typed
  <2>5. QED
    BY <1>1, <2>3, <2>4 DEF IInv, OnlyFirst, Keeps
<1>3. CASE AttachSerial
  <2>1. PICK fd \in Fd \ open : tab' = Attach(tab, Usi, fd) /\ open' = open \cup {fd}
    BY <1>3 DEF AttachSerial, NewFd
  <2>2. FreeSlots(tab, Usi) # {}
    <3>1. Connections(tab, Usi) = {}
      BY <1>3 DEF AttachSerial, Booted
    <3>2. tab.conn[Usi][1] \in Fd \cup {Unused}
      BY <1>1, AppFacts, SlotFacts DEF Sound, Typed
    <3>3. ~(tab.conn[Usi][1] > 0)
      BY <3>1, SlotFacts DEF Connections
    <3>4. tab.conn[Usi][1] = Unused
      BY <3>2, <3>3, FdFacts
    <3>5. QED
      BY <3>4, SlotFacts DEF FreeSlots
  <2>3. Sound(tab', open')
    BY <1>1, <2>1, <2>2, AttachSound, AppFacts
  <2>4. \A a \in Single : tab'.conn[a] = tab.conn[a]
    BY <1>1, <2>1, AppFacts DEF Attach, Sound, Typed
  <2>5. Keeps
    BY <1>1, <2>1, AttachKeeps, AppFacts
  <2>6. QED
    BY <1>1, <2>3, <2>4, <2>5 DEF IInv, OnlyFirst
<1>4. QED
  BY <1>2, <1>3

\* Accepting for an application that keeps every connection
LEMMA AcceptStep ==
  ASSUME IInv, NEW a \in Server \ Single, AcceptConn(a)
  PROVE  IInv' /\ Keeps
<1>1. Sound(tab, open) /\ OnlyFirst(tab)
  BY DEF IInv
<1>2. PICK fd \in Fd \ open :
         /\ tab' = Attach(tab, a, fd)
         /\ open' = IF FreeSlots(tab, a) = {} THEN open ELSE open \cup {fd}
  BY DEF AcceptConn, NewFd
<1>3. Sound(tab', open')
  <2>1. CASE FreeSlots(tab, a) = {}
    BY <1>1, <1>2, <2>1 DEF Attach
  <2>2. CASE FreeSlots(tab, a) # {}
    BY <1>1, <1>2, <2>2, AttachSound, AppFacts
  <2>3. QED
    BY <2>1, <2>2
<1>4. \A b \in Single : tab'.conn[b] = tab.conn[b]
  BY <1>1, <1>2, AppFacts DEF Attach, Sound, Typed
<1>5. Keeps
  BY <1>1, <1>2, AttachKeeps, AppFacts
<1>6. QED
  BY <1>1, <1>3, <1>4, <1>5 DEF IInv, OnlyFirst

\* The callbacks that keep one connection
LEMMA AcceptOnlyOneStep ==
  ASSUME IInv, NEW a \in Single, AcceptOnlyOne(a)
  PROVE  IInv' /\ Keeps
<1>1. Sound(tab, open) /\ OnlyFirst(tab) /\ a \in App
  BY AppFacts DEF IInv
<1>2. PICK fd \in Fd \ open :
         LET t == Attach(tab, a, fd)
             o == IF FreeSlots(tab, a) = {} THEN open ELSE open \cup {fd}
         IN IF \E i, j \in Connections(t, a) : i # j
            THEN /\ tab' = Dettach(t, a, t.conn[a][2])
                 /\ open' = CloseIfHeld(t, a, t.conn[a][2], o)
            ELSE tab' = t /\ open' = o
  BY DEF AcceptOnlyOne, NewFd
<1>3. tab.conn[a][2] = Unused /\ FreeSlots(tab, a) # {}
  BY <1>1, SlotFacts DEF OnlyFirst, FreeSlots
<1> DEFINE k == Least(FreeSlots(tab, a))
           t == Attach(tab, a, fd)
           o == open \cup {fd}
<1>4. Sound(t, o)
  BY <1>1, <1>3, AttachSound
<1>5. k \in FreeSlots(tab, a) /\ (\A j \in FreeSlots(tab, a) : k <= j) /\ k <= 2
  BY <1>3, LeastInSet, SlotFacts DEF FreeSlots
<1> HIDE DEF k
<1>6. k \in Slot /\ (k = 1 \/ k = 2) /\ tab.conn[a][k] = Unused
  <2>1. k \in Slot /\ tab.conn[a][k] = Unused
    BY <1>5 DEF FreeSlots
  <2>2. k \in Nat /\ k >= 1
    BY <2>1, SlotFacts
  <2>3. QED
    BY <1>5, <2>1, <2>2
<1>7. \A b \in App : \A s \in Slot :
        t.conn[b][s] = IF b = a /\ s = k THEN fd ELSE tab.conn[b][s]
  BY <1>1, <1>3, <1>6 DEF Attach, Sound, Typed, k
<1> HIDE DEF t, o
<1>8. IF \E i, j \in Connections(t, a) : i # j
      THEN /\ tab' = Dettach(t, a, t.conn[a][2])
           /\ open' = CloseIfHeld(t, a, t.conn[a][2], o)
      ELSE tab' = t /\ open' = o
  BY <1>2, <1>3 DEF t, o
\* The newcomer took the first slot: nobody else is connected
<1>9. CASE k = 1
  <2>1. \A s \in Slot : s # 1 => t.conn[a][s] = Unused
    BY <1>1, <1>7, <1>9 DEF OnlyFirst
  <2>2. ~(Unused > 0)
    BY DEF Unused
  <2>3. ~\E i, j \in Connections(t, a) : i # j
    BY <2>1, <2>2 DEF Connections
  <2>4. tab' = t /\ open' = o
    BY <1>8, <2>3
  <2>5. OnlyFirst(t)
    BY <1>1, <1>7, <1>9, AppFacts, <2>1 DEF OnlyFirst
  <2>6. Keeps
    BY <1>6, <1>7, <2>4 DEF Keeps
  <2>7. QED
    BY <1>4, <2>4, <2>5, <2>6 DEF IInv
\* It took the second: the first is in use, and the second is dropped
<1>10. CASE k = 2
  <2>1. t.conn[a][2] = fd /\ fd # Unused
    BY <1>1, <1>7, <1>10, SlotFacts, FdFacts
  <2>2. t.conn[a][1] > 0
    <3>1. tab.conn[a][1] # Unused
      <4>1. 1 \notin FreeSlots(tab, a)
        BY <1>5, <1>10
      <4>2. QED
        BY <4>1, SlotFacts DEF FreeSlots
    <3>2. tab.conn[a][1] \in Fd
      BY <1>1, <3>1, SlotFacts DEF Sound, Typed
    <3>3. QED
      BY <1>1, <1>7, <1>10, <3>2, SlotFacts, FdFacts
  <2>3. \E i, j \in Connections(t, a) : i # j
    BY <2>1, <2>2, SlotFacts, FdFacts DEF Connections
  <2>4. tab' = Dettach(t, a, t.conn[a][2]) /\ open' = CloseIfHeld(t, a, t.conn[a][2], o)
    BY <1>8, <2>3
  <2>5. /\ Sound(tab', open')
        /\ \A b \in App : \A s \in Slot :
             tab'.conn[b][s] = IF b = a /\ s = 2 THEN Unused ELSE t.conn[b][s]
    BY <1>1, <1>4, <2>1, <2>4, SlotFacts, DettachSound
  <2>6. OnlyFirst(tab')
    BY <1>1, <1>7, <1>10, <2>5, AppFacts DEF OnlyFirst
  <2>7. Keeps
    BY <1>3, <1>6, <1>7, <1>10, <2>5 DEF Keeps
  <2>8. QED
    BY <2>5, <2>6, <2>7 DEF IInv
<1>11. QED
  BY <1>6, <1>9, <1>10

\* A peer that has gone
LEMMA DropStep ==
  ASSUME IInv, NEW a \in Server, NEW s \in Connections(tab, a), DropConn(a, tab.conn[a][s])
  PROVE  /\ IInv'
         /\ \A b \in App : \A r \in Slot :
               tab'.conn[b][r] = IF b = a /\ r = s THEN Unused ELSE tab.conn[b][r]
<1>1. Sound(tab, open) /\ OnlyFirst(tab) /\ a \in App
  BY AppFacts DEF IInv
<1>2. s \in Slot /\ tab.conn[a][s] # Unused
  BY DEF Connections, Unused
<1>3. /\ Sound(tab', open')
      /\ \A b \in App : \A r \in Slot :
           tab'.conn[b][r] = IF b = a /\ r = s THEN Unused ELSE tab.conn[b][r]
  BY <1>1, <1>2, DettachSound DEF DropConn
<1>4. OnlyFirst(tab')
  BY <1>1, <1>3, AppFacts DEF OnlyFirst
<1>5. QED
  BY <1>3, <1>4 DEF IInv

LEMMA SocketStep == IInv /\ [SocketNext]_socketVars => IInv'
<1> SUFFICES ASSUME IInv, [SocketNext]_socketVars PROVE IInv'
  OBVIOUS
<1>1. CASE (\E a \in Server : CreateServer(a)) \/ AttachSerial
  BY <1>1, BootStep
<1>2. CASE \E a \in Server \ Single : Booted /\ AcceptConn(a)
  BY <1>2, AcceptStep
<1>3. CASE \E a \in Single : Booted /\ AcceptOnlyOne(a)
  BY <1>3, AcceptOnlyOneStep
<1>4. CASE \E a \in Server : \E s \in Connections(tab, a) :
              Booted /\ DropConn(a, tab.conn[a][s])
  BY <1>4, DropStep
<1>5. CASE UNCHANGED socketVars
  BY <1>5 DEF socketVars, IInv, Sound, Typed, Watched, UniqueConn, UniqueServer, OnlyFirst
<1>6. QED
  BY <1>1, <1>2, <1>3, <1>4, <1>5 DEF SocketNext

\* The socket table stays sound through boot, connections and disconnections.
THEOREM SocketInvariant == SocketSpec => []IInv
<1>1. QED
  BY InitSound, SocketStep, PTL DEF SocketSpec

-----------------------------------------------------------------------------
(* What the invariant says about the daemon.                               *)

\* The table, the watched set and the maximum keep their types.
THEOREM SocketTypeCorrect == SocketSpec => []SocketTypeOK
<1>1. IInv => SocketTypeOK
  BY DEF IInv, Sound, Typed, SocketTypeOK
<1>2. QED
  BY <1>1, SocketInvariant, PTL

\* select() is never deaf to a descriptor it was asked to watch.
THEOREM MaxCovers == SocketSpec => []MaxCoversListeners
<1>1. IInv => MaxCoversListeners
  BY DEF IInv, Sound, MaxCoversListeners
<1>2. QED
  BY <1>1, SocketInvariant, PTL

\* select() watches exactly the descriptors the tables own.
THEOREM WatchedAreOwned == SocketSpec => []ListenersAreOwned
<1>1. IInv => ListenersAreOwned
  <2> SUFFICES ASSUME IInv PROVE ListenersAreOwned
    OBVIOUS
  <2>1. tab.listen \subseteq Fd
    BY DEF IInv, Sound, Typed
  <2>2. \A fd \in Fd : fd \in tab.listen <=> fd \in Owned(tab)
    BY DEF IInv, Sound, Watched, Owned, SlotsOf
  <2>3. Owned(tab) \subseteq Fd
    BY DEF Owned
  <2>4. QED
    BY <2>1, <2>2, <2>3 DEF ListenersAreOwned
<1>2. QED
  BY <1>1, SocketInvariant, PTL

\* Neither a leaked nor a dangling descriptor.
THEOREM NoLeak == SocketSpec => []NoLeakNoDangling
<1>1. IInv /\ ListenersAreOwned => NoLeakNoDangling
  BY DEF IInv, Sound, ListenersAreOwned, NoLeakNoDangling
<1>2. QED
  BY <1>1, SocketInvariant, WatchedAreOwned, PTL

\* A number the kernel hands out twice still has one owner at a time.
THEOREM OwnerIsUnique == SocketSpec => []OneOwner
<1>1. IInv => OneOwner
  BY DEF IInv, Sound, UniqueConn, UniqueServer, OneOwner, SlotsOf
<1>2. QED
  BY <1>1, SocketInvariant, PTL

\* One client at most, in the first slot, for the callbacks that promise it.
THEOREM OneClient == SocketSpec => []SingleConnection
<1>1. IInv => SingleConnection
  <2> SUFFICES ASSUME IInv PROVE SingleConnection
    OBVIOUS
  <2>1. ~(Unused > 0)
    BY DEF Unused
  <2>2. QED
    BY <2>1 DEF IInv, OnlyFirst, SingleConnection, Connections
<1>2. QED
  BY <1>1, SocketInvariant, PTL
=============================================================================

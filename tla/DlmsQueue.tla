----------------------------- MODULE DlmsQueue -----------------------------
(***************************************************************************)
(* dlmsotcp.c: the relay of DLMS messages from the concentrator to the     *)
(* base node.  MAX_MSG_LIST buffers travel between a free list and a list  *)
(* of messages waiting for their confirm; only the head of that list has   *)
(* been requested.  The base node confirms requests, late or never, and    *)
(* the daemon does not look at which request a confirm answers: not even   *)
(* whether it is one of the emulator's, which come here when DLMSoTCP was  *)
(* the last to select itself.                                              *)
(*                                                                         *)
(* A message is its number in order of acceptance; destination, lsap and   *)
(* payload travel with it.  A time stamp is modelled by its age.           *)
(***************************************************************************)
EXTENDS Naturals, Sequences

CONSTANTS
  NumBuf,   \* MAX_MSG_LIST, 5 in the code
  Limit,    \* seconds a confirm may take, 40 in the code
  MaxMsg    \* bound: messages the concentrator sends

ASSUME QueueAssumption ==
  NumBuf \in Nat \ {0} /\ Limit \in Nat /\ MaxMsg \in Nat

Buf == 1 .. NumBuf
Old == Limit + 1      \* every age beyond the limit is the same
Foreign == 0          \* a request of the emulator's; messages are numbered from 1

VARIABLES
  free,      \* x_free_messages_list
  pending,   \* x_pending_cfm_messages_list
  held,      \* the message in each buffer
  age,       \* seconds since each buffer's ui_timestamp
  accepted,  \* messages accepted so far
  sent,      \* requests made to the PRIME stack, oldest first
  atBase,    \* requests the base node has not confirmed
  astray,    \* a head was freed by something else than its own confirm, and since then
             \* the base node has never been without a request to confirm
  crashed,   \* a null buffer was put in the free list
  lost       \* some request or its confirm was lost

buffers   == <<free, pending, held, age>>
queueVars == <<buffers, accepted, sent, atBase, astray, crashed, lost>>

QueueInit ==
  /\ free = [i \in Buf |-> i] /\ pending = <<>>
  /\ held = [b \in Buf |-> 0] /\ age = [b \in Buf |-> Old]
  /\ accepted = 0 /\ sent = <<>> /\ atBase = {}
  /\ astray = FALSE /\ crashed = FALSE /\ lost = FALSE

-----------------------------------------------------------------------------
(* dlmsotcp_RxProcess, the branch that forwards a DLMS message. *)

\* The buffer taken from the free list is filled and stamped.
Fill(b) ==
  /\ held' = [held EXCEPT ![b] = accepted + 1]
  /\ accepted' = accepted + 1

Arrives == ~crashed /\ accepted < MaxMsg

Overdue(b) == age[b] > Limit

\* Nothing waits for a confirm: the message is requested at once.
RxFirst ==
  /\ Arrives /\ free # <<>> /\ pending = <<>>
  /\ Fill(Head(free))
  /\ age' = [age EXCEPT ![Head(free)] = 0]
  /\ sent' = Append(sent, accepted + 1) /\ atBase' = atBase \cup {accepted + 1}
  /\ pending' = <<Head(free)>> /\ free' = Tail(free)
  /\ UNCHANGED <<astray, crashed>>

\* Fault: a message is requested although another waits for its confirm.
RxNeverWaits ==
  /\ Arrives /\ free # <<>> /\ pending # <<>> /\ ~Overdue(Head(pending))
  /\ Fill(Head(free))
  /\ age' = [age EXCEPT ![Head(free)] = 0]
  /\ pending' = Append(pending, Head(free)) /\ free' = Tail(free)
  /\ sent' = Append(sent, accepted + 1) /\ atBase' = atBase \cup {accepted + 1}
  /\ UNCHANGED <<astray, crashed>>

\* Something does, and not for too long: the message waits its turn.
RxWait ==
  /\ Arrives /\ free # <<>> /\ pending # <<>> /\ ~Overdue(Head(pending))
  /\ Fill(Head(free))
  /\ age' = [age EXCEPT ![Head(free)] = 0]
  /\ pending' = Append(pending, Head(free)) /\ free' = Tail(free)
  /\ UNCHANGED <<sent, atBase, astray, crashed>>

\* Fault: the head is requested again and not the next message.
RxGivesUpOnNext ==
  /\ Arrives /\ free # <<>> /\ pending # <<>> /\ Overdue(Head(pending))
  /\ Fill(Head(free))
  /\ LET old == Head(pending)
     IN /\ pending' = Append(Tail(pending), Head(free))
        /\ free' = Append(Tail(free), old)
        /\ age' = [age EXCEPT ![Head(free)] = 0]
        /\ sent' = Append(sent, held[old]) /\ atBase' = atBase \cup {held[old]}
  /\ astray' = (atBase # {})
  /\ UNCHANGED crashed

\* Fault: an overdue head takes the one behind it along.
RxGivesUpOnTwo ==
  /\ Arrives /\ free # <<>> /\ Len(pending) > 1 /\ Overdue(Head(pending))
  /\ Fill(Head(free))
  /\ LET left == Append(Tail(Tail(pending)), Head(free))
     IN /\ pending' = left
        /\ free' = Append(Append(Tail(free), pending[1]), pending[2])
        /\ age' = [age EXCEPT ![Head(free)] = 0, ![Head(left)] = 0]
        /\ sent' = Append(Append(sent, held[pending[2]]), held'[Head(left)])
        /\ atBase' = atBase \cup {held[pending[2]], held'[Head(left)]}
  /\ astray' = (atBase # {})
  /\ UNCHANGED crashed

\* The head's confirm is overdue: its buffer is freed, and the next message,
\* which may be the one that has just arrived, is stamped and requested.
RxGiveUp ==
  /\ Arrives /\ free # <<>> /\ pending # <<>> /\ Overdue(Head(pending))
  /\ Fill(Head(free))
  /\ LET next == Head(pending')
     IN /\ pending' = Append(Tail(pending), Head(free))
        /\ free' = Append(Tail(free), Head(pending))
        /\ age' = [age EXCEPT ![Head(free)] = 0, ![next] = 0]
        /\ sent' = Append(sent, held'[next]) /\ atBase' = atBase \cup {held'[next]}
  /\ astray' = (atBase # {})
  /\ UNCHANGED crashed

\* Fault: the null buffer is put in the list and nothing happens.
RxPutsNull ==
  /\ Arrives /\ free = <<>>
  /\ free' = Append(free, 0)
  /\ UNCHANGED <<pending, held, age, accepted, sent, atBase, astray, crashed>>

\* No free buffer: _dlms_msg_put(&x_free_messages_list, NULL) dereferences it.
RxNoBuffer ==
  /\ Arrives /\ free = <<>>
  /\ crashed' = TRUE
  /\ UNCHANGED <<buffers, accepted, sent, atBase, astray>>

Rx == RxFirst \/ RxWait \/ RxGiveUp \/ RxNoBuffer

-----------------------------------------------------------------------------
(* _dlmsotcp_cl_432_dl_data_cfm_cb: the head is recycled, whatever request the *)
(* confirm is for, and the next message is requested.                          *)

\* What is remembered of a confirm of m.
Strays(m) == astray' = ((astray \/ m = Foreign) /\ atBase' # {})

CfmIgnored(m) ==
  /\ ~crashed /\ pending = <<>>
  /\ atBase' = atBase \ {m}
  /\ UNCHANGED <<buffers, accepted, sent, crashed>>

CfmLast(m) ==
  /\ ~crashed /\ Len(pending) = 1
  /\ free' = Append(free, Head(pending)) /\ pending' = <<>>
  /\ age' = [age EXCEPT ![Head(pending)] = Old]
  /\ atBase' = atBase \ {m}
  /\ UNCHANGED <<held, accepted, sent, crashed>>

\* Fault: the confirmed buffer is not recycled.
CfmLeaksBuffer(m) ==
  /\ ~crashed /\ Len(pending) > 1
  /\ pending' = Tail(pending)
  /\ LET next == Head(Tail(pending))
     IN /\ age' = [age EXCEPT ![next] = 0]
        /\ sent' = Append(sent, held[next])
        /\ atBase' = (atBase \ {m}) \cup {held[next]}
  /\ UNCHANGED <<free, held, accepted, crashed>>

\* Fault: a confirm frees the head only when nothing waits behind it.
CfmDropped(m) ==
  /\ ~crashed /\ Len(pending) > 1
  /\ atBase' = atBase \ {m}
  /\ UNCHANGED <<buffers, accepted, sent, crashed>>

CfmNext(m) ==
  /\ ~crashed /\ Len(pending) > 1
  /\ free' = Append(free, Head(pending)) /\ pending' = Tail(pending)
  /\ LET next == Head(Tail(pending))
     IN /\ age' = [age EXCEPT ![Head(pending)] = Old, ![next] = 0]
        /\ sent' = Append(sent, held[next])
        /\ atBase' = (atBase \ {m}) \cup {held[next]}
  /\ UNCHANGED <<held, accepted, crashed>>

DataCfm(m) == (CfmIgnored(m) \/ CfmLast(m) \/ CfmNext(m)) /\ Strays(m)

-----------------------------------------------------------------------------
(* The world around: a second passes; a request or its confirm is lost, the  *)
(* confirm perhaps to the emulator, when that was the last to select itself. *)

Tick ==
  /\ ~crashed
  /\ age' = [b \in Buf |-> IF age[b] = Old THEN Old ELSE age[b] + 1]
  /\ UNCHANGED <<free, pending, held, accepted, sent, atBase, astray, crashed>>

LoseCfm(m) ==
  /\ m \in atBase /\ ~crashed
  /\ atBase' = atBase \ {m} /\ lost' = TRUE
  /\ astray' = (astray /\ atBase' # {})
  /\ UNCHANGED <<buffers, accepted, sent, crashed>>

Confirms == \E m \in atBase \cup {Foreign} : DataCfm(m)

QueueNext ==
  \/ (Rx \/ Confirms \/ Tick) /\ UNCHANGED lost
  \/ \E m \in atBase : LoseCfm(m)

QueueSpec == QueueInit /\ [][QueueNext]_queueVars

\* The base node answers or loses every request in the end, perhaps after the
\* limit.  The concentrator, the emulator and the clock owe nothing.
FairQueueSpec ==
  /\ QueueSpec
  /\ WF_queueVars(\E m \in atBase : LoseCfm(m) \/ (DataCfm(m) /\ UNCHANGED lost))

-----------------------------------------------------------------------------
Elems(s) == {s[i] : i \in DOMAIN s}

\* Type invariant.
QueueTypeOK ==
  /\ free \in Seq(Buf) /\ pending \in Seq(Buf)
  /\ held \in [Buf -> Nat] /\ age \in [Buf -> 0 .. Old]
  /\ accepted \in Nat /\ sent \in Seq(Nat) /\ atBase \in SUBSET Nat
  /\ astray \in BOOLEAN /\ crashed \in BOOLEAN /\ lost \in BOOLEAN

NoRepeat(s) == \A i, j \in DOMAIN s : s[i] = s[j] => i = j

\* Over confirms in any order, late ones and give-ups, no buffer is leaked and
\* none is in two places: the pool never shrinks and no message is overwritten.
BuffersConserved ==
  /\ NoRepeat(free) /\ NoRepeat(pending)
  /\ Elems(free) \cap Elems(pending) = {}
  /\ Elems(free) \cup Elems(pending) = Buf

\* Every message is requested at most once and in the order of arrival, also when
\* a confirm pops the wrong head.
SentInOrder == \A i \in DOMAIN sent : sent[i] = i

\* The list holds exactly the unrequested messages behind the one requested last:
\* none is skipped, and the daemon never waits for a confirm of a message it has
\* not requested.
HeadIsLastSent ==
  /\ \A i \in DOMAIN pending : held[pending[i]] = Len(sent) + i - 1
  /\ accepted = Len(sent) + (IF pending = <<>> THEN 0 ELSE Len(pending) - 1)
  /\ pending # <<>> => sent # <<>>

\* A confirm frees the right buffer although the code does not compare them, as long
\* as no head was freed by a give-up or by a confirm of the emulator's; and after one
\* was, from when the base node has confirmed or lost all it had: the confusion heals.
PromptCfmMatches ==
  ~astray => \A m \in atBase : pending # <<>> /\ m = held[Head(pending)]

\* "This should never happen!!!!!" (dlmsotcp.c:865).
NeverOutOfBuffers == ~crashed

\* With a base node that loses nothing and answers in the end, every accepted
\* message is requested, give-ups and crossed confirms notwithstanding.
AcceptedIsRequested ==
  \A m \in 1 .. MaxMsg : accepted >= m ~> (Len(sent) >= m \/ crashed \/ lost)

\* The relay is the queue's: what waits is the list behind its head.
Waiting == IF pending = <<>> THEN <<>>
           ELSE [i \in 1 .. Len(pending) - 1 |-> held[pending[i + 1]]]

Relay == INSTANCE FifoRelay WITH waiting <- Waiting, out <- sent

RelayImplemented == Relay!RelaySpec
=============================================================================

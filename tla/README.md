# PLC Manager (DCU): a TLA+ model, its checks and its proofs

The program is `src/PLCManager/`, the PLC Manager v1.1 of a data concentrator
unit: a single-threaded C daemon between TCP clients and a PRIME base node that
sits on a serial line. This directory models its control: descriptors, queues,
pending answers, timers and remembered state. Bytes, formatting and files are
abstracted. TLC checks every module on small instances; TLAPS proves every
safety invariant and action property that a passing run checks, and six
refinements, for all values of the constants.

To run one check: `tlc -workers 2 -config MCMainLoop.cfg MCMainLoop`. To check
one set of proofs: `tlapm SocketHandlerProofs.tla`.

## 1. The system

`main()` opens five server sockets in the order of their ids (0 sniffer, 1 PRIME
Manager, 2 CLI, 3 DLMSoTCP, 4 DLMS emulator), then the serial port (6, USI), and
loops for ever over `select()`: a timeout of 10 ms or an event of the serial port
runs `usi_host_process` and `cli_process`, an event of a socket runs its
application's callback to completion. Nothing else blocks. The only other thread
of control is the emulator's timer signal.

```
   TCP clients          applications                stack              serial
 concentrator ----- dlmsotcp.c --+--- ifacePrime_api.c --+
 emulator's user -- dlms_emu.c --+--- ifaceMngLayer.c  --+-- hal_usi.c -- base node
 web / operator --- cli.c -------+                       |
 PRIME Manager ---- prime_manager.c ---------------------+
 sniffer tool ----- sniffer.c ------- ifacePrimeSniffer.c+
        every socket: socket_handler.c, called by main.c
```

| part | state it keeps | operations | what is hard, and what makes it correct |
|---|---|---|---|
| Socket table (`socket_handler.c`) | server and connection descriptors of each application, `fd_set`, largest listener | create server, attach, accept, detach, check, select | descriptor numbers are reused as soon as they are closed; four views of "open" must agree; one event per select |
| Main loop (`main.c`) | none of its own; the statics of the callbacks | boot, dispatch | remembered descriptors against reuse; starvation |
| PRIME Manager, sniffer | the loopback descriptor; connections | forward bytes | one client only; stale loopback |
| DLMSoTCP relay (`dlmsotcp.c`) | 5 buffers, free list, list awaiting confirm | message in, confirm, 40 s give-up | confirms are not compared with requests: late and lost ones; pool exhaustion |
| DLMSoTCP nodes (`dlmsotcp.c`) | 2000 connections, autoclose counters, notification flag | join, leave, list page, commands 3 to 6, connect, disconnect | the concentrator's picture against the table's, in any order |
| Management layer (`ifaceMngLayer.c`) | id of the application that asked last | new, add, send, receive | one owner for all answers; callback that asks again |
| PRIME API (`ifacePrime_api.c`) | id of the selected application, callback tables | select, request, answer | select and request are two calls; an answer goes to whoever selected last; timer signal between them |
| DLMS emulator (`dlms_emu.c`) | 16 nodes, current node and step, block number, 4 timers | list, cycle, step, confirm, reply, timers, stop | timers against late replies, leaves in mid-cycle, two starts |
| CLI (`cli.c`, `xml_rep.c`) | information machine, XML flag, version table | PIB get/set, list, web command, network event | one flag and one machine shared by all requests |
| USI (`hal_usi.c`, `usi_host.c`) | one buffer each way, the flag that asks for a length check, the write index | frame, escape, resynchronise, send, forward | frames cut by the reads, damage, a receiver one mark out of step; partial and refused writes; the timer signal sending through the same buffers |
| CRC, reports, debug | none that others read back | | |

The full list of hazards, each at its line with the properties that would catch
it, is in `PROJECT.json`.

## 2. The modules

`map` in `PROJECT.json` names the lines of every definition. A definition whose
comment says "Fault" is not part of any `Next`: it is a mutated form of its
neighbour, a plausible bug, kept to show that a property can fail.

**SocketHandler** models `socket_handler.c`. `tab` is one record (`server`,
`conn`, `listen`, `max` for `sx_sockets`, `sx_socket_listeners`,
`si_max_listener`) so that `Attach` and `Dettach` are operators on a table and a
callback that calls both is one step. `open` is the kernel's side. `NewFd` is
POSIX's lowest free number. `AcceptOnlyOne` is the LINK branch that
`dlmsotcp.c` and `prime_manager.c` share: accept, count, drop slot two.

**MainLoop** extends it with `main.c`: queued clients (`backlog`), what `read()`
can return (`rx`, a set of `"data"` and `"eof"`), the serial port, and the
remembered descriptors `loopback`, `cliFd`, `dlmsFd`. `Callback` takes the lowest
reported descriptor, as `socket_select` does, and does the whole callback. That
the composition does to the table only what SocketHandler allows is the property
`SocketSpec`.

**FifoRelay** is the abstract relay: messages are accepted, and handed over once
each in order. **DlmsQueue** is the relay of `dlmsotcp.c`: `Rx...` are the
branches of `dlmsotcp_RxProcess` (request at once, wait, give the head up and
request the next, no buffer), `Cfm...` those of the data confirm callback, by
what the pending list holds. Confirms are any element of `atBase`, since the code
does not compare them. A time stamp is its age, cut off beyond the limit. The
confirm of one of the emulator's requests (`Foreign`) comes at any time: DLMSoTCP gets
it when it was the last to select itself. The ghosts `crashed` and `lost` record the
null dereference and a lost request; `astray` is set when a head is freed by a give-up
or a foreign confirm, and cleared when the base node has nothing left to confirm.
DlmsQueue implements FifoRelay under `Relay`.

**DlmsNodes** is the table of meters of `dlmsotcp.c`; its ghost `view` is what the
notices of the present connection let the concentrator conclude. `muted` and
`paged` name the two reasons the code has for saying nothing: the autoclose flag,
and a list page, since the concentrator last asked for the list (command 3).

**MngLayer** composes `ifaceMngLayer.c` with the response callbacks of its two
users (`dlmsotcp.c`, `dlms_emu.c`), paging included. An answer is matched by the
layer's `owner` only.

**DlmsList** composes the two: the answer that MngLayer hands to DLMSoTCP's
callback is, in the same step, a list page of DlmsNodes. So the pages have the
order, the gaps and the repetitions the layer really gives them, and the
emulator's queries can take DLMSoTCP's pages away.

**PrimeApi** is `ifacePrime_api.c` between its three users. Selection and request
are separate steps (`Call`, `SendRequest`), and `EmuTimer` may come between.
`misrouted` holds the last answer if it missed its application.

**UsiSend** refines it down to `hal_usi_send_cmd` and `write()`. A call builds
its request (`Build`), is copied to the transmission buffer (`Copy`), encoded
(`Encode`) and written by a loop whose condition (`AllSent`, `GoOn`), `write()`
(`WriteAll`, `WritePart`, `WriteFails`) and subtraction from `us_idx_in` (`Load`,
`Store`) are steps of their own; `NoRoom` is either of the two checks for room.
`Forward` starts the same for a base node's frame that `_process_msg` sends on to
PRIME Manager. The emulator's timer handler (`SignalRefused`, `SignalSends`,
`SignalSendsPart`) runs as a whole between any two of these steps, on the same
`uc_serial_buf`, `puc_txbuf0` and `us_idx_in`. A write always starts at the start of
the buffer and asks for the whole length, as the code's does, also after a part was
taken. Bytes are abstracted to whose frame the buffer holds: `Mixed` for nobody's. The
ghost `slipped` records that `us_idx_in` has lost count: by a partial write, or by a
signal between the loop's condition and its subtraction. UsiSend implements `ApiSpec`.

**UsiReceive** is `hal_usi_process` on abstract bytes: mark, escape, the two
escaped forms, noise and plain ones. `PortReadable` reads any part of what is on
the line and `LoopTimeout` reads nothing; both then do what the buffer calls for,
by `NoMark`, `Wait` (one mark: the rest is to come, and its length is to be
checked) or `TakeFrame`. The first byte of a content stands for the header; a
header that is none of a frame's may claim any length, so `LengthCheck` gives a
set. `Damage` deletes or replaces a byte of the line. **LossyLine** is what this
promises: frames handed over whole, once, and in order. `LenHi` ... `XLenOf` are
the header's length fields, about which a lemma is proved.

**DlmsEmu** is the machine of `dlms_emu.c`: `CycleNextNode`, `Send`, `AfterBlock`,
`AfterRelease` are `_cycle_next_node`, the CMD_SEND state and two branches of
`_next_step`; the four timers are the set `armed`. Their handler is a signal's and one
step. The main thread's callbacks that touch what it shares more than once are in
steps, with `main` for where it is: a join or a list record (`JoinTest`, `JoinRaise`,
`JoinEnter`), the start of a cycle at the end of a list (`ListEnd`, `ScanNode`, ...,
`MainSend`), and the stop (`StopCycles`, `StopNext`, `Stopped`). A leave and a confirm
write one variable each. A reply (`DataInd`) stops the timeout and starts a timer;
what a handler does between the two does not depend on the stopped timer and does not
start it or stop another, so it might as well come before both, and they are one
step. Events that the code cannot tell from its own (a reply after its timeout,
DLMSoTCP's confirm, a second start) are counted in `astray`. After the last node the
code reads one entry beyond the table; the model takes either value there.

**CliReports** is the information machine and the node-list flag of `cli.c` with
the base node and its answers in order. Each callback is followed by
`cli_process`, as in the loop (`Process`).

Abstractions common to all: callbacks are atomic (the daemon has one thread; the one
exception, the emulator's timer signal, comes between their steps where they share
something with it, in PrimeApi, UsiSend and DlmsEmu); `accept()` succeeds whenever a
number is free; a payload is its number or its kind; the serial line keeps order.
In UsiSend all frames have one length; the management layer's queries, which take
the same buffers, are not told apart from the API's.

## 3. The runs

Passing runs check deadlock, except `dlms_queue` (the concentrator stops after
`MaxMsg` messages) and `usi_receive` (the base node has sent its frames), where the
system may really stop.

| run | instance | states | shows |
|---|---|---|---|
| `main_loop` | CLI and DLMSoTCP, 2 slots each, 7 descriptors, backlog 1 | 35 159 | table, `fd_set`, largest listener and kernel agree (`MaxCoversListeners`, `NoLeakNoDangling`, `OneOwner`); one client is one client; `DlmsFdIsLive`: notices go to the client connected now; `StaleStaysClient`: a stale descriptor is nobody's or a client's, never a server's or the serial port; the loop implements `SocketSpec`; `AllServedOncePaused` |
| `dlms_queue` | 4 buffers, limit 2, 8 messages | 23 785 | pool conserved, order kept, nothing skipped, `PromptCfmMatches`: a confirm frees the right buffer unless a give-up or a foreign confirm came since the base node last had nothing to confirm, FIFO implemented, every accepted message requested if nothing is lost |
| `dlms_list` | list of 5 in pages of 2, 2 meters, 3 starts, counter modulo 4 | 340 446 | no more callbacks than queries, no more cycles than starts, losses included; the concentrator's picture is sound, and complete up to muted and paged meters, however pages, joins, leaves and commands interleave |
| `usi_send` | three users, all requests, two of them with the base node at a call's start; frames of 2 bytes, buffer of 5, index of 3 bits | 2 066 017 | the serial port implements `ApiSpec`; answers go astray only if requests overlapped, and only between DLMSoTCP and the emulator; `UndisturbedIsSent`: a transmission no signal came into is sent whole or refused; `IdleIsReady`: the buffer is empty between transmissions; both until `us_idx_in` has lost count |
| `usi_receive` | 4 frames of 2 or 3 bytes, with escapes; 14 bytes unread at most; 2 damaged | 40 399 | `LineImplemented`; `StaleIsZero`: the over-long search finds nothing; `ResyncLosesOne`: one frame at most is lost to a wrong step; `EveryFrameArrives` if nothing is damaged |
| `dlms_emu` | 3 nodes, 2 blocks, 2 events out of turn | 779 613 | `MaxCoversNodes`: every meter within the search, unless the last start of a cycle came into a join; no cycle is dropped; one activity in turn, which no handler interrupts; every cycle ends |
| `cli_reports` | 2 nodes, 2 changes, 2 commands | 1 125 469 | information file complete when all is answered; list file right if requests did not overlap; the flag does not outlive its requests |

Why the bounds are enough. `main_loop`: the second slot is where the third client
is refused and where slot order matters; seven numbers let every listener, every
slot and one newcomer be open together, so no accept is ever disabled, and closed
numbers move between the two kinds of server. The other three servers are of one
of the two kinds. `dlms_queue`: eight messages reuse every buffer once, allow two
give-ups with their late confirms crossing, and exhaust the pool. `dlms_list`:
two full pages and a short one, with the broadcast record and a meter listed
twice; three starts cross DLMSoTCP's queries in every order; properties of the
table speak of one meter at a time, and the second is the bystander; four enables
wrap the counter. `usi_send`: two frames fit the buffer and a third does not, which
are the three cases of the checks for room; a part and a refusal, or a signal after a
write, wrap the index; every pair of requests can be with the base node. `usi_receive`: the
longest frame and its successor are in the buffer together; two damages remove
both marks of a frame, or a mark and a header. `Backlog` keeps within what the
code's buffer holds: `read()` is given the size of the whole buffer although bytes
are pending (`hal_usi.c:807`), and nothing can be said beyond it. `dlms_emu`: node 0 is never chosen,
and of the other two one can be left behind, skipped, or joining while the other is
read (the two configurations with a counterexample take four nodes); two blocks make the doubled increment
skip one; two events out of turn make three threads of control. `cli_reports`: two lists
crossing, a list that becomes empty, a client's read before and after the
daemon's.

Five runs end in a violation, each of a statement of the repository:

| run | property | what the code does |
|---|---|---|
| `dlms_queue_full` | `NeverOutOfBuffers` ("This should never happen!!!!!") | six messages before the first confirm: the null buffer is dereferenced |
| `mng_paging` | `NodeListArrives` ("Request next elements on the list") | the owner is cleared after the callback that has just asked for the next page: the list ends with its first page |
| `dlms_emu_skip` | `CycleCoversNodes` (comment of `_cycle_next_node`) | after a RELEASE the next node is chosen twice: the one between is skipped |
| `cli_list_stale` | `ListUpToDate` (`cli.h:28`) | an empty list is never written; of two overlapping answers only the first is |
| `usi_partial_write` | `DiscardEmpties` ("Discard msg", `hal_usi.c:642`) | a part is written, the whole again, and refused: the full length is subtracted from what is left, `us_idx_in` wraps and the buffer is never empty again |

Six more configurations are kept beside the runs of `PROJECT.json`, each with one
counterexample. They show, in the code's own words, what the passing runs leave open:

| configuration | property | what the code does |
|---|---|---|
| `MCMainLoopCli.cfg` | `CliFdIsCli` ("Send notification to CLI", `cli.c:100`) | `si_cli_data_fd` is set before every read (`cli.c:361`) and never reset: its number may be another application's client by now |
| `MCDlmsListNew.cfg` | `NewClientKnowsAll` ("When a new client connection is accepted ...", `dlmsotcp.c:348`) | `i_enable_notifications` survives the client that set it (`dlmsotcp.c:796`): the next one gets notices without the list |
| `MCDlmsListClose.cfg` | `AutoCloseHonoured` ("Close 432 connections where auto_close status has been set") | command 5 increments the flag and the close compares it with 1 (`dlmsotcp.c:904`): a meter enabled twice is not released; 256 enables wrap to "not set" |
| `MCDlmsEmuJoin.cfg` | `MaxIsMaximum` ("store the maximum index in the list of connected nodes") | a start of a cycle between the join's two assignments lowers the maximum again: the meter is connected beyond it |
| `MCUsiSendRace.cfg` | `SentIsTakenOff` ("Adjust buffer values depending on sent chars", `hal_usi.c:639`) | a signal between `write()` and the subtraction leaves `us_idx_in` zero; the subtraction wraps it and the loop goes on |
| `MCUsiSendReply.cfg` | `DlmsReplyArrives` ("New DLMS data arrived, forward it to the client") | a request of the emulator's between DLMSoTCP's request and the meter's reply redirects the reply (`ifacePrime_api.c:2684`); that it never leaves the family of the two DLMS applications is `StrayStaysInFamily` |

The properties of the passing runs say what still holds there: `StaleStaysClient`
beside the first of these, `ViewSound` and `ViewComplete` (up to muted and paged meters)
beside the next two, `MaxCoversNodes` (which excepts a start that came into a join),
`IdleIsReady` (until `us_idx_in` has lost count) and `StrayStaysInFamily` beside the
others. PRIME Manager's remembered descriptor (`prime_manager.c:51`) goes the same way as
the CLI's, but PRIME Manager is not one of the two servers of `main_loop`, so the run
exercises the CLI's half of `StaleStaysClient` and the theorem covers both.

## 4. Fairness

- `FairLoopSpec`: weak fairness of `Boot` and `Callback`. `main()` blocks nowhere
  but in `select()`, so it keeps booting and keeps handling what is reported.
  Clients and the base node owe nothing. `AllServedOncePaused` therefore asks only
  what holds once they pause: the lowest descriptor is always served first, and a
  client that never stops starves those above it, in the code as in the model.
- `FairQueueSpec`: the base node confirms each request or loses it, at any time.
  Nothing is assumed of the clock or the concentrator, and `AcceptedIsRequested`
  excuses executions with a loss (the code notices one only when a message waits).
- `AnsweredSpec` (`mng_paging` only): the base node answers all; the violation
  stands although nothing is lost.
- `FairEmuSpec`: confirms come or are lost, each timer expires, and a callback of the
  main thread comes to its end. Meters owe no
  reply. `CycleEnds` excuses a stop, a cycle without nodes and a lost confirm.
- `RxSpec`: `hal_usi_process` is called when `select()` finds the port readable and
  on each 10 ms timeout, and the port is open non-blocking, so both steps are
  weakly fair. Without the timeouts a second frame that came with the first would
  stay in the buffer. How many bytes a read returns is left open, and the base node
  owes nothing.

## 5. What is proved

Each `...Proofs` module proves, for every value of the constants allowed by the
component's named assumption, that an inductive invariant holds, and reads the
run's invariants off from it.

| module | assumption | argument |
|---|---|---|
| SocketHandlerProofs | `SocketAssumption` (two slots at least) | one predicate `Sound(table, open)` on a table and the kernel's set, kept by each C function (`AttachSound`, `DettachSound`, `AppendServerSound`), so also by callbacks that call two. `SingleConnection` adds `OnlyFirst`. `MaxCoversListeners` needs the set to be exact: lowering the maximum by one is right only because its descriptor has left the set |
| MainLoopProofs | with `LoopAssumption` | every loop step is a socket step or a stutter (`LoopImplementsSockets`), so the above holds of the daemon; `DlmsFdIsLive` is then inductive with `Silent` (only clients' descriptors can be read) and the first-slot fact. `StaleStaysClient`: a number a client's event came from is never a server's or the serial port's, because those are opened before any client and never closed |
| DlmsQueueProofs | `QueueAssumption` | `HeadIsLastSent` is what makes `SentInOrder` inductive however confirms cross: the head is the message requested last, those behind it the next numbers. Buffers are conserved since each step moves the head of one list to the end of the other. The refinement of FifoRelay uses the same numbers |
| DlmsListProofs | `MngAssumption`, `NodesAssumption`, `ListAssumption` | of MngLayer, `Accounts`: an owner stands for one unhandled query, and, if it is the emulator, for one start without a cycle. Of DlmsNodes: view nonempty, or the list asked for, implies that notices are being given; since command 3, a positive counter implies muted. Then, of DlmsList: every step is one of MngLayer or leaves it alone, and one of DlmsNodes or leaves it alone (`ListImplementsMng`, `ListImplementsNodes`), so that what is proved of each holds of both together (`ListKeepsPromises`) |
| CliReportsProofs | `CliAssumption` | the files' promises are about the moment all is answered, and are not inductive: `CliInv` says what is owed until then. Each missing field has a request out for it or for one that leads to it (`ChainHolds`, `FirstIsList` before the first `cli_process`); a list under way is the base node's or an event follows it (`ListsCurrent`); a file behind the base node's list has an event or a list under way, whose flag is set (`FileCovered`, `FlagCovered`, which need `OneList`, no overlap) |
| DlmsEmuProofs | `EmuAssumption` | the four invariants together with what a callback in steps relies on: a handler takes one timer and leaves one timer or one request (`Moved`); a join or a scan knows the maximum as far as it has come, unless a start came in between (`Covered`); a handler takes the step the main thread is about to send one on at most (`OneStepOn`), so that the block number stays bounded |
| UsiSendProofs | `ApiAssumption`, `TxAssumption` (the buffer is smaller than the index's range) | of PrimeApi: without overlap, the selected application owns every open request and the call in progress. Of UsiSend: until `us_idx_in` loses count it is zero outside the write loop, and in it what the subtraction is about to take off or zero (`ZeroUntilWrite`, `AtRest`, `LengthKnown`), and a transmission no signal came into has its own request in the buffers (`OwnFrame`, `Holds`); what the buffer of an interrupted call may hold (`CallOrSignal`) makes each step one of PrimeApi |
| UsiReceiveProofs | `RxAssumption`; `CheckSumAssumption` for the refinement only | `DecodingInvertsEscaping`: decoding an escaped content gives it back, by induction on its length (on the least number for which a statement fails). Each way of leaving the buffer leaves zeros after it, so the over-long second search sees only what came, and a call drops a prefix of the unread bytes (`Consumes`). `ResyncLosesOne`: `CalmInv` says what is unread has no mark but perhaps as its last byte, or ends in the last undamaged frame with at most one mark before it and the length to be checked. `LineImplemented`: by `InOrder`, the headers among the unread bytes stand in the order of their frames, all after the ones handed over. `HeaderCarriesLength` is arithmetic on the macros |

The theorems that state checked properties are listed in `PROJECT.json`.

`RxAssumption` says nothing of the code but that the frames differ and that what is
pending fits half the buffer (the bound at `hal_usi.c:807`). `CheckSumAssumption`
idealises the check sums: a frame's header byte occurs nowhere else, so no damage
makes a frame out of other bytes. A CRC does so with high probability only, and
without the assumption LossyLine is false; the other theorems do not use it.

tlapm cannot instantiate the library's induction theorems, which take an operator.
The induction that decoding needs is done on sets instead: `LeastExists` (a
nonempty set of naturals has a least element, from the well-foundedness of `<`)
applied to the set of counterexamples.

Only model-checked: the liveness properties `AllServedOncePaused`,
`AcceptedIsRequested`, `CycleEnds` and `EveryFrameArrives`, since fairness and
ENABLED are out of the prover's reach. The runs that end in a violation show a
single behaviour each, which needs no proof.

## 6. What is not modelled, and the plan

Not modelled: the CSV network event of `dlmsotcp.c` (never registered), API
requests with no caller, `socket_restart` (never called), failures of `accept()`,
bytes copied by PRIME Manager and the sniffer, the eight-bit length of the frames
forwarded to PRIME Manager, the table of protocols of `hal_usi.c` (filled once at
start), the version table and the PIB writes of `cli.c` (their results go into
report text only), CRC tables, report and XML text, and `debug.c`.

Order of the work, by the importance of the behaviour:

1. done: SocketHandler, MainLoop (every client goes through them), DlmsQueue over
   FifoRelay, DlmsNodes, MngLayer and DlmsList over both, PrimeApi and UsiSend below
   it, UsiReceive over LossyLine, DlmsEmu, CliReports, with their runs and
   the proofs of their safety properties.
2. PlcManager: DlmsQueue, DlmsList and MainLoop's connection composed, so that
   the end of a connection meets pending confirms and notices; and PrimeApi's
   routing as the source of the emulator's `astray` events and of DlmsQueue's
   foreign confirms, which the two modules now take at any time.
3. The bytes PRIME Manager and the sniffer forward, in both directions.
4. Proofs: that an undamaged line loses nothing (`delivered[k] = k`, the safety half
   of `EveryFrameArrives`), and of PlcManager as it is written, that it implements
   its parts, as DlmsListProofs does.

---------------------------- MODULE UsiSendProofs ----------------------------
(***************************************************************************)
(* Proofs about the PRIME API and its transmitter, for every frame, buffer *)
(* and index size and any number of calls, events and requests.            *)
(*                                                                         *)
(* PrimeApi: AstrayNeedsOverlap speaks of answers; what is inductive is    *)
(* that, as long as there has been no overlap, the selected application is *)
(* the one every open request, and the call in progress, belongs to.       *)
(*                                                                         *)
(* UsiSend: until us_idx_in loses count it is zero but while the main      *)
(* thread writes, and a transmission no signal came into has its own       *)
(* request in the buffers and its own frame on the line.  With what may be *)
(* in the buffers of one that was interrupted, this shows that it          *)
(* implements PrimeApi.                                                    *)
(***************************************************************************)
EXTENDS UsiSend, TLAPS

-----------------------------------------------------------------------------
(* The PRIME API. *)

OwnsAll ==
  ~overlapped => /\ \A r \in asked : r.app = selected
                 /\ inCall # Idle => inCall.app = selected

\* The inductive invariant.
ApiInv == ApiTypeOK /\ OwnsAll /\ AstrayNeedsOverlap /\ StrayStaysInFamily

LEMMA UserFacts ==
  /\ Cli \in User /\ DlmsOTcp \in User /\ Emu \in User /\ Nobody \notin User
  /\ Cli # DlmsOTcp /\ Cli # Emu /\ DlmsOTcp # Emu
BY ApiAssumption DEF User

LEMMA MakesFacts ==
  /\ Makes(Cli) = {"get", "set", "list", "version"}
  /\ Makes(DlmsOTcp) = {"data", "release"}
  /\ Makes(Emu) = {"data"}
BY ApiAssumption DEF Makes

\* A request is a record of an application and something it makes.
LEMMA RequestFacts ==
  /\ \A r \in Request : r.app \in User /\ r.what \in Makes(r.app) /\ r = [app |-> r.app, what |-> r.what]
  /\ \A a \in User : \A w \in Makes(a) : [app |-> a, what |-> w] \in Request
BY DEF Request

LEMMA OpenFacts ==
  /\ Request \subseteq Open
  /\ \A r \in Open : r.app \in User
  /\ \A r \in Open \ Request : r.app \in {DlmsOTcp, Emu} /\ r.what = "reply"
  /\ \A r \in Open : r.what = "data" => ReplyTo(r) \in Open
BY RequestFacts, UserFacts, MakesFacts DEF Open, User, ReplyTo

LEMMA IdleFacts == Idle \notin Request /\ Idle.app = Nobody
BY RequestFacts, UserFacts DEF Idle

\* Where a confirm or an indication goes, and what is recorded of it.
LEMMA RouteKeeps ==
  ASSUME ApiTypeOK, NEW r \in asked, Route(r)
  PROVE  /\ misrouted' \in SUBSET [for : Open, to : User \cup {Nobody}]
         /\ selected = r.app => misrouted' = {}
         /\ StrayStaysInFamily'
<1>1. Callee(r.what) \in User \cup {Nobody} /\ r \in Open
  BY DEF Callee, ApiTypeOK
<1>2. misrouted' \in SUBSET [for : Open, to : User \cup {Nobody}]
  BY <1>1 DEF Route
<1>3. selected = r.app => misrouted' = {}
  BY DEF Route, Callee
<1>4. ASSUME NEW m \in misrouted', m.to # Nobody
      PROVE  {m.to, m.for.app} = {DlmsOTcp, Emu}
  <2>1. /\ m = [for |-> r, to |-> Callee(r.what)]
        /\ r.app \in Registered(r.what) /\ Callee(r.what) # r.app
    BY <1>4 DEF Route
  <2>2. Callee(r.what) \in Registered(r.what)
    BY <1>4, <2>1 DEF Callee
  <2>3. Registered(r.what) \in {{Cli}, {DlmsOTcp, Emu}, {}} \/ r.what \notin {"get", "set", "list", "version", "data", "reply", "release"}
    BY DEF Registered
  <2>4. r.what \in {"get", "set", "list", "version", "data", "reply", "release"}
    BY <1>1, RequestFacts, MakesFacts, OpenFacts DEF User
  <2>5. QED
    BY <1>4, <2>1, <2>2, <2>3, <2>4
<1>5. QED
  BY <1>2, <1>3, <1>4 DEF StrayStaysInFamily

LEMMA InitInv == ApiInit => ApiInv
<1> SUFFICES ASSUME ApiInit PROVE ApiInv
  OBVIOUS
<1>1. [app |-> Cli, what |-> "list"] \in Open
  <2>1. Cli \in User /\ "list" \in Makes(Cli)
    BY UserFacts, MakesFacts
  <2>2. QED
    BY <2>1, RequestFacts, OpenFacts
<1>2. ApiTypeOK
  BY <1>1, UserFacts DEF ApiInit, ApiTypeOK
<1>3. OwnsAll
  BY DEF ApiInit, OwnsAll
<1>4. AstrayNeedsOverlap /\ StrayStaysInFamily
  BY DEF ApiInit, AstrayNeedsOverlap, StrayStaysInFamily
<1>5. QED
  BY <1>2, <1>3, <1>4 DEF ApiInv

\* Selecting keeps the ownership of everything open, or counts as an overlap.
LEMMA SelectOwns ==
  ASSUME ApiInv, NEW a \in User, Select(a), ~overlapped'
  PROVE  /\ selected' = a /\ ~overlapped
         /\ \A r \in asked : r.app = a
         /\ inCall # Idle => inCall.app = a
<1>1. inCall.app \in {a, Nobody} /\ Others(a) = {} /\ ~overlapped /\ selected' = a
  BY DEF Select, ApiInv, ApiTypeOK
<1>2. inCall # Idle => inCall.app # Nobody
  BY RequestFacts, UserFacts DEF ApiInv, ApiTypeOK
<1>3. QED
  BY <1>1, <1>2 DEF Others

LEMMA CallStep == ASSUME ApiInv, NEW r \in Request, Call(r) PROVE ApiInv'
<1>1. r.app \in User
  BY RequestFacts
<1>2. ApiTypeOK'
  BY <1>1 DEF ApiInv, ApiTypeOK, Call, Select
<1>3. OwnsAll'
  BY <1>1, SelectOwns DEF OwnsAll, Call
<1>4. QED
  BY <1>2, <1>3 DEF ApiInv, Call, AstrayNeedsOverlap, StrayStaysInFamily

LEMMA EmuRequestFacts == EmuRequest \in Request /\ EmuRequest.app = Emu /\ Emu \in User
BY RequestFacts, MakesFacts, UserFacts DEF EmuRequest

LEMMA SendStep == ASSUME ApiInv, SendRequest PROVE ApiInv'
<1>1. PICK sent \in SUBSET (IF overlapped THEN {inCall, EmuRequest} ELSE {inCall}) :
        asked' = asked \cup sent
  BY DEF SendRequest
<1>2. /\ inCall \in Request /\ inCall' = Idle /\ misrouted' = {}
      /\ selected' = selected /\ overlapped' = overlapped
  BY DEF SendRequest, ApiInv, ApiTypeOK
<1>3. asked' \in SUBSET Open
  BY <1>1, <1>2, EmuRequestFacts, OpenFacts DEF ApiInv, ApiTypeOK
<1>4. ApiTypeOK'
  BY <1>2, <1>3 DEF ApiInv, ApiTypeOK
<1>5. ~overlapped => \A r \in asked' : r.app = selected
  BY <1>1, <1>2, IdleFacts DEF ApiInv, OwnsAll
<1>6. OwnsAll'
  BY <1>2, <1>5 DEF OwnsAll
<1>7. QED
  BY <1>2, <1>4, <1>6 DEF ApiInv, AstrayNeedsOverlap, StrayStaysInFamily

LEMMA EmuTimerStep == ASSUME ApiInv, EmuTimer PROVE ApiInv'
<1>1. EmuRequest \in Open /\ EmuRequest.app = Emu /\ Emu \in User
  BY EmuRequestFacts, OpenFacts
<1>2. /\ Select(Emu) /\ asked' \in {asked, asked \cup {EmuRequest}}
      /\ misrouted' = {} /\ inCall' = inCall
  BY DEF EmuTimer
<1>3. ApiTypeOK'
  BY <1>1, <1>2 DEF ApiInv, ApiTypeOK, Select
<1>4. OwnsAll'
  BY <1>1, <1>2, SelectOwns DEF OwnsAll
<1>5. QED
  BY <1>2, <1>3, <1>4 DEF ApiInv, AstrayNeedsOverlap, StrayStaysInFamily

LEMMA AnswerStep == ASSUME ApiInv, NEW r \in asked, Answer(r) PROVE ApiInv'
<1>1. Route(r) /\ asked' = asked \ {r} /\ UNCHANGED <<selected, inCall, overlapped>>
  BY DEF Answer
<1>2. /\ misrouted' \in SUBSET [for : Open, to : User \cup {Nobody}]
      /\ selected = r.app => misrouted' = {}
      /\ StrayStaysInFamily'
  BY <1>1, RouteKeeps DEF ApiInv
<1>3. ApiTypeOK'
  BY <1>1, <1>2 DEF ApiInv, ApiTypeOK
<1>4. OwnsAll'
  BY <1>1 DEF ApiInv, OwnsAll
<1>5. AstrayNeedsOverlap'
  BY <1>1, <1>2 DEF ApiInv, OwnsAll, AstrayNeedsOverlap
<1>6. QED
  BY <1>2, <1>3, <1>4, <1>5 DEF ApiInv

LEMMA DataCfmStep == ASSUME ApiInv, NEW r \in asked, DataCfm(r) PROVE ApiInv'
<1> DEFINE reply == ReplyTo(r)
<1>1. Route(r) /\ r.what = "data"
  BY DEF DataCfm
<1>2. r \in Open /\ reply \in Open /\ reply.app = r.app
  BY <1>1, OpenFacts DEF ApiInv, ApiTypeOK, ReplyTo
<1>3. asked' \subseteq asked \cup {reply}
  BY DEF DataCfm
<1> HIDE DEF reply
<1>4. /\ misrouted' \in SUBSET [for : Open, to : User \cup {Nobody}]
      /\ selected = r.app => misrouted' = {}
      /\ StrayStaysInFamily'
  BY <1>1, RouteKeeps DEF ApiInv
<1>5. CASE UNCHANGED <<selected, overlapped, inCall>>
  <2>1. ApiTypeOK'
    BY <1>2, <1>3, <1>4, <1>5 DEF ApiInv, ApiTypeOK
  <2>2. OwnsAll'
    BY <1>2, <1>3, <1>5 DEF ApiInv, OwnsAll
  <2>3. AstrayNeedsOverlap'
    BY <1>4, <1>5 DEF ApiInv, OwnsAll, AstrayNeedsOverlap
  <2>4. QED
    BY <1>4, <2>1, <2>2, <2>3 DEF ApiInv
<1>6. CASE /\ Callee("data") = DlmsOTcp
           /\ inCall' = [app |-> DlmsOTcp, what |-> "data"]
           /\ selected' = DlmsOTcp
           /\ overlapped' = (overlapped \/ \E o \in asked' : o.app # DlmsOTcp)
  <2>1. inCall' \in Request /\ inCall'.app = DlmsOTcp /\ DlmsOTcp \in User
    BY <1>6, RequestFacts, MakesFacts, UserFacts
  <2>2. ApiTypeOK'
    BY <1>2, <1>3, <1>4, <1>6, <2>1 DEF ApiInv, ApiTypeOK
  <2>3. OwnsAll'
    BY <1>6, <2>1 DEF OwnsAll
  <2>4. AstrayNeedsOverlap'
    BY <1>4, <1>6 DEF ApiInv, OwnsAll, AstrayNeedsOverlap
  <2>5. QED
    BY <1>4, <2>2, <2>3, <2>4 DEF ApiInv
<1>7. QED
  BY <1>5, <1>6 DEF DataCfm

LEMMA NetworkStep == ASSUME ApiInv, NetworkInd PROVE ApiInv'
<1>1. [app |-> Cli, what |-> "list"] \in Request /\ Cli \in User
  BY RequestFacts, MakesFacts, UserFacts
<1>2. ApiTypeOK'
  BY <1>1 DEF ApiInv, ApiTypeOK, NetworkInd, Select
<1>3. OwnsAll'
  BY <1>1, SelectOwns DEF OwnsAll, NetworkInd
<1>4. QED
  BY <1>2, <1>3 DEF ApiInv, NetworkInd, AstrayNeedsOverlap, StrayStaysInFamily

LEMMA StepInv == ASSUME ApiInv, [ApiNext]_apiVars PROVE ApiInv'
<1>1. CASE UNCHANGED apiVars
  BY <1>1 DEF apiVars, ApiInv, ApiTypeOK, OwnsAll, AstrayNeedsOverlap, StrayStaysInFamily
<1>2. ASSUME NEW r \in Request, Call(r) PROVE ApiInv'
  BY <1>2, CallStep
<1>3. CASE SendRequest \/ EmuTimer \/ NetworkInd
  BY <1>3, SendStep, EmuTimerStep, NetworkStep
<1>4. ASSUME NEW r \in asked, Answer(r) \/ DataCfm(r) PROVE ApiInv'
  BY <1>4, AnswerStep, DataCfmStep
<1>5. QED
  BY <1>1, <1>2, <1>3, <1>4 DEF ApiNext

\* The invariant holds of every behaviour.
THEOREM ApiInvariant == ApiSpec => []ApiInv
<1>1. ApiInv /\ [ApiNext]_apiVars => ApiInv'
  BY StepInv
<1>2. QED
  BY InitInv, <1>1, PTL DEF ApiSpec

\* The selection, the open requests and the stray answers keep their types.
THEOREM ApiTypeCorrect == ApiSpec => []ApiTypeOK
<1>1. ApiInv => ApiTypeOK
  BY DEF ApiInv
<1>2. QED
  BY <1>1, ApiInvariant, PTL

\* No answer goes astray while the applications take turns.
THEOREM TurnsAreEnough == ApiSpec => []AstrayNeedsOverlap
<1>1. ApiInv => AstrayNeedsOverlap
  BY DEF ApiInv
<1>2. QED
  BY <1>1, ApiInvariant, PTL

\* A stray answer stays between DLMSoTCP and the emulator.
THEOREM StraysStay == ApiSpec => []StrayStaysInFamily
<1>1. ApiInv => StrayStaysInFamily
  BY DEF ApiInv
<1>2. QED
  BY <1>1, ApiInvariant, PTL

-----------------------------------------------------------------------------
(* The transmitter. *)

Sending == {"built", "copied"} \cup InLoop

\* us_idx_in counts what is still to be written ...
ZeroUntilWrite ==
  ~slipped => /\ stage \notin InLoop => idxIn = 0
              /\ stage = "ready" => idxIn \in {0, mainLen}
              /\ stage \in {"writing", "written"} => idxIn = mainLen
              /\ stage = "written" => reg = mainLen
              /\ stage = "loaded" => reg = 0

\* ... and what a transmission without signals has written is its own frame, once.
OwnFrame ==
  ~disturbed /\ ~slipped =>
    /\ stage \in Sending => payload = Own
    /\ stage \in {"selected", "built", "copied", "writing"} => wrote = {}
    /\ stage = "ready" => (idxIn = mainLen /\ wrote = {}) \/ (idxIn = 0 /\ wrote = {Own})
    /\ stage \in {"written", "loaded"} => wrote \in {{Own}, {Refused}}

\* the requests a call's buffers hold, or its frames held
CallOrSignal ==
  inCall # Idle => (wrote \cup {payload}) \cap Request
                     \subseteq IF overlapped THEN {inCall, EmuRequest} ELSE {inCall}

\* nothing is left of the transmission before
AtRest == stage \in {"none", "selected"} => payload = Idle /\ wrote = {} /\ ~disturbed

\* what is sent is something
Holds == stage \in Sending => payload # Idle

\* the length is known, and not zero, once there is a frame
LengthKnown == stage \in {"copied"} \cup InLoop => mainLen > 0

\* The types of the transmitter's own variables.
TxTypeOK ==
  /\ stage \in Stage
  /\ inCall # Idle => stage # "none"
  /\ stage = "selected" => inCall # Idle
  /\ payload \in Request \cup {Idle, Mixed, Forwarded}
  /\ mainLen \in 0 .. TxSize /\ reg \in 0 .. Word - 1 /\ idxIn \in 0 .. Word - 1
  /\ wrote \in SUBSET (Request \cup {Mixed, Refused, Forwarded})
  /\ disturbed \in BOOLEAN /\ slipped \in BOOLEAN

\* The inductive invariant: PrimeApi's, and the transmitter's.
TxInv == TxTypeOK /\ ZeroUntilWrite /\ OwnFrame /\ CallOrSignal /\ AtRest /\ Holds /\ LengthKnown
UInv  == ApiInv /\ TxInv

LEMMA SizeFacts ==
  /\ FrameLen \in Nat /\ TxSize \in Nat /\ Word \in Nat
  /\ 0 < FrameLen /\ 0 < Word /\ TxSize < Word
BY TxAssumption

LEMMA MinusFacts ==
  /\ \A a, b \in 0 .. Word : Minus(a, b) \in 0 .. Word - 1
  /\ \A a \in 0 .. Word - 1 : Minus(a, a) = 0 /\ Minus(a, 0) = a
BY SizeFacts DEF Minus

\* The records that are no requests, and the emulator's one request.
LEMMA RecordFacts ==
  /\ Mixed \notin Request /\ Idle \notin Request /\ Refused \notin Request
  /\ Forwarded \notin Request
  /\ Refused # Forwarded /\ Refused # Mixed /\ Mixed # Idle /\ Forwarded # Idle
  /\ \A r \in Request : r.app # Nobody
  /\ \A r \in Request : r.app = Emu => r = EmuRequest
<1>1. \A r \in Request : r.app # Nobody
  BY RequestFacts, UserFacts
<1>2. Mixed.app = Nobody /\ Idle.app = Nobody /\ Refused.app = Nobody /\ Forwarded.app = Nobody
  BY DEF Mixed, Idle, Refused, Forwarded
<1>3. Idle.what = "none" /\ Refused.what = "refused" /\ Mixed.what = "mixed" /\ Forwarded.what = "forwarded"
  BY DEF Idle, Mixed, Refused, Forwarded
<1>4. \A r \in Request : r.app = Emu => r = EmuRequest
  BY RequestFacts, MakesFacts DEF EmuRequest
<1>5. QED
  BY <1>1, <1>2, <1>3, <1>4

LEMMA UsiInitInv == UsiInit => UInv
<1> SUFFICES ASSUME UsiInit PROVE UInv
  OBVIOUS
<1>1. ApiInv
  BY InitInv DEF UsiInit
<1>2. inCall = Idle
  BY DEF UsiInit, ApiInit
<1>3. /\ stage = "none" /\ payload = Idle /\ mainLen = 0 /\ reg = 0 /\ idxIn = 0
      /\ wrote = {} /\ disturbed = FALSE /\ slipped = FALSE
  BY DEF UsiInit
<1>4. TxTypeOK
  <2>1. 0 \in 0 .. TxSize /\ 0 \in 0 .. Word - 1
    BY SizeFacts
  <2>2. mainLen \in 0 .. TxSize /\ reg \in 0 .. Word - 1 /\ idxIn \in 0 .. Word - 1
    BY <1>3, <2>1
  <2>3. QED
    BY <1>2, <1>3, <2>2 DEF TxTypeOK, Stage
<1>5. TxInv
  BY <1>2, <1>3, <1>4 DEF TxInv, ZeroUntilWrite, OwnFrame, CallOrSignal, AtRest, Holds, LengthKnown,
                         InLoop, Sending
<1>6. QED
  BY <1>1, <1>5 DEF UInv

-----------------------------------------------------------------------------
(* Every step is a step of PrimeApi, or leaves its variables alone. *)

LEMMA ReturnIsSend == ASSUME UInv, Return PROVE SendRequest \/ UNCHANGED apiVars
<1>1. CASE inCall = Idle
  BY <1>1 DEF Return
<1>2. CASE inCall # Idle
  <2>1. PICK arrived \in SUBSET (wrote \cap Request) : asked' = asked \cup arrived
    BY <1>2 DEF Return
  <2>2. arrived \in SUBSET (IF overlapped THEN {inCall, EmuRequest} ELSE {inCall})
    BY <1>2 DEF UInv, TxInv, CallOrSignal
  <2>3. QED
    BY <1>2, <2>1, <2>2 DEF Return, SendRequest
<1>3. QED
  BY <1>1, <1>2

LEMMA SignalIsTimer == ASSUME UInv, Signal PROVE EmuTimer
<1>1. SignalSelects /\ inCall' = inCall
  BY DEF Signal, SignalRefused, SignalSends, SignalSendsPart, Overwrites
<1>2. asked' \in {asked, asked \cup {EmuRequest}}
  BY RecordFacts DEF Signal, SignalRefused, SignalSends, SignalSendsPart, Copied
<1>3. QED
  BY <1>1, <1>2 DEF SignalSelects, EmuTimer

LEMMA UsiStepIsApiStep == ASSUME UInv, [UsiNext]_usiVars PROVE [ApiNext]_apiVars
<1>1. CASE UNCHANGED usiVars
  BY <1>1 DEF usiVars
<1>2. CASE ApiStep
  BY <1>2 DEF ApiStep, ApiNext
<1>3. CASE Build \/ Forward \/ Copy \/ Encode \/ GoOn \/ WriteAll \/ WritePart \/ WriteFails \/ Load
  BY <1>3 DEF Build, Forward, Copy, Encode, GoOn, WriteAll, WritePart, WriteFails, Load
<1>4. CASE NoRoom \/ AllSent
  BY <1>4, ReturnIsSend DEF NoRoom, AllSent, ApiNext
<1>5. CASE Store
  BY <1>5, ReturnIsSend DEF Store, ApiNext
<1>6. CASE Signal
  BY <1>6, SignalIsTimer DEF ApiNext
<1>7. QED
  BY <1>1, <1>2, <1>3, <1>4, <1>5, <1>6 DEF UsiNext, Main, Write

-----------------------------------------------------------------------------
(* The transmitter's invariant, step by step. *)

LEMMA RoomFacts == TxTypeOK /\ idxIn = 0 /\ FrameLen <= TxSize => HasRoom /\ Fits
BY SizeFacts, MinusFacts DEF HasRoom, Fits, TxTypeOK, Minus

LEMMA ApiStepTx == ASSUME UInv, ApiStep PROVE TxInv'
<1>1. stage = "none" /\ inCall = Idle
  BY DEF ApiStep, UInv, TxInv, TxTypeOK
<1>2. TxTypeOK'
  BY <1>1 DEF ApiStep, UInv, TxInv, TxTypeOK, Stage
<1>3. LengthKnown'
  BY DEF ApiStep, LengthKnown, InLoop
<1>4. ZeroUntilWrite'
  BY <1>1 DEF ApiStep, UInv, TxInv, ZeroUntilWrite, InLoop
<1>5. QED
  <2>1. payload = Idle /\ wrote = {}
    BY <1>1 DEF UInv, TxInv, AtRest
  <2>2. QED
    BY <1>1, <1>2, <1>3, <1>4, <2>1, RecordFacts
       DEF ApiStep, UInv, TxInv, OwnFrame, CallOrSignal, Sending, InLoop, AtRest, Holds

LEMMA StartTx == ASSUME UInv, Build \/ Forward PROVE TxInv'
<1>1. /\ stage' = "built" /\ payload' = Own /\ stage \in {"none", "selected"}
      /\ UNCHANGED <<apiVars, mainLen, reg, idxIn, wrote, disturbed, slipped>>
      /\ wrote = {}
  BY DEF Build, Forward, Own, UInv, TxInv, TxTypeOK, AtRest
<1>2. Own' = Own /\ inCall' = inCall /\ overlapped' = overlapped
  BY <1>1 DEF apiVars, Own
<1>3. payload' \in Request \cup {Forwarded} /\ (inCall # Idle => payload' = inCall)
  BY <1>1, <1>2 DEF Own, UInv, ApiInv, ApiTypeOK
<1>4. TxTypeOK'
  BY <1>1, <1>2, <1>3 DEF UInv, TxInv, TxTypeOK, Stage
<1>5. ZeroUntilWrite' /\ LengthKnown' /\ AtRest' /\ Holds'
  BY <1>1, <1>3, RecordFacts DEF UInv, TxInv, ZeroUntilWrite, LengthKnown, InLoop, AtRest, Holds
<1>6. OwnFrame' /\ CallOrSignal'
  BY <1>1, <1>2, <1>3 DEF UInv, TxInv, OwnFrame, CallOrSignal, InLoop
<1>7. QED
  BY <1>4, <1>5, <1>6 DEF TxInv

LEMMA CopyTx == ASSUME UInv, Copy PROVE TxInv'
<1>1. /\ stage = "built" /\ stage' = "copied" /\ inCall' = inCall /\ overlapped' = overlapped
      /\ UNCHANGED <<reg, idxIn, wrote, disturbed, slipped>> /\ Own' = Own
  BY DEF Copy, apiVars, Own
<1>2. mainLen' \in 0 .. TxSize /\ mainLen' > 0
  BY SizeFacts DEF Copy, Fits, UInv, TxInv, TxTypeOK
<1>3. payload' \in {payload, Mixed} /\ (idxIn = 0 => payload' = payload)
  BY DEF Copy, Copied
<1>4. TxTypeOK'
  BY <1>1, <1>2, <1>3 DEF UInv, TxInv, TxTypeOK, Stage
<1>5. ZeroUntilWrite' /\ LengthKnown' /\ AtRest' /\ Holds'
  BY <1>1, <1>2, <1>3, RecordFacts DEF UInv, TxInv, ZeroUntilWrite, LengthKnown, AtRest, Holds, InLoop, Sending
<1>6. OwnFrame'
  BY <1>1, <1>3 DEF UInv, TxInv, ZeroUntilWrite, OwnFrame, InLoop, Sending
<1>7. CallOrSignal'
  BY <1>1, <1>3, RecordFacts DEF UInv, TxInv, CallOrSignal
<1>8. QED
  BY <1>4, <1>5, <1>6, <1>7 DEF TxInv

LEMMA EncodeTx == ASSUME UInv, Encode PROVE TxInv'
<1>1. /\ stage = "copied" /\ stage' = "ready" /\ idxIn' = mainLen
      /\ UNCHANGED <<payload, mainLen, reg, wrote, disturbed, slipped>>
      /\ inCall' = inCall /\ overlapped' = overlapped /\ Own' = Own
  BY DEF Encode, apiVars, Own
<1>2. TxTypeOK'
  BY <1>1, SizeFacts DEF UInv, TxInv, TxTypeOK, Stage, InLoop
<1>3. ZeroUntilWrite' /\ LengthKnown' /\ AtRest' /\ Holds' /\ OwnFrame' /\ CallOrSignal'
  BY <1>1 DEF UInv, TxInv, ZeroUntilWrite, LengthKnown, AtRest, Holds, OwnFrame, CallOrSignal,
              InLoop, Sending
<1>4. QED
  BY <1>2, <1>3 DEF TxInv

\* The loop's condition holds.
LEMMA GoOnTx == ASSUME UInv, GoOn PROVE TxInv'
<1>1. /\ stage = "ready" /\ stage' = "writing" /\ idxIn # 0
      /\ UNCHANGED <<payload, mainLen, reg, idxIn, wrote, disturbed, slipped>>
      /\ inCall' = inCall /\ overlapped' = overlapped /\ Own' = Own
  BY DEF GoOn, apiVars, Own
<1>2. TxTypeOK'
  BY <1>1 DEF UInv, TxInv, TxTypeOK, Stage, InLoop
<1>3. ZeroUntilWrite' /\ LengthKnown' /\ AtRest' /\ Holds' /\ OwnFrame' /\ CallOrSignal'
  BY <1>1 DEF UInv, TxInv, ZeroUntilWrite, LengthKnown, AtRest, Holds, OwnFrame, CallOrSignal,
              InLoop, Sending
<1>4. QED
  BY <1>2, <1>3 DEF TxInv

\* A write, whatever the device makes of it.
LEMMA WriteTx == ASSUME UInv, WriteAll \/ WritePart \/ WriteFails PROVE TxInv'
<1>1. /\ stage = "writing" /\ stage' = "written"
      /\ UNCHANGED <<payload, mainLen, idxIn, disturbed>>
      /\ inCall' = inCall /\ overlapped' = overlapped /\ Own' = Own
  BY DEF WriteAll, WritePart, WriteFails, apiVars, Own
<1>2. mainLen \in 0 .. Word - 1
  BY SizeFacts DEF UInv, TxInv, TxTypeOK
<1>3. /\ reg' \in 0 .. Word - 1 /\ slipped' \in BOOLEAN /\ (slipped => slipped')
      /\ ~slipped' => reg' = mainLen
  <2>1. slipped \in BOOLEAN
    BY DEF UInv, TxInv, TxTypeOK
  <2>2. CASE WriteAll \/ WriteFails
    BY <1>2, <2>1, <2>2 DEF WriteAll, WriteFails
  <2>3. CASE WritePart
    BY <1>2, <2>3, SizeFacts DEF WritePart
  <2>4. QED
    BY <2>2, <2>3
<1>4. payload # Idle
  BY <1>1 DEF UInv, TxInv, Holds, Sending, InLoop
<1>5. /\ wrote' \in {wrote \cup {payload}, wrote \cup {Mixed}, wrote \cup {Refused}}
      /\ ~slipped' => wrote' \in {wrote \cup {payload}, wrote \cup {Refused}}
  BY DEF WriteAll, WritePart, WriteFails
<1>6. TxTypeOK'
  <2>1. wrote' \in SUBSET (Request \cup {Mixed, Refused, Forwarded})
    BY <1>4, <1>5 DEF UInv, TxInv, TxTypeOK
  <2>2. QED
    BY <1>1, <1>3, <2>1 DEF UInv, TxInv, TxTypeOK, Stage, InLoop
<1>7. ZeroUntilWrite' /\ LengthKnown' /\ AtRest' /\ Holds'
  BY <1>1, <1>3 DEF UInv, TxInv, ZeroUntilWrite, LengthKnown, AtRest, Holds, InLoop, Sending
<1>8. OwnFrame'
  <2>1. ~disturbed /\ ~slipped' => payload = Own /\ wrote = {}
    BY <1>1, <1>3 DEF UInv, TxInv, OwnFrame, InLoop, Sending
  <2>2. QED
    BY <1>1, <1>5, <2>1 DEF OwnFrame
<1>9. CallOrSignal'
  BY <1>1, <1>5, RecordFacts DEF UInv, TxInv, CallOrSignal
<1>10. QED
  BY <1>6, <1>7, <1>8, <1>9 DEF TxInv

LEMMA LoadTx == ASSUME UInv, Load PROVE TxInv'
<1>1. /\ stage = "written" /\ stage' = "loaded" /\ reg' = Minus(idxIn, reg)
      /\ UNCHANGED <<payload, mainLen, idxIn, wrote, disturbed, slipped>>
      /\ inCall' = inCall /\ overlapped' = overlapped /\ Own' = Own
  BY DEF Load, apiVars, Own
<1>2. idxIn \in 0 .. Word - 1 /\ idxIn \in 0 .. Word /\ reg \in 0 .. Word
  BY SizeFacts DEF UInv, TxInv, TxTypeOK
<1>3. reg' \in 0 .. Word - 1
  BY <1>1, <1>2, MinusFacts
<1>4. ~slipped => reg' = 0
  <2>1. ~slipped => reg = idxIn
    BY <1>1 DEF UInv, TxInv, ZeroUntilWrite
  <2>2. QED
    BY <1>1, <1>2, <2>1, MinusFacts
<1>5. TxTypeOK'
  BY <1>1, <1>3 DEF UInv, TxInv, TxTypeOK, Stage, InLoop
<1>6. ZeroUntilWrite' /\ LengthKnown' /\ AtRest' /\ Holds' /\ OwnFrame' /\ CallOrSignal'
  BY <1>1, <1>4 DEF UInv, TxInv, ZeroUntilWrite, LengthKnown, AtRest, Holds, OwnFrame, CallOrSignal,
                    InLoop, Sending
<1>7. QED
  BY <1>5, <1>6 DEF TxInv

\* A transmission ends: nothing is left to show but that us_idx_in is zero, unless it
\* has lost count.
LEMMA ReturnTx ==
  ASSUME UInv, Return, idxIn' \in 0 .. Word - 1, ~slipped => idxIn' = 0
  PROVE  TxInv'
<1>1. /\ stage' = "none" /\ payload' = Idle /\ mainLen' = 0 /\ reg' = 0
      /\ wrote' = {} /\ disturbed' = FALSE /\ slipped' = slipped /\ inCall' = Idle
  BY DEF Return, apiVars
<1>2. TxTypeOK'
  <2>1. 0 \in 0 .. TxSize /\ 0 \in 0 .. Word - 1
    BY SizeFacts
  <2>2. QED
    BY <1>1, <2>1 DEF UInv, TxInv, TxTypeOK, Stage
<1>3. ZeroUntilWrite' /\ LengthKnown' /\ AtRest' /\ Holds' /\ OwnFrame' /\ CallOrSignal'
  BY <1>1 DEF ZeroUntilWrite, LengthKnown, AtRest, Holds, OwnFrame, CallOrSignal, InLoop, Sending
<1>4. QED
  BY <1>2, <1>3 DEF TxInv

LEMMA EndTx == ASSUME UInv, NoRoom \/ AllSent PROVE TxInv'
<1>1. Return /\ idxIn' = idxIn /\ (stage = "built" \/ idxIn = 0)
  BY DEF NoRoom, AllSent
<1>2. ~slipped => idxIn = 0
  BY <1>1 DEF UInv, TxInv, ZeroUntilWrite, InLoop
<1>3. QED
  BY <1>1, <1>2, ReturnTx DEF UInv, TxInv, TxTypeOK

LEMMA StoreTx == ASSUME UInv, Store PROVE TxInv'
<1>1. stage = "loaded" /\ idxIn' = reg /\ reg \in 0 .. Word - 1
  BY DEF Store, UInv, TxInv, TxTypeOK
<1>2. ~slipped => reg = 0
  BY <1>1 DEF UInv, TxInv, ZeroUntilWrite
<1>3. CASE Refused \in wrote /\ Return
  BY <1>1, <1>2, <1>3, ReturnTx
<1>4. CASE Refused \notin wrote /\ stage' = "ready" /\ reg' = 0
            /\ UNCHANGED <<apiVars, payload, mainLen, wrote, disturbed, slipped>>
  <2>1. inCall' = inCall /\ overlapped' = overlapped /\ Own' = Own
    BY <1>4 DEF apiVars, Own
  <2>2. TxTypeOK'
    BY <1>1, <1>4, <2>1, SizeFacts DEF UInv, TxInv, TxTypeOK, Stage, InLoop
  <2>3. ZeroUntilWrite' /\ LengthKnown' /\ AtRest' /\ Holds' /\ CallOrSignal'
    BY <1>1, <1>2, <1>4, <2>1 DEF UInv, TxInv, ZeroUntilWrite, LengthKnown, AtRest, Holds, CallOrSignal,
                                  InLoop, Sending
  <2>4. OwnFrame'
    BY <1>1, <1>2, <1>4, <2>1 DEF UInv, TxInv, OwnFrame, InLoop, Sending
  <2>5. QED
    BY <2>2, <2>3, <2>4 DEF TxInv
<1>5. QED
  BY <1>3, <1>4 DEF Store

LEMMA SignalTx == ASSUME UInv, Signal PROVE TxInv'
<1>1. /\ stage' = stage /\ mainLen' = mainLen /\ reg' = reg /\ wrote' = wrote /\ inCall' = inCall
      /\ Own' = Own
      /\ disturbed' = (stage \notin {"none", "selected"})
      /\ SignalSelects /\ Overwrites
  BY DEF Signal, SignalRefused, SignalSends, SignalSendsPart, Overwrites, Own
<1>2. /\ payload' \in {payload, Mixed, EmuRequest}
      /\ stage \in {"none", "selected"} => payload' = payload
      /\ payload' = EmuRequest => payload = EmuRequest \/ stage \in {"built", "copied"}
  BY <1>1, RecordFacts, EmuRequestFacts DEF Overwrites, Copied, InLoop
<1>3. /\ idxIn' \in 0 .. Word - 1 /\ slipped' \in BOOLEAN /\ (slipped => slipped')
      /\ ~slipped' => idxIn' = idxIn \/ (idxIn' = 0 /\ stage \notin {"writing", "written"})
  <2>1. idxIn \in 0 .. Word - 1 /\ 0 \in 0 .. Word - 1 /\ slipped \in BOOLEAN
    BY SizeFacts DEF UInv, TxInv, TxTypeOK
  <2>2. CASE SignalRefused
    BY <2>1, <2>2 DEF SignalRefused
  <2>3. CASE SignalSends
    BY <2>1, <2>3 DEF SignalSends, AboutToSubtract
  <2>4. CASE SignalSendsPart
    <3>1. PICK taken \in 0 .. Word - 1 : idxIn' = Minus(0, taken)
      BY <2>4 DEF SignalSendsPart
    <3>2. 0 \in 0 .. Word /\ taken \in 0 .. Word
      BY SizeFacts
    <3>3. slipped' = TRUE
      BY <2>4 DEF SignalSendsPart
    <3>4. QED
      BY <3>1, <3>2, <3>3, MinusFacts
  <2>5. QED
    BY <2>2, <2>3, <2>4 DEF Signal
<1>4. TxTypeOK'
  BY <1>1, <1>2, <1>3, EmuRequestFacts DEF UInv, TxInv, TxTypeOK
<1>5. ZeroUntilWrite' /\ LengthKnown'
  BY <1>1, <1>3 DEF UInv, TxInv, ZeroUntilWrite, LengthKnown, InLoop
<1>6. AtRest' /\ Holds' /\ OwnFrame'
  <2>1. AtRest'
    BY <1>1, <1>2 DEF UInv, TxInv, AtRest
  <2>2. Holds'
    BY <1>1, <1>2, RecordFacts, EmuRequestFacts DEF UInv, TxInv, Holds, Sending, InLoop
  <2>3. OwnFrame'
    <3>1. ~disturbed' => stage \in {"none", "selected"} /\ wrote = {}
      BY <1>1 DEF UInv, TxInv, AtRest
    <3>2. QED
      BY <1>1, <3>1 DEF OwnFrame, Sending, InLoop
  <2>4. QED
    BY <2>1, <2>2, <2>3
<1>7. CallOrSignal'
  <2>1. overlapped => overlapped'
    BY <1>1 DEF SignalSelects, Select, UInv, ApiInv, ApiTypeOK
  <2>2. inCall # Idle => overlapped' \/ inCall = EmuRequest
    <3>1. inCall # Idle => inCall \in Request
      BY DEF UInv, ApiInv, ApiTypeOK
    <3>2. inCall.app \notin {Emu, Nobody} => overlapped'
      BY <1>1 DEF SignalSelects, Select
    <3>3. QED
      BY <3>1, <3>2, RecordFacts
  <2>3. QED
    BY <1>1, <1>2, <2>1, <2>2, RecordFacts DEF UInv, TxInv, CallOrSignal
<1>8. QED
  BY <1>4, <1>5, <1>6, <1>7 DEF TxInv

\* The invariant holds of every behaviour.
THEOREM UsiInvariant == UsiSpec => []UInv
<1>1. UInv /\ [UsiNext]_usiVars => UInv'
  <2> SUFFICES ASSUME UInv, [UsiNext]_usiVars PROVE UInv'
    OBVIOUS
  <2>1. ApiInv'
    BY UsiStepIsApiStep, StepInv DEF UInv
  <2>2. CASE UNCHANGED usiVars
    <3>1. Own' = Own
      BY <2>2 DEF usiVars, apiVars, Own
    <3>2. TxInv'
      BY <2>2, <3>1 DEF usiVars, txVars, apiVars, UInv, TxInv, TxTypeOK, ZeroUntilWrite, OwnFrame,
                        CallOrSignal, AtRest, Holds, LengthKnown
    <3>3. QED
      BY <2>1, <3>2 DEF UInv
  <2>3. CASE ApiStep
    BY <2>1, <2>3, ApiStepTx DEF UInv
  <2>4. CASE Build \/ Forward
    BY <2>1, <2>4, StartTx DEF UInv
  <2>5. CASE NoRoom \/ AllSent \/ Copy \/ Encode \/ GoOn
    BY <2>1, <2>5, EndTx, CopyTx, EncodeTx, GoOnTx DEF UInv
  <2>6. CASE WriteAll \/ WritePart \/ WriteFails \/ Load \/ Store
    BY <2>1, <2>6, WriteTx, LoadTx, StoreTx DEF UInv
  <2>7. CASE Signal
    BY <2>1, <2>7, SignalTx DEF UInv
  <2>8. QED
    BY <2>2, <2>3, <2>4, <2>5, <2>6, <2>7 DEF UsiNext, Main, Write
<1>2. QED
  BY UsiInitInv, <1>1, PTL DEF UsiSpec

\* The transmitter's and the API's variables keep their types.
THEOREM UsiTypeCorrect == UsiSpec => []UsiTypeOK
<1>1. UInv => UsiTypeOK
  BY DEF UInv, TxInv, TxTypeOK, ApiInv, UsiTypeOK
<1>2. QED
  BY <1>1, UsiInvariant, PTL

\* Between transmissions the buffer is empty, until the device takes a part of a frame or a
\* signal comes between the write loop's condition and its subtraction.
THEOREM IdleAlwaysReady == UsiSpec => []IdleIsReady
<1>1. UInv => IdleIsReady
  BY DEF UInv, TxInv, ZeroUntilWrite, IdleIsReady, InLoop
<1>2. QED
  BY <1>1, UsiInvariant, PTL

\* A transmission no signal came into puts its own frame on the line, is refused, or is
\* too long for the buffer.
THEOREM UndisturbedAlwaysSent == UsiSpec => UndisturbedIsSent
<1> DEFINE Sent == stage # "none" /\ stage' = "none" /\ ~disturbed /\ ~slipped
                     => wrote \in {{Own}, {Refused}} \/ FrameLen > TxSize
<1>1. UInv /\ [UsiNext]_usiVars => [Sent]_usiVars
  <2> SUFFICES ASSUME UInv, UsiNext, stage # "none", stage' = "none", ~disturbed, ~slipped
               PROVE  wrote \in {{Own}, {Refused}} \/ FrameLen > TxSize
    OBVIOUS
  <2>1. CASE ApiStep
    BY <2>1 DEF ApiStep
  <2>2. CASE Build \/ Forward \/ Copy \/ Encode \/ GoOn \/ WriteAll \/ WritePart \/ WriteFails \/ Load
    BY <2>2 DEF Build, Forward, Copy, Encode, GoOn, WriteAll, WritePart, WriteFails, Load
  <2>3. CASE NoRoom
    <3>1. idxIn = 0
      BY <2>3 DEF NoRoom, UInv, TxInv, ZeroUntilWrite, InLoop
    <3>2. ~(FrameLen <= TxSize)
      BY <2>3, <3>1, RoomFacts DEF NoRoom, UInv, TxInv
    <3>3. QED
      BY <3>2, SizeFacts
  <2>4. CASE AllSent
    <3>1. stage = "ready" /\ idxIn = 0 /\ mainLen > 0
      BY <2>4 DEF AllSent, UInv, TxInv, LengthKnown, InLoop
    <3>2. QED
      BY <3>1 DEF UInv, TxInv, OwnFrame
  <2>5. CASE Store
    BY <2>5 DEF Store, UInv, TxInv, OwnFrame
  <2>6. CASE Signal
    BY <2>6 DEF Signal, SignalRefused, SignalSends, SignalSendsPart, Overwrites
  <2>7. QED
    BY <2>1, <2>2, <2>3, <2>4, <2>5, <2>6 DEF UsiNext, Main, Write
<1>2. QED
  BY <1>1, UsiInvariant, PTL DEF UsiSpec, UndisturbedIsSent

\* The transmitter implements PrimeApi: the buffers' accidents are losses there, and a
\* request sent twice.
THEOREM UsiImplementsApi == UsiSpec => ApiSpec
<1>1. UInv /\ [UsiNext]_usiVars => [ApiNext]_apiVars
  BY UsiStepIsApiStep
<1>2. UsiInit => ApiInit
  BY DEF UsiInit
<1>3. QED
  BY <1>1, <1>2, UsiInvariant, PTL DEF UsiSpec, ApiSpec
=============================================================================

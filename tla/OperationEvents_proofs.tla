----------------------- MODULE OperationEvents_proofs -----------------------
(***************************************************************************)
(* Proofs about IncusWatch (no send on a closed channel; the driver keeps  *)
(* the interface's contract) and about OperationEvents (no lost update).   *)
(***************************************************************************)
EXTENDS OperationEvents, TLAPS

\* The flag under the mutex mirrors the channel, which closes only after the
\* listener has died, which only a started watch has.
WatchInv ==
  /\ TypeOK
  /\ NoPanic
  /\ closed = ~open
  /\ closed => listener = "gone" /\ watch = "returned"
  /\ listener # "none" => watch # "idle"
  /\ handlers > 0 => watch = "returned"

-----------------------------------------------------------------------------
(* The driver's watch.                                                     *)

\* What every step of a goroutine of the driver preserves.
LEMMA QuietInv ==
  ASSUME WatchInv, Quiet \/ Receive, UNCHANGED ops
  PROVE  WatchInv'
<1>. USE DEF WatchInv, TypeOK, NoPanic
<1>1. CASE GetEvents
  BY <1>1 DEF GetEvents
<1>2. CASE AddHandler
  BY <1>2 DEF AddHandler
<1>3. CASE StreamDrops
  BY <1>3 DEF StreamDrops
<1>4. CASE Handler
  <2>1. handlers' \in 0 .. ops' /\ ops' \in 0 .. MaxOps
    BY <1>4, WatchAssumption DEF Handler
  <2>2. UNCHANGED <<ctx, watch, listener, closed, open>> /\ watch = "returned"
    BY <1>4 DEF Handler
  <2>3. pending' \in BOOLEAN /\ panicked' = panicked
    BY <1>4 DEF Handler, HandlerIsLate, ChannelFull
  <2>. QED
    BY <2>1, <2>2, <2>3
<1>6. CASE Disconnect
  BY <1>6 DEF Disconnect
<1>7. CASE CloseTicks
  BY <1>7 DEF CloseTicks, WaitReturns
<1>8. CASE Receive
  BY <1>8 DEF Receive
<1>. QED
  BY <1>1, <1>2, <1>3, <1>4, <1>6, <1>7, <1>8 DEF Quiet

\* An operation event starts at most one handler goroutine.
LEMMA EventInv ==
  ASSUME WatchInv, OperationEvent
  PROVE  WatchInv'
<1>1. ops \in Nat /\ ops' = ops + 1 /\ ops' \in 0 .. MaxOps
  BY WatchAssumption DEF OperationEvent, WatchInv, TypeOK
<1>2. handlers' \in 0 .. ops'
  BY <1>1 DEF OperationEvent, PerEvent, WatchInv, TypeOK
<1>3. handlers' > 0 => watch = "returned"
  BY DEF OperationEvent, WatchInv
<1>4. UNCHANGED <<ctx, watch, listener, closed, open, pending, panicked>>
  BY DEF OperationEvent
<1>. QED
  BY <1>1, <1>2, <1>3, <1>4 DEF WatchInv, TypeOK, NoPanic

\* The initial state satisfies the invariant.
LEMMA WatchInit == Init => WatchInv
<1> SUFFICES ASSUME Init
             PROVE  WatchInv
  OBVIOUS
<1>1. ops = 0 /\ handlers = 0 /\ ops \in 0 .. MaxOps /\ handlers \in 0 .. ops /\ ~(handlers > 0)
  BY WatchAssumption DEF Init, NewWatch
<1>. QED
  BY <1>1 DEF Init, NewWatch, WatchInv, TypeOK, NoPanic

\* What a step of the driver, or the caller's receive, is to the contract.
LEMMA DriverRefines ==
  ASSUME WatchInv, OperationEvent \/ ((Quiet \/ Receive) /\ UNCHANGED ops)
  PROVE  [Ticks!Next]_Ticks!vars
<1>. USE DEF WatchInv, TypeOK, Ticks!vars
<1>1. CASE OperationEvent
  BY <1>1 DEF OperationEvent, PerEvent, Ticks!Next, Ticks!Change
<1>2. CASE GetEvents
  BY <1>2 DEF GetEvents
<1>3. CASE AddHandler
  <2>1. CASE watch' = "returned"
    BY <1>3, <2>1 DEF AddHandler, Ticks!Next, Ticks!Watch
  <2>2. CASE watch' # "returned"
    BY <1>3, <2>2 DEF AddHandler
  <2>. QED
    BY <2>1, <2>2
<1>4. CASE StreamDrops \/ Disconnect
  <2>1. UNCHANGED <<watch, handlers, open, pending>>
    BY <1>4 DEF StreamDrops, Disconnect
  <2>. QED
    BY <2>1
<1>5. CASE Handler
  <2>1. UNCHANGED <<watch, open>> /\ watch = "returned"
    BY <1>5 DEF Handler
  <2>2. CASE ~open
    <3>1. pending' = pending
      BY <1>5, <2>2 DEF Handler, HandlerIsLate
    <3>. QED
      BY <2>1, <2>2, <3>1
  <2>3. CASE open
    <3>1. pending' = TRUE /\ handlers > 0
      BY <1>5, <2>3 DEF Handler, HandlerIsLate, ChannelFull
    <3>. QED
      BY <2>1, <2>3, <3>1 DEF Ticks!Next, Ticks!Tick
  <2>. QED
    BY <2>2, <2>3
<1>6. CASE CloseTicks
  BY <1>6 DEF CloseTicks, WaitReturns, Ticks!Next, Ticks!Close
<1>7. CASE Receive
  BY <1>7 DEF Receive, Ticks!Next, Ticks!Receive
<1>. QED
  BY <1>1, <1>2, <1>3, <1>4, <1>5, <1>6, <1>7 DEF Quiet

-----------------------------------------------------------------------------
(* The stream.                                                             *)

\* An answer under way whose target is in place is current, or the stream has a
\* tick or a frame to come.
AnswersCurrent ==
  page /\ handler = "select" /\ stream = <<>> /\ listener = "connected" =>
    \A c \in Cancels :
      cancel[c].at = "answer" /\ cancel[c].live =>
        cancel[c].list = ops \/ pending \/ handlers > 0

\* The handler lists only after the watch is in place, and writes what it
\* listed.
EventsInv ==
  /\ WatchInv
  /\ EventsTypeOK
  /\ handler \in {"list", "write", "select"} => watch = "returned"
  /\ NoLostUpdate
  /\ AnswersCurrent

\* A sequence over a set is one over any larger set.
LEMMA SeqGrows ==
  ASSUME NEW S, NEW T, S \subseteq T, NEW s \in Seq(S)
  PROVE  s \in Seq(T)
  OBVIOUS

\* A list is a state of the operations, however many changes follow.
LEMMA PanelTyped ==
  ASSUME PanelTypeOK, UNCHANGED panel, ops \in Nat, ops' \in Nat, ops' >= ops
  PROVE  PanelTypeOK'
<1>1. -1 .. ops \subseteq -1 .. ops'
  OBVIOUS
<1>2. stream' \in Seq(-1 .. ops')
  BY <1>1, SeqGrows DEF PanelTypeOK, panel
<1>3. cancel' \in [Cancels -> Request']
  <2>1. Request \subseteq Request'
    BY <1>1 DEF Request
  <2>. QED
    BY <2>1 DEF PanelTypeOK, panel
<1>. QED
  BY <1>1, <1>2, <1>3 DEF PanelTypeOK, panel

\* No request is a request.
LEMMA IdleTyped == ops \in Nat => Idle \in Request
  BY DEF Idle, Request

\* The initial state satisfies the invariant.
LEMMA EventsInitInv == Init /\ NewPanel /\ page \in BOOLEAN => EventsInv
<1> SUFFICES ASSUME Init, NewPanel, page \in BOOLEAN
             PROVE  EventsInv
  OBVIOUS
<1>1. WatchInv /\ ops = 0
  BY WatchInit DEF Init
<1>2. listed \in -1 .. ops /\ view \in -1 .. ops /\ failures \in 0 .. MaxFailures
  BY <1>1, EventsAssumption DEF NewPanel
<1>3. PanelTypeOK
  <2>1. stream \in Seq(-1 .. ops)
    BY DEF NewPanel
  <2>2. cancel \in [Cancels -> Request]
    BY <1>1, IdleTyped DEF NewPanel
  <2>. QED
    BY <1>2, <2>1, <2>2 DEF NewPanel, PanelTypeOK
<1>. QED
  BY <1>1, <1>2, <1>3 DEF NewPanel, EventsInv, EventsTypeOK, WatchInv, NoLostUpdate, AnswersCurrent

\* So does the stream's, in particular.
LEMMA EventsStart == EventsInit => EventsInv
  BY EventsInitInv DEF EventsInit

\* A step that ends the connection leaves nothing to lose.
LEMMA ReturnInv ==
  ASSUME EventsInv, Return, UNCHANGED <<ops, panel, page>>, failures' \in 0 .. MaxFailures
  PROVE  EventsInv'
<1>1. WatchInv'
  BY DEF Return, EventsInv, WatchInv, TypeOK, NoPanic
<1>2. listed' \in -1 .. ops' /\ handler' = "none"
  BY DEF Return, EventsInv, WatchInv, TypeOK
<1>3. PanelTypeOK'
  BY DEF panel, PanelTypeOK, EventsInv, EventsTypeOK, Request
<1>. QED
  BY <1>1, <1>2, <1>3 DEF EventsInv, EventsTypeOK, WatchInv, NoLostUpdate, AnswersCurrent

\* A change of the operations starts a handler goroutine that will tick.
LEMMA ChangeInv ==
  ASSUME EventsInv, OperationEvent, UNCHANGED serverVars
  PROVE  EventsInv'
<1>1. WatchInv' /\ UNCHANGED serverVars
  BY EventInv DEF EventsInv
<1>2. ops \in Nat /\ ops' = ops + 1 /\ UNCHANGED <<watch, listener, pending>>
  BY WatchAssumption DEF OperationEvent, EventsInv, WatchInv, TypeOK
<1>3. listed' \in -1 .. ops' /\ PanelTypeOK'
  BY <1>1, <1>2, PanelTyped DEF serverVars, EventsInv, EventsTypeOK
<1>4. listener = "connected" /\ watch = "returned" => handlers' > 0
  BY <1>2 DEF OperationEvent, PerEvent, EventsInv, WatchInv, TypeOK
<1>5. NoLostUpdate' /\ AnswersCurrent'
  BY <1>1, <1>2, <1>4 DEF serverVars, panel, EventsInv, NoLostUpdate, AnswersCurrent
<1>. QED
  BY <1>1, <1>2, <1>3, <1>5 DEF serverVars, EventsInv, EventsTypeOK, WatchInv

\* What an element's replacement does to the presses.
LEMMA ReplacedTyped ==
  ASSUME PanelTypeOK
  PROVE  /\ Replaced \in [Cancels -> Request]
         /\ \A c \in Cancels : ~Replaced[c].live
<1>1. \A r \in Request : [r EXCEPT !.live = FALSE] \in Request /\ ~[r EXCEPT !.live = FALSE].live
  BY DEF Request
<1>. QED
  BY <1>1 DEF PanelTypeOK, Replaced

\* The steps of the page and of the requests of its cancel buttons.
PanelStep ==
  \/ Swap
  \/ \E c \in Cancels : Press(c) \/ CancelLists(c) \/ CancelFails(c) \/ Answered(c)
  \/ \E c \in Cancels : CancelOperation(c) /\ UNCHANGED vars

\* They leave the watch and its handler alone.
LEMMA PanelStepFrame ==
  ASSUME PanelStep
  PROVE  UNCHANGED <<vars, handler, listed, page, failures>>
  BY DEF PanelStep, Swap, Press, CancelLists, CancelFails, Answered, CancelOperation

\* A step of a request leaves a request in its place.
LEMMA PressTyped ==
  ASSUME PanelTypeOK, ops \in Nat, NEW c \in Cancels,
         Press(c) \/ CancelLists(c) \/ CancelFails(c) \/ CancelOperation(c)
  PROVE  \E r \in Request : cancel' = [cancel EXCEPT ![c] = r]
<1>0. cancel[c] \in Request
  BY DEF PanelTypeOK
<1>1. CASE Press(c)
  <2>1. [at |-> "sent", list |-> -1, live |-> TRUE] \in Request
    BY DEF Request
  <2>. QED
    BY <1>1, <2>1 DEF Press
<1>2. CASE CancelLists(c)
  <2>1. [cancel[c] EXCEPT !.at = "answer", !.list = ops] \in Request
    <3>1. ops \in -1 .. ops
      OBVIOUS
    <3>. QED
      BY <1>0, <3>1 DEF Request
  <2>. QED
    BY <1>2, <2>1 DEF CancelLists
<1>3. CASE CancelFails(c)
  BY <1>3, IdleTyped DEF CancelFails
<1>4. CASE CancelOperation(c)
  <2>1. [cancel[c] EXCEPT !.at = "list"] \in Request
    BY <1>0 DEF Request
  <2>. QED
    BY <1>4, <2>1 DEF CancelOperation
<1>. QED
  BY <1>1, <1>2, <1>3, <1>4

\* An answer it gets ready is current.
LEMMA PressCurrent ==
  ASSUME PanelTypeOK, ops \in Nat, NEW c \in Cancels,
         Press(c) \/ CancelLists(c) \/ CancelFails(c) \/ CancelOperation(c)
  PROVE  \A d \in Cancels : cancel'[d].at = "answer" /\ cancel'[d].live =>
           cancel'[d].list = ops \/ cancel'[d] = cancel[d]
<1>1. \A d \in Cancels : d # c => cancel'[d] = cancel[d]
  BY DEF PanelTypeOK, Press, CancelLists, CancelFails, CancelOperation
<1>2. cancel[c] \in Request
  BY DEF PanelTypeOK
<1>3. cancel'[c].at = "answer" => cancel'[c].list = ops
  BY <1>2 DEF PanelTypeOK, Press, CancelLists, CancelFails, CancelOperation, Idle, Request
<1>. QED
  BY <1>1, <1>3

\* They keep the panel well typed.
LEMMA PanelStepTyped ==
  ASSUME PanelTypeOK, PanelStep, ops \in Nat
  PROVE  PanelTypeOK'
<1>0. ops' = ops /\ ops \in -1 .. ops /\ Request' = Request
  <2>1. ops' = ops
    BY PanelStepFrame DEF vars
  <2>. QED
    BY <2>1 DEF Request
<1>1. CASE Swap
  <2>1. stream \in Seq(-1 .. ops) /\ stream # <<>> /\ view' = Head(stream) /\ stream' = Tail(stream)
    BY <1>1 DEF Swap, PanelTypeOK
  <2>2. view' \in -1 .. ops /\ stream' \in Seq(-1 .. ops)
    BY <2>1
  <2>3. byCancel' \in BOOLEAN /\ cancel' \in [Cancels -> Request]
    BY <1>1, ReplacedTyped DEF Swap
  <2>. QED
    BY <1>0, <2>2, <2>3 DEF PanelTypeOK
<1>2. ASSUME NEW c \in Cancels, Press(c) \/ CancelLists(c) \/ CancelFails(c) \/ CancelOperation(c)
      PROVE  PanelTypeOK'
  <2>1. UNCHANGED <<stream, view, byCancel>>
    BY <1>2 DEF Press, CancelLists, CancelFails, CancelOperation
  <2>2. PICK r \in Request : cancel' = [cancel EXCEPT ![c] = r]
    BY <1>2, PressTyped
  <2>3. cancel' \in [Cancels -> Request]
    BY <2>2 DEF PanelTypeOK
  <2>. QED
    BY <1>0, <2>1, <2>3 DEF PanelTypeOK
<1>3. ASSUME NEW c \in Cancels, Answered(c)
      PROVE  PanelTypeOK'
  <2>1. CASE Lands(c)
    <3>1. view' \in -1 .. ops /\ byCancel' \in BOOLEAN /\ UNCHANGED stream
      BY <1>3, <2>1 DEF Answered, PanelTypeOK, Request
    <3>2. cancel' \in [Cancels -> Request]
      BY <1>3, <2>1, IdleTyped, ReplacedTyped DEF Answered
    <3>. QED
      BY <1>0, <3>1, <3>2 DEF PanelTypeOK
  <2>2. CASE ~Lands(c)
    <3>1. UNCHANGED <<stream, view, byCancel>>
      BY <1>3, <2>2 DEF Answered
    <3>2. cancel' \in [Cancels -> Request]
      BY <1>3, <2>2, IdleTyped DEF Answered, PanelTypeOK
    <3>. QED
      BY <1>0, <3>1, <3>2 DEF PanelTypeOK
  <2>. QED
    BY <2>1, <2>2
<1>. QED
  BY <1>1, <1>2, <1>3 DEF PanelStep

\* They lose no update.
LEMMA PanelStepInv ==
  ASSUME EventsInv, PanelStep
  PROVE  EventsInv'
<1>0. UNCHANGED <<vars, handler, listed, page, failures>> /\ ops \in Nat
  BY PanelStepFrame, WatchAssumption DEF EventsInv, WatchInv, TypeOK
<1>1. UNCHANGED <<ops, ctx, watch, listener, handlers, closed, open, pending, panicked>>
  BY <1>0 DEF vars, watchVars
<1>2. WatchInv'
  BY <1>1 DEF EventsInv, WatchInv, TypeOK, NoPanic
<1>3. PanelTypeOK'
  BY <1>0, PanelStepTyped DEF EventsInv, EventsTypeOK
<1>4. NoLostUpdate' /\ AnswersCurrent'
  <2>1. CASE Swap
    <3>1. stream # <<>> /\ view' = Head(stream) /\ stream' = Tail(stream) /\ stream \in Seq(-1 .. ops)
      BY <2>1 DEF Swap, EventsInv, EventsTypeOK, PanelTypeOK
    <3>2. stream' # <<>> => stream'[Len(stream')] = stream[Len(stream)]
      BY <3>1
    <3>3. stream' = <<>> => view' = stream[Len(stream)]
      <4>1. Len(stream) \in Nat /\ Len(stream) > 0 /\ Len(stream') = Len(stream) - 1
        BY <3>1
      <4>2. stream' = <<>> => Len(stream) = 1
        BY <4>1
      <4>. QED
        BY <3>1, <4>2
    <3>4. Coming' = Coming
      BY <1>0, <3>1, <3>2, <3>3 DEF Coming
    <3>5. \A c \in Cancels : ~cancel'[c].live
      BY <2>1, ReplacedTyped DEF Swap, EventsInv, EventsTypeOK
    <3>. QED
      BY <1>0, <1>1, <3>4, <3>5 DEF EventsInv, NoLostUpdate, AnswersCurrent
  <2>2. ASSUME NEW c \in Cancels, Press(c) \/ CancelLists(c) \/ CancelFails(c) \/ CancelOperation(c)
        PROVE  NoLostUpdate' /\ AnswersCurrent'
    <3>1. UNCHANGED <<stream, view>>
      BY <2>2 DEF Press, CancelLists, CancelFails, CancelOperation
    <3>2. \A d \in Cancels : cancel'[d].at = "answer" /\ cancel'[d].live =>
            cancel'[d].list = ops \/ cancel'[d] = cancel[d]
      BY <1>0, <2>2, PressCurrent DEF EventsInv, EventsTypeOK
    <3>3. NoLostUpdate'
      BY <1>0, <1>1, <3>1 DEF EventsInv, NoLostUpdate, Coming
    <3>4. AnswersCurrent'
      BY <1>0, <1>1, <3>1, <3>2 DEF EventsInv, AnswersCurrent
    <3>. QED
      BY <3>3, <3>4
  <2>3. ASSUME NEW c \in Cancels, Answered(c)
        PROVE  NoLostUpdate' /\ AnswersCurrent'
    <3>1. UNCHANGED stream
      BY <2>3 DEF Answered
    <3>2. \A d \in Cancels : cancel'[d].at = "answer" /\ cancel'[d].live => cancel'[d] = cancel[d]
      <4>1. CASE Lands(c)
        BY <2>3, <4>1, ReplacedTyped DEF Answered, Idle, EventsInv, EventsTypeOK
      <4>2. CASE ~Lands(c)
        BY <2>3, <4>2 DEF Answered, Idle, EventsInv, EventsTypeOK, PanelTypeOK
      <4>. QED
        BY <4>1, <4>2
    <3>3. AnswersCurrent'
      BY <1>0, <1>1, <3>1, <3>2 DEF EventsInv, AnswersCurrent
    <3>4. view' = view \/ (view' = cancel[c].list /\ cancel[c].at = "answer" /\ cancel[c].live)
      BY <2>3 DEF Answered, Lands
    <3>5. NoLostUpdate'
      BY <1>0, <1>1, <3>1, <3>4 DEF EventsInv, NoLostUpdate, AnswersCurrent, Coming
    <3>. QED
      BY <3>3, <3>5
  <2>. QED
    BY <2>1, <2>2, <2>3 DEF PanelStep
<1>. QED
  BY <1>0, <1>1, <1>2, <1>3, <1>4 DEF EventsInv, EventsTypeOK, WatchInv

\* A cancel of which the daemon makes a change at once.
LEMMA PressedChangeInv ==
  ASSUME EventsInv, NEW c \in Cancels, CancelOperation(c), OperationEvent
  PROVE  EventsInv'
<1>1. WatchInv' /\ UNCHANGED <<handler, listed, stream, view, byCancel, page, failures>>
  BY EventInv DEF EventsInv, CancelOperation
<1>2. ops \in Nat /\ ops' = ops + 1 /\ UNCHANGED <<watch, listener, pending>>
  BY WatchAssumption DEF OperationEvent, EventsInv, WatchInv, TypeOK
<1>3. -1 .. ops \subseteq -1 .. ops'
  BY <1>2
<1>4. listed' \in -1 .. ops' /\ PanelTypeOK'
  <2>1. listed' \in -1 .. ops' /\ view' \in -1 .. ops'
    BY <1>1, <1>3 DEF EventsInv, EventsTypeOK, PanelTypeOK
  <2>2. stream' \in Seq(-1 .. ops')
    <3>1. stream \in Seq(-1 .. ops) /\ stream' = stream
      BY <1>1 DEF EventsInv, EventsTypeOK, PanelTypeOK
    <3>. QED
      BY <1>3, <3>1, SeqGrows
  <2>3. cancel' \in [Cancels -> Request']
    <3>1. Request \subseteq Request'
      BY <1>3 DEF Request
    <3>2. PICK r \in Request : cancel' = [cancel EXCEPT ![c] = r]
      BY <1>2, PressTyped DEF EventsInv, EventsTypeOK
    <3>. QED
      BY <3>1, <3>2 DEF EventsInv, EventsTypeOK, PanelTypeOK
  <2>. QED
    BY <1>1, <2>1, <2>2, <2>3 DEF EventsInv, EventsTypeOK, PanelTypeOK
<1>5. listener = "connected" /\ watch = "returned" => handlers' > 0
  BY <1>2 DEF OperationEvent, PerEvent, EventsInv, WatchInv, TypeOK
<1>6. NoLostUpdate' /\ AnswersCurrent'
  BY <1>1, <1>2, <1>5 DEF EventsInv, NoLostUpdate, AnswersCurrent
<1>. QED
  BY <1>1, <1>2, <1>4, <1>6 DEF EventsInv, EventsTypeOK, WatchInv

\* The steps of EventsNext on the panel's side.
LEMMA StepKinds ==
  ASSUME Swap \/ \E c \in Cancels : Press(c) \/ cancelOperation(c) \/ Answered(c)
  PROVE  PanelStep \/ \E c \in Cancels : CancelOperation(c) /\ OperationEvent
  BY DEF PanelStep, cancelOperation, CancelOperation

\* The invariant of the stream is inductive.
LEMMA EventsNextInv == EventsInv /\ [EventsNext]_allVars => EventsInv'
<1> SUFFICES ASSUME EventsInv, [EventsNext]_allVars
             PROVE  EventsInv'
  OBVIOUS
<1>0. /\ ops \in Nat /\ handlers \in Nat /\ failures \in Nat
      /\ listed \in -1 .. ops /\ ops \in -1 .. ops /\ PanelTypeOK
      /\ failures \in 0 .. MaxFailures /\ 0 \in 0 .. ops
  BY WatchAssumption, EventsAssumption DEF EventsInv, EventsTypeOK, WatchInv, TypeOK
<1>1. CASE Connect
  <2>1. WatchInv'
    <3>1. handlers' \in 0 .. ops' /\ ~(handlers' > 0)
      BY <1>0, <1>1 DEF Connect
    <3>. QED
      BY <1>1, <3>1 DEF Connect, EventsInv, WatchInv, TypeOK, NoPanic
  <2>2. PanelTypeOK'
    <3>1. stream' \in Seq(-1 .. ops') /\ ops' = ops
      BY <1>1 DEF Connect
    <3>. QED
      BY <1>0, <1>1, <3>1 DEF Connect, PanelTypeOK, Request
  <2>. QED
    BY <1>1, <2>1, <2>2 DEF Connect, EventsInv, EventsTypeOK, WatchInv, NoLostUpdate, AnswersCurrent
<1>2. CASE Watched
  <2>1. WatchInv' /\ handler' = "list" /\ watch' = "returned"
    BY <1>2 DEF Watched, FirstStep, vars, watchVars, EventsInv, WatchInv, TypeOK, NoPanic
  <2>2. PanelTypeOK'
    BY <1>0, <1>2 DEF Watched, vars, panel, PanelTypeOK, Request
  <2>. QED
    BY <1>2, <2>1, <2>2 DEF Watched, vars, EventsInv, EventsTypeOK, WatchInv, NoLostUpdate, AnswersCurrent
<1>3. CASE WatchFailed \/ SelectClosed \/ SelectDone
  <2>1. Return /\ UNCHANGED <<ops, panel, page, failures>>
    BY <1>3 DEF WatchFailed, SelectClosed, SelectDone
  <2>. QED
    BY <1>0, <2>1, ReturnInv
<1>4. CASE SendFails
  <2>1. Return /\ UNCHANGED <<ops, panel, page>> /\ failures' \in 0 .. MaxFailures
    BY <1>0, <1>4, EventsAssumption DEF SendFails
  <2>. QED
    BY <2>1, ReturnInv
<1>5. CASE List \/ Write
  <2>1. WatchInv' /\ UNCHANGED <<ops, watch, listener, handlers, pending>>
    <3>1. UNCHANGED vars
      BY <1>5 DEF List, Write
    <3>2. WatchInv'
      BY <3>1 DEF vars, watchVars, EventsInv, WatchInv, TypeOK, NoPanic
    <3>. QED
      BY <3>1, <3>2 DEF vars, watchVars
  <2>2. listed' \in -1 .. ops' /\ handler' \in {"write", "select"}
    BY <1>0, <1>5, <2>1 DEF List, Write
  <2>3. PanelTypeOK' /\ NoLostUpdate' /\ AnswersCurrent'
    <3>1. CASE List
      <4>1. PanelTypeOK'
        BY <1>0, <2>1, <3>1 DEF List, panel, PanelTypeOK, Request
      <4>. QED
        BY <2>1, <3>1, <4>1 DEF List, NoLostUpdate, AnswersCurrent, Coming
    <3>2. CASE Write
      <4>1. stream \in Seq(-1 .. ops) /\ stream' = Append(stream, listed)
        BY <1>0, <3>2 DEF Write, PanelTypeOK
      <4>2. stream' \in Seq(-1 .. ops) /\ stream' # <<>> /\ stream'[Len(stream')] = listed
        BY <1>0, <4>1
      <4>3. PanelTypeOK'
        BY <1>0, <2>1, <3>2, <4>2 DEF Write, PanelTypeOK, Request
      <4>4. Coming' = Coming
        BY <3>2, <4>2 DEF Write, Coming
      <4>. QED
        BY <2>1, <3>2, <4>2, <4>3, <4>4 DEF Write, EventsInv, NoLostUpdate, AnswersCurrent
    <3>. QED
      BY <1>5, <3>1, <3>2
  <2>. QED
    BY <1>5, <2>1, <2>2, <2>3 DEF List, Write, EventsInv, EventsTypeOK, WatchInv
<1>6. CASE SelectTick
  <2>1. WatchInv'
    BY <1>6, QuietInv DEF SelectTick, EventsInv
  <2>2. PanelTypeOK'
    BY <1>0, <1>6 DEF SelectTick, panel, PanelTypeOK, Request
  <2>. QED
    BY <1>6, <2>1, <2>2
       DEF SelectTick, Receive, EventsInv, EventsTypeOK, WatchInv, NoLostUpdate, AnswersCurrent
<1>7. CASE Leave
  <2>1. WatchInv'
    <3>1. ctx' \in {"live", "done"}
      BY <1>7 DEF Leave, EventsInv, WatchInv, TypeOK
    <3>2. UNCHANGED <<ops, watch, listener, handlers, closed, open, pending, panicked>>
      BY <1>7 DEF Leave
    <3>. QED
      BY <3>1, <3>2 DEF EventsInv, WatchInv, TypeOK, NoPanic
  <2>2. PanelTypeOK'
    <3>1. stream' \in Seq(-1 .. ops') /\ ops' = ops
      BY <1>7 DEF Leave
    <3>2. cancel' \in [Cancels -> Request'] /\ UNCHANGED <<view, byCancel>>
      BY <1>0, <1>7, <3>1, IdleTyped DEF Leave, Request
    <3>. QED
      BY <1>0, <3>1, <3>2 DEF PanelTypeOK
  <2>. QED
    BY <1>7, <2>1, <2>2 DEF Leave, EventsInv, EventsTypeOK, WatchInv, NoLostUpdate, AnswersCurrent
<1>8. CASE DriverFails
  <2>1. WatchInv' /\ UNCHANGED <<ops, handler, listed, panel, page>>
    BY <1>8, QuietInv DEF DriverFails, EventsInv, Quiet
  <2>2. failures' \in 0 .. MaxFailures
    BY <1>0, <1>8, EventsAssumption DEF DriverFails
  <2>3. listener' # "connected" \/ watch \in {"idle", "listening"}
    BY <1>8 DEF DriverFails, StreamDrops, GetEvents, AddHandler
  <2>4. watch = "returned" => watch' = "returned"
    BY <1>8 DEF DriverFails, StreamDrops, GetEvents, AddHandler
  <2>5. PanelTypeOK'
    BY <1>0, <2>1 DEF panel, PanelTypeOK, Request
  <2>6. handler \in {"write", "select"} => listener' # "connected"
    BY <2>3 DEF EventsInv
  <2>. QED
    BY <2>1, <2>2, <2>4, <2>5, <2>6 DEF EventsInv, EventsTypeOK, WatchInv, NoLostUpdate, AnswersCurrent
<1>9. CASE DriverGoroutine
  <2>1. WatchInv' /\ UNCHANGED <<ops, serverVars>>
    BY <1>9, QuietInv DEF DriverGoroutine, EventsInv, Quiet
  <2>2. watch = "returned" => watch' = "returned"
    BY <1>9 DEF DriverGoroutine, GetEvents, AddHandler, Handler, Disconnect, CloseTicks
  <2>3. NoLostUpdate' /\ AnswersCurrent'
    <3>0. UNCHANGED <<ops, handler, page, Coming, stream, cancel>>
      BY <2>1 DEF serverVars, panel, Coming
    <3>1. CASE Handler
      <4>1. closed => listener' = "gone"
        BY <3>1 DEF Handler, EventsInv, WatchInv
      <4>2. ~closed => pending'
        BY <3>1 DEF Handler, HandlerIsLate, ChannelFull
      <4>. QED
        BY <3>0, <4>1, <4>2 DEF NoLostUpdate, AnswersCurrent, EventsInv, WatchInv, TypeOK
    <3>2. CASE GetEvents \/ AddHandler
      <4>1. watch # "returned"
        BY <3>2 DEF GetEvents, AddHandler
      <4>2. handler \notin {"write", "select"}
        BY <4>1 DEF EventsInv
      <4>. QED
        BY <3>0, <4>2 DEF NoLostUpdate, AnswersCurrent
    <3>3. CASE Disconnect \/ CloseTicks
      <4>1. UNCHANGED <<handlers, pending>> /\ (listener' = "connected" => listener = "connected")
        BY <3>3 DEF Disconnect, CloseTicks
      <4>. QED
        BY <3>0, <4>1 DEF EventsInv, NoLostUpdate, AnswersCurrent
    <3>. QED
      BY <1>9, <3>1, <3>2, <3>3 DEF DriverGoroutine
  <2>4. PanelTypeOK'
    BY <1>0, <2>1 DEF serverVars, panel, PanelTypeOK, Request
  <2>. QED
    BY <2>1, <2>2, <2>3, <2>4 DEF serverVars, EventsInv, EventsTypeOK, WatchInv
<1>10. CASE OperationEvent /\ UNCHANGED serverVars
  BY <1>10, ChangeInv
<1>11. CASE UNCHANGED allVars
  <2>1. WatchInv' /\ PanelTypeOK' /\ UNCHANGED <<vars, serverVars>>
    BY <1>0, <1>11 DEF allVars, vars, watchVars, serverVars, panel, EventsInv, WatchInv, TypeOK,
                       NoPanic, PanelTypeOK, Request
  <2>. QED
    BY <2>1 DEF vars, watchVars, serverVars, panel, EventsInv, EventsTypeOK, WatchInv,
                NoLostUpdate, AnswersCurrent, Coming
<1>12. CASE PanelStep
  BY <1>12, PanelStepInv
<1>13. ASSUME NEW c \in Cancels, CancelOperation(c), OperationEvent
       PROVE  EventsInv'
  BY <1>13, PressedChangeInv
<1>. QED
  BY <1>1, <1>2, <1>3, <1>4, <1>5, <1>6, <1>7, <1>8, <1>9, <1>10, <1>11, <1>12, <1>13, StepKinds
     DEF EventsNext, ServerStep

\* Every reachable state of the stream and of its watch is well typed.
THEOREM EventsTypeCorrect == EventsSpec => []EventsTypeOK
<1>1. EventsInv => EventsTypeOK
  BY DEF EventsInv
<1>. QED
  BY <1>1, EventsStart, EventsNextInv, PTL DEF EventsSpec

\* No handler goroutine, however late, sends on the closed channel of its
\* watch, and the channel is closed once.
THEOREM NeverPanics == EventsSpec => []NoPanic
<1>1. EventsInv => NoPanic
  BY DEF EventsInv, WatchInv
<1>. QED
  BY <1>1, EventsStart, EventsNextInv, PTL DEF EventsSpec

\* The Incus driver implements the contract of Backend.WatchOperations for the
\* caller that operationsEvents is.
THEOREM IncusKeepsContract == EventsSpec => Contract
<1>1. EventsInit => Ticks!Init
  BY DEF EventsInit, Init, NewWatch, Ticks!Init
<1>2. EventsInv /\ [EventsNext]_allVars => [Ticks!Next]_Ticks!vars
  <2> SUFFICES ASSUME EventsInv, [EventsNext]_allVars
               PROVE  [Ticks!Next]_Ticks!vars
    OBVIOUS
  <2>0. WatchInv
    BY DEF EventsInv
  <2>1. CASE Connect
    <3>1. watch' = "idle" /\ handlers' = 0 /\ ~(handlers' > 0) /\ pending' = FALSE
      BY <2>1 DEF Connect
    <3>. QED
      BY <3>1 DEF Ticks!Next, Ticks!Renew
  <2>2. CASE UNCHANGED <<watch, handlers, open, pending>>
    BY <2>2 DEF Ticks!vars
  <2>3. CASE DriverFails \/ DriverGoroutine
    BY <2>0, <2>3, DriverRefines DEF DriverFails, DriverGoroutine, Quiet
  <2>4. CASE SelectTick
    BY <2>0, <2>4, DriverRefines DEF SelectTick
  <2>5. CASE OperationEvent
    BY <2>0, <2>5, DriverRefines
  <2>6. CASE PanelStep
    BY <2>6, PanelStepFrame DEF vars, watchVars, Ticks!vars
  <2>. QED
    BY <2>1, <2>2, <2>3, <2>4, <2>5, <2>6, StepKinds
       DEF EventsNext, ServerStep, Watched, WatchFailed, List, Write, SelectClosed, SelectDone,
           SendFails, Leave, Return, allVars, vars, watchVars
<1>. QED
  BY <1>1, <1>2, EventsStart, EventsNextInv, PTL DEF EventsSpec, Contract, Ticks!Spec

\* A panel that is behind the daemon is always on its way to be refreshed.
THEOREM NoUpdateLost == EventsSpec => []NoLostUpdate
<1>1. EventsInv => NoLostUpdate
  BY DEF EventsInv
<1>. QED
  BY <1>1, EventsStart, EventsNextInv, PTL DEF EventsSpec

\* What is on its way to the panel is in order: the frames, then the list the
\* handler is about to write; a frame that the panel shows comes before them, and
\* an answer whose target is in place is no older than what the panel shows.
AdvanceInv ==
  /\ EventsInv
  /\ \A i, j \in 1 .. Len(stream) : i <= j => stream[i] <= stream[j]
  /\ handler = "write" => \A i \in 1 .. Len(stream) : stream[i] <= listed
  /\ ~byCancel => /\ handler = "write" => view <= listed
                  /\ \A i \in 1 .. Len(stream) : view <= stream[i]
  /\ \A c \in Cancels : cancel[c].at = "answer" /\ cancel[c].live => view <= cancel[c].list

\* The initial state satisfies it.
LEMMA AdvanceInit == EventsInit => AdvanceInv
<1> SUFFICES ASSUME EventsInit
             PROVE  AdvanceInv
  OBVIOUS
<1>1. EventsInv /\ stream = <<>> /\ handler = "none" /\ cancel = [c \in Cancels |-> Idle]
  BY EventsStart DEF EventsInit, NewPanel
<1>. QED
  BY <1>1 DEF AdvanceInv, Idle

\* A step of the panel keeps the order.
LEMMA PanelAdvanceInv ==
  ASSUME AdvanceInv, PanelStep
  PROVE  AdvanceInv' /\ (view' < view => byCancel /\ ~byCancel')
<1>0. /\ EventsInv' /\ UNCHANGED <<ops, handler, listed>>
      /\ ops \in Nat /\ listed \in Int /\ view \in Int /\ view <= ops /\ stream \in Seq(Int)
  <2>1. UNCHANGED <<vars, handler, listed>> /\ EventsInv'
    BY PanelStepFrame, PanelStepInv DEF AdvanceInv
  <2>2. ops \in Nat /\ listed \in Int /\ view \in Int /\ view <= ops
    BY WatchAssumption DEF AdvanceInv, EventsInv, EventsTypeOK, PanelTypeOK, WatchInv, TypeOK
  <2>3. stream \in Seq(Int)
    <3>1. stream \in Seq(-1 .. ops) /\ -1 .. ops \subseteq Int
      BY <2>2 DEF AdvanceInv, EventsInv, EventsTypeOK, PanelTypeOK
    <3>. QED
      BY <3>1, SeqGrows
  <2>4. UNCHANGED ops
    BY <2>1 DEF vars
  <2>. QED
    BY <2>1, <2>2, <2>3, <2>4
<1>1. CASE Swap
  <2>1. Len(stream) \in Nat /\ Len(stream) > 0 /\ stream[1] \in Int
    BY <1>0, <1>1 DEF Swap
  <2>2. view' = stream[1] /\ Len(stream') = Len(stream) - 1 /\ ~byCancel'
    BY <1>0, <1>1, <2>1 DEF Swap
  <2>3. \A i \in 1 .. Len(stream') : stream'[i] = stream[i + 1] /\ i + 1 \in 1 .. Len(stream)
    BY <1>0, <1>1, <2>1, <2>2 DEF Swap
  <2>4. \A i \in 1 .. Len(stream) : stream[1] <= stream[i]
    BY <2>1 DEF AdvanceInv
  <2>5. \A c \in Cancels : ~cancel'[c].live
    BY <1>1, ReplacedTyped DEF Swap, AdvanceInv, EventsInv, EventsTypeOK
  <2>6. view' < view => byCancel
    BY <1>0, <2>1, <2>2 DEF AdvanceInv
  <2>7. \A i, j \in 1 .. Len(stream') : i <= j => stream'[i] <= stream'[j]
    BY <2>1, <2>2, <2>3 DEF AdvanceInv
  <2>8. handler = "write" =>
          view' <= listed /\ \A i \in 1 .. Len(stream') : stream'[i] <= listed
    BY <2>1, <2>2, <2>3 DEF AdvanceInv
  <2>9. \A i \in 1 .. Len(stream') : view' <= stream'[i]
    BY <2>2, <2>3, <2>4
  <2>. QED
    BY <1>0, <2>2, <2>5, <2>6, <2>7, <2>8, <2>9 DEF AdvanceInv
<1>2. ASSUME NEW c \in Cancels, Press(c) \/ CancelLists(c) \/ CancelFails(c) \/ CancelOperation(c)
      PROVE  AdvanceInv' /\ UNCHANGED view
  <2>1. UNCHANGED <<stream, view, byCancel>>
    BY <1>2 DEF Press, CancelLists, CancelFails, CancelOperation
  <2>2. \A d \in Cancels : cancel'[d].at = "answer" /\ cancel'[d].live =>
          cancel'[d].list = ops \/ cancel'[d] = cancel[d]
    BY <1>0, <1>2, PressCurrent DEF AdvanceInv, EventsInv, EventsTypeOK
  <2>. QED
    BY <1>0, <2>1, <2>2 DEF AdvanceInv
<1>3. ASSUME NEW c \in Cancels, Answered(c)
      PROVE  AdvanceInv' /\ view' >= view
  <2>1. CASE Lands(c)
    <3>1. view' >= view /\ byCancel' /\ UNCHANGED stream
      BY <1>0, <1>3, <2>1 DEF Answered, Lands, AdvanceInv, EventsInv, EventsTypeOK, PanelTypeOK, Request
    <3>2. \A d \in Cancels : ~cancel'[d].live
      BY <1>3, <2>1, ReplacedTyped DEF Answered, Idle, AdvanceInv, EventsInv, EventsTypeOK
    <3>. QED
      BY <1>0, <3>1, <3>2 DEF AdvanceInv
  <2>2. CASE ~Lands(c)
    <3>1. UNCHANGED <<stream, view, byCancel>>
      BY <1>3, <2>2 DEF Answered
    <3>2. \A d \in Cancels : cancel'[d].at = "answer" /\ cancel'[d].live => cancel'[d] = cancel[d]
      BY <1>3, <2>2 DEF Answered, Idle, AdvanceInv, EventsInv, EventsTypeOK, PanelTypeOK
    <3>. QED
      BY <1>0, <3>1, <3>2 DEF AdvanceInv
  <2>. QED
    BY <2>1, <2>2
<1>4. (view' >= view \/ UNCHANGED view) => ~(view' < view)
  BY <1>0 DEF AdvanceInv, EventsInv, EventsTypeOK, PanelTypeOK
<1>. QED
  BY <1>1, <1>2, <1>3, <1>4 DEF PanelStep

\* The panel goes back in time only when a frame, listed before the answer to a
\* cancel, arrives after it, over any number of presses and reconnections.
THEOREM PanelAdvances == EventsSpec => ViewAdvances
<1>1. AdvanceInv /\ [EventsNext]_allVars =>
        AdvanceInv' /\ [view' < view => byCancel /\ ~byCancel']_allVars
  <2> SUFFICES ASSUME AdvanceInv, [EventsNext]_allVars
               PROVE  AdvanceInv' /\ (view' < view => byCancel /\ ~byCancel')
    OBVIOUS
  <2>1. EventsInv'
    BY EventsNextInv DEF AdvanceInv
  <2>2. view \in Int /\ listed \in Int /\ ops \in Int /\ view <= ops /\ stream \in Seq(-1 .. ops)
    BY DEF AdvanceInv, EventsInv, EventsTypeOK, PanelTypeOK, TypeOK
  <2>3. \A i \in 1 .. Len(stream) : stream[i] \in Int /\ stream[i] <= ops
    BY <2>2
  <2>4. CASE List
    <3>1. UNCHANGED <<stream, view, byCancel, cancel>> /\ listed' = ops
      BY <2>4 DEF List, panel
    <3>. QED
      BY <2>1, <2>2, <2>3, <3>1 DEF AdvanceInv
  <2>5. CASE Write
    <3>1. UNCHANGED <<view, byCancel, cancel>> /\ handler' = "select" /\ handler = "write"
      BY <2>5 DEF Write
    <3>2. stream' = Append(stream, listed) /\ Len(stream') = Len(stream) + 1 /\ Len(stream) \in Nat
      BY <2>2, <2>5 DEF Write
    <3>3. \A i \in 1 .. Len(stream') :
            stream'[i] = IF i = Len(stream) + 1 THEN listed ELSE stream[i]
      BY <2>2, <3>2
    <3>4. ASSUME NEW i \in 1 .. Len(stream'), NEW j \in 1 .. Len(stream'), i <= j
          PROVE  stream'[i] <= stream'[j]
      <4>1. CASE j = Len(stream) + 1 /\ i # j
        BY <2>2, <3>1, <3>2, <3>3, <3>4, <4>1 DEF AdvanceInv
      <4>2. CASE j # Len(stream) + 1
        <5>1. i \in 1 .. Len(stream) /\ j \in 1 .. Len(stream)
          BY <3>2, <3>4, <4>2
        <5>. QED
          BY <3>3, <3>4, <4>2, <5>1 DEF AdvanceInv
      <4>3. CASE i = j
        <5>1. stream'[i] \in Int
          BY <2>2, <2>3, <3>2, <3>3
        <5>. QED
          BY <4>3, <5>1
      <4>. QED
        BY <4>1, <4>2, <4>3
    <3>5. ~byCancel => \A i \in 1 .. Len(stream') : view <= stream'[i]
      BY <3>1, <3>2, <3>3 DEF AdvanceInv
    <3>. QED
      BY <2>1, <2>2, <3>1, <3>4, <3>5 DEF AdvanceInv
  <2>6. CASE Connect \/ Leave
    <3>1. stream' = <<>> /\ UNCHANGED <<view, byCancel>> /\ (handler' = handler \/ handler' # "write")
      BY <2>6 DEF Connect, Leave
    <3>2. listed' = listed /\ \A c \in Cancels : cancel'[c] = cancel[c] \/ cancel'[c] = Idle
      BY <2>6 DEF Connect, Leave
    <3>. QED
      BY <2>1, <2>2, <3>1, <3>2 DEF AdvanceInv, Idle
  <2>7. CASE UNCHANGED panel /\ (handler' # "write" \/ UNCHANGED <<handler, listed>>)
    BY <2>1, <2>2, <2>7 DEF AdvanceInv, panel
  <2>8. CASE PanelStep
    BY <2>8, PanelAdvanceInv
  <2>9. ASSUME NEW c \in Cancels, CancelOperation(c)
        PROVE  AdvanceInv' /\ UNCHANGED view
    <3>1. UNCHANGED <<handler, listed, stream, view, byCancel>>
      BY <2>9 DEF CancelOperation
    <3>2. \A d \in Cancels : cancel'[d].at = "answer" => cancel'[d] = cancel[d]
      BY <2>9 DEF CancelOperation, AdvanceInv, EventsInv, EventsTypeOK, PanelTypeOK
    <3>. QED
      BY <2>1, <3>1, <3>2 DEF AdvanceInv
  <2>. QED
    BY <2>2, <2>4, <2>5, <2>6, <2>7, <2>8, <2>9, StepKinds
       DEF EventsNext, ServerStep, Watched, FirstStep, WatchFailed, SelectTick, SelectClosed,
           SelectDone, SendFails, DriverFails, DriverGoroutine, Return, serverVars, allVars
<1>. QED
  BY <1>1, AdvanceInit, PTL DEF EventsSpec, ViewAdvances
=============================================================================

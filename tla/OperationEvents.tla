-------------------------- MODULE OperationEvents --------------------------
(***************************************************************************)
(* The Tasks panel's stream: the browser's EventSource, the SSE handler    *)
(* operationsEvents of the server, and the Incus driver's WatchOperations  *)
(* (IncusWatch) underneath.  The handler subscribes first, sends the list  *)
(* once, and lists again on every tick; any failure drops the connection   *)
(* and the browser opens a new one.  The panel has a second writer: a      *)
(* cancel button of it posts to cancelOperation, whose answer is a list of *)
(* its own that replaces the #operations element the button is in.         *)
(*                                                                         *)
(* The page is htmx: a frame replaces whatever the panel holds, while an   *)
(* answer replaces the element that was its target when the button was     *)
(* pressed, and does nothing (its badge included) if that element has been *)
(* replaced since.  Frames and answers travel on connections of their own. *)
(*                                                                         *)
(* Data abstraction.  A list of operations is the number of changes it     *)
(* reflects (ops).  The goroutines of a connection that has ended hold     *)
(* their own channel, flag and listener, so a new connection starts from   *)
(* fresh ones and the old are forgotten.  A keepalive writes a comment and *)
(* changes nothing; its failure is the failure of the connection.          *)
(***************************************************************************)
EXTENDS IncusWatch, Sequences

CONSTANTS
  Cancels,       \* presses of a cancel button that can be under way together
  MaxFailures    \* bound of the model: dropped streams and failed calls

ASSUME EventsAssumption == MaxFailures \in Nat

VARIABLES
  handler,   \* operationsEvents: "none", "watching", "list", "write", "select"
  listed,    \* the list it read and has not written yet
  stream,    \* the frames written and not yet swapped into the panel
  view,      \* what the browser's panel shows; -1 before the first event
  byCancel,  \* it shows the answer to a cancel, not a frame
  cancel,    \* per press: how far its request is, its list, its target in place
  page,      \* the page with the panel is open
  failures   \* failures so far

panel == <<stream, view, byCancel, cancel>>
serverVars == <<handler, listed, panel, page, failures>>
allVars == <<vars, serverVars>>

-----------------------------------------------------------------------------
(* Plausible bugs, substituted for FirstStep by the mutants: no initial    *)
(* list once the watch is in place; a target that is never replaced, such  *)
(* as the footer's box around #operations.                                 *)

SelectAtOnce == "select"
LandsAnyway(c) == TRUE

-----------------------------------------------------------------------------
\* What operationsEvents does once WatchOperations has returned: send().
FirstStep == "list"

Idle == [at |-> "idle", list |-> -1, live |-> FALSE]

\* No stream yet; the panel is empty and has no buttons.
NewPanel ==
  /\ handler = "none" /\ listed = -1 /\ failures = 0
  /\ stream = <<>> /\ view = -1 /\ byCancel = FALSE
  /\ cancel = [c \in Cancels |-> Idle]

EventsInit == Init /\ NewPanel /\ page = TRUE

\* EventSource (re)connects: a new request, a new watch.  Frames of the old
\* connection that have not arrived are lost.
Connect ==
  /\ page
  /\ handler = "none"
  /\ handler' = "watching"
  /\ ctx' = "live" /\ watch' = "idle" /\ listener' = "none" /\ handlers' = 0
  /\ closed' = FALSE /\ open' = TRUE /\ pending' = FALSE
  /\ stream' = <<>>
  /\ UNCHANGED <<ops, panicked, listed, view, byCancel, cancel, page, failures>>

\* The handler returns: net/http ends the request's context.
Return ==
  /\ handler' = "none"
  /\ listed' = -1
  /\ ctx' = "done"
  /\ UNCHANGED <<watch, listener, handlers, closed, open, pending, panicked>>

Watched ==
  /\ handler = "watching"
  /\ watch = "returned"
  /\ handler' = FirstStep
  /\ UNCHANGED <<vars, listed, panel, page, failures>>

WatchFailed ==
  /\ handler = "watching"
  /\ watch = "failed"
  /\ Return
  /\ UNCHANGED <<ops, panel, page, failures>>

\* send: list, then render and write.
List ==
  /\ handler = "list"
  /\ handler' = "write"
  /\ listed' = ops
  /\ UNCHANGED <<vars, panel, page, failures>>

Write ==
  /\ handler = "write"
  /\ handler' = "select"
  /\ stream' = Append(stream, listed)
  /\ listed' = -1
  /\ UNCHANGED <<vars, view, byCancel, cancel, page, failures>>

\* A list, a render, a write or a keepalive fails.
SendFails ==
  /\ handler \in {"list", "write", "select"}
  /\ failures < MaxFailures
  /\ failures' = failures + 1
  /\ Return
  /\ UNCHANGED <<ops, panel, page>>

SelectTick ==
  /\ handler = "select"
  /\ Receive
  /\ handler' = "list"
  /\ UNCHANGED <<ops, listed, panel, page, failures>>

SelectClosed ==
  /\ handler = "select"
  /\ ~open
  /\ ~pending
  /\ Return
  /\ UNCHANGED <<ops, panel, page, failures>>

SelectDone ==
  /\ handler = "select"
  /\ ctx = "done"
  /\ Return
  /\ UNCHANGED <<ops, panel, page, failures>>

-----------------------------------------------------------------------------
(* The panel.  Whatever replaces its #operations element takes the target  *)
(* of every answer still under way.                                        *)

Replaced == [c \in Cancels |-> [cancel[c] EXCEPT !.live = FALSE]]

\* The next frame of the stream is swapped in.
Swap ==
  /\ page
  /\ stream # <<>>
  /\ view' = Head(stream)
  /\ stream' = Tail(stream)
  /\ byCancel' = FALSE
  /\ cancel' = Replaced
  /\ UNCHANGED <<vars, handler, listed, page, failures>>

\* A cancel button of the panel is pressed.
Press(c) ==
  /\ page
  /\ view >= 0
  /\ cancel[c].at = "idle"
  /\ cancel' = [cancel EXCEPT ![c] = [at |-> "sent", list |-> -1, live |-> TRUE]]
  /\ UNCHANGED <<vars, handler, listed, stream, view, byCancel, page, failures>>

\* CancelOperation: the daemon changes the operation, now or a little later.
CancelOperation(c) ==
  /\ cancel[c].at = "sent"
  /\ cancel' = [cancel EXCEPT ![c].at = "list"]
  /\ OperationEvent \/ UNCHANGED vars
  /\ UNCHANGED <<handler, listed, stream, view, byCancel, page, failures>>

\* operationsPanel: a list of its own, unordered with the stream's.
CancelLists(c) ==
  /\ cancel[c].at = "list"
  /\ cancel' = [cancel EXCEPT ![c].at = "answer", ![c].list = ops]
  /\ UNCHANGED <<vars, handler, listed, stream, view, byCancel, page, failures>>

\* Either call fails: h.fail's toast leaves the panel alone.
CancelFails(c) ==
  /\ cancel[c].at \in {"sent", "list"}
  /\ cancel' = [cancel EXCEPT ![c] = Idle]
  /\ UNCHANGED <<vars, handler, listed, stream, view, byCancel, page, failures>>

\* The target of the answer is still in the page (swapOuterHTML).
Lands(c) == cancel[c].live

Answered(c) ==
  /\ cancel[c].at = "answer"
  /\ IF Lands(c)
       THEN /\ view' = cancel[c].list
            /\ byCancel' = TRUE
            /\ cancel' = [Replaced EXCEPT ![c] = Idle]
       ELSE /\ cancel' = [cancel EXCEPT ![c] = Idle]
            /\ UNCHANGED <<view, byCancel>>
  /\ UNCHANGED <<vars, handler, listed, stream, page, failures>>

cancelOperation(c) == CancelOperation(c) \/ CancelLists(c) \/ CancelFails(c)

\* The user leaves the page: the request's context ends, and its other
\* requests are forgotten (what they still do is the daemon's).
Leave ==
  /\ page
  /\ page' = FALSE
  /\ ctx' = IF handler = "none" THEN ctx ELSE "done"
  /\ UNCHANGED <<ops, watch, listener, handlers, closed, open, pending, panicked>>
  /\ stream' = <<>>
  /\ cancel' = [c \in Cancels |-> Idle]
  /\ UNCHANGED <<handler, listed, view, byCancel, failures>>

\* A watch that cannot be set up, or a stream the daemon drops.
DriverFails ==
  /\ failures < MaxFailures
  /\ failures' = failures + 1
  /\ StreamDrops \/ ((GetEvents \/ AddHandler) /\ watch' = "failed")
  /\ UNCHANGED <<ops, handler, listed, panel, page>>

DriverGoroutine ==
  /\ \/ GetEvents /\ handler = "watching" /\ watch' # "failed"
     \/ AddHandler /\ watch' # "failed"
     \/ Handler
     \/ Disconnect
     \/ CloseTicks
  /\ UNCHANGED <<ops, serverVars>>

ServerStep == Watched \/ WatchFailed \/ List \/ Write \/ SelectTick \/ SelectClosed \/ SelectDone

EventsNext ==
  \/ Connect
  \/ ServerStep
  \/ SendFails
  \/ Swap
  \/ \E c \in Cancels : Press(c) \/ cancelOperation(c) \/ Answered(c)
  \/ Leave
  \/ DriverFails
  \/ DriverGoroutine
  \/ OperationEvent /\ UNCHANGED serverVars

\* Everything that can run does: the goroutines of the driver, the handler,
\* and the browser's reconnection and its frames.  The daemon, failures, the
\* user and the answers to its presses are free.
EventsFairness ==
  /\ WF_allVars(Connect)
  /\ WF_allVars(ServerStep)
  /\ WF_allVars(Swap)
  /\ WF_allVars(DriverGoroutine /\ (GetEvents \/ AddHandler))
  /\ WF_allVars(Handler /\ UNCHANGED <<ops, serverVars>>)
  /\ WF_allVars(Disconnect /\ UNCHANGED <<ops, serverVars>>)
  /\ WF_allVars(CloseTicks /\ UNCHANGED <<ops, serverVars>>)

EventsSpec == EventsInit /\ [][EventsNext]_allVars /\ EventsFairness

-----------------------------------------------------------------------------
(* Properties                                                              *)

Request == [at : {"idle", "sent", "list", "answer"}, list : -1 .. ops, live : BOOLEAN]

PanelTypeOK ==
  /\ stream \in Seq(-1 .. ops)
  /\ view \in -1 .. ops
  /\ byCancel \in BOOLEAN
  /\ cancel \in [Cancels -> Request]

\* Type invariant; a panel never shows, and nothing on its way to it holds, a
\* state of the operations that has not been reached.
EventsTypeOK ==
  /\ TypeOK
  /\ handler \in {"none", "watching", "list", "write", "select"}
  /\ listed \in -1 .. ops
  /\ PanelTypeOK
  /\ page \in BOOLEAN
  /\ failures \in 0 .. MaxFailures

\* What the panel will show once everything the handler has sent is there.
Coming ==
  IF handler = "write" THEN listed
  ELSE IF stream # <<>> THEN stream[Len(stream)]
  ELSE view

\* While a connection lasts and its stream is up, a panel that is behind the
\* daemon is on its way to be refreshed: the handler is about to list, or what
\* is coming is current, or a tick waits in the channel, or a handler goroutine
\* is about to send one.  Coalescing ticks, listing outside any lock and the
\* answers to cancels (operationsEvents, cancelOperation) lose no change.
NoLostUpdate ==
  page /\ handler \in {"write", "select"} /\ listener = "connected" =>
    Coming = ops \/ pending \/ handlers > 0

\* The panel goes back in time in one case only: it shows the answer to a
\* cancel, and a frame listed before that answer arrives after it.  Frames are
\* in order, over reconnections too, and no answer, however late, takes back
\* what a frame or another answer has shown (operationsEvents, cancelOperation
\* and the target of OperationRows' cancel button).
ViewAdvances == [][view' < view => byCancel /\ ~byCancel']_allVars

\* Once the page is left, the driver's watch is taken down for good: neither
\* the events stream nor the goroutines that wait on it outlive the request.
WatchEnds ==
  ~page ~> [](listener # "connected" /\ (watch = "returned" => ~open))

\* A change of the operations reaches the open page and stays, over however
\* many dropped streams, reconnections and answers to cancels.
EveryChangeShown ==
  \A n \in 1 .. MaxOps : (ops = n /\ page) ~> [](view >= n \/ ~page)
=============================================================================

----------------------------- MODULE IncusWatch -----------------------------
(***************************************************************************)
(* WatchOperations of the Incus driver: one call, its event listener, the  *)
(* handler goroutines the events client starts (one per event, not joined  *)
(* by Disconnect), the goroutine that waits for the caller's context and   *)
(* the one that waits for the listener and closes the channel.             *)
(*                                                                         *)
(* OperationEvents composes it with its caller, which ends the context.    *)
(*                                                                         *)
(* External: the events connection of the Incus client.  It starts a       *)
(* handler goroutine for every operation event while the listener is       *)
(* connected, and may drop at any time.                                    *)
(***************************************************************************)
EXTENDS Integers

CONSTANTS
  MaxOps,       \* bound of the model: changes of the daemon's operations
  MaxHandlers   \* bound of the model: handler goroutines not yet run

ASSUME WatchAssumption == MaxOps \in Nat /\ MaxHandlers \in Nat

VARIABLES
  ops,        \* the daemon: how often its operations have changed
  ctx,        \* the caller's context: "live" or "done"
  watch,      \* the call: "idle", "listening", "returned" or "failed"
  listener,   \* the events stream: "none", "connected" or "gone"
  handlers,   \* handler goroutines started and not yet past the mutex
  closed,     \* the flag guarded by mu
  open,       \* the channel can be sent to
  pending,    \* a tick waits in the channel
  panicked    \* ghost: a send on, or a second close of, the closed channel

watchVars == <<ctx, watch, listener, handlers, closed, open, pending, panicked>>
vars == <<ops, watchVars>>

-----------------------------------------------------------------------------
(* Plausible bugs, substituted for the definitions below by the mutants.   *)

FlagForgotten == FALSE
RegisteredTwice == 2
NotHooked == FALSE
OnlyWhenCancelled == watch = "returned" /\ ctx = "done"

-----------------------------------------------------------------------------
\* The handler finds the watch over.
HandlerIsLate == closed

\* Handlers AddHandler registers for one operation event.
PerEvent == 1

\* The listener has died, for whatever reason.
WaitReturns == watch = "returned" /\ listener = "gone"

\* ch has no room: the tick coalesces with the one already pending.
ChannelFull == pending

NewWatch ==
  /\ ctx = "live"
  /\ watch = "idle"
  /\ listener = "none"
  /\ handlers = 0
  /\ closed = FALSE
  /\ open = TRUE
  /\ pending = FALSE

Init == ops = 0 /\ NewWatch /\ panicked = FALSE

-----------------------------------------------------------------------------
(* The call.                                                               *)

GetEvents ==
  /\ watch = "idle"
  /\ \/ watch' = "listening" /\ listener' = "connected"
     \/ watch' = "failed" /\ UNCHANGED listener
  /\ UNCHANGED <<ctx, handlers, closed, open, pending, panicked>>

\* AddHandler registers the handler, and both goroutines start.
AddHandler ==
  /\ watch = "listening"
  /\ \/ watch' = "returned" /\ UNCHANGED listener
     \/ watch' = "failed" /\ listener' = "gone"
  /\ UNCHANGED <<ctx, handlers, closed, open, pending, panicked>>

(* The daemon and its events stream.                                       *)

\* The daemon's operations change; a connected listener with a handler gets
\* the event.
OperationEvent ==
  /\ ops < MaxOps
  /\ ops' = ops + 1
  /\ IF listener = "connected" /\ watch = "returned"
       THEN handlers < MaxHandlers /\ handlers' = handlers + PerEvent
       ELSE UNCHANGED handlers
  /\ UNCHANGED <<ctx, watch, listener, closed, open, pending, panicked>>

StreamDrops ==
  /\ listener = "connected"
  /\ listener' = "gone"
  /\ UNCHANGED <<ctx, watch, handlers, closed, open, pending, panicked>>

(* The goroutines.                                                         *)

\* The handler under mu.
Handler ==
  /\ handlers > 0
  /\ handlers' = handlers - 1
  /\ IF HandlerIsLate \/ ChannelFull
       THEN UNCHANGED <<pending, panicked>>
       ELSE pending' = TRUE /\ panicked' = (panicked \/ ~open)
  /\ UNCHANGED <<ctx, watch, listener, closed, open>>

Disconnect ==
  /\ watch = "returned"
  /\ ctx = "done"
  /\ listener = "connected"
  /\ listener' = "gone"
  /\ UNCHANGED <<ctx, watch, handlers, closed, open, pending, panicked>>

\* The closer, once: closed and the channel change under mu together.
CloseTicks ==
  /\ WaitReturns
  /\ ~closed
  /\ closed' = TRUE
  /\ open' = FALSE
  /\ panicked' = (panicked \/ ~open)
  /\ UNCHANGED <<ctx, watch, listener, handlers, pending>>

\* The caller receives the pending tick.
Receive ==
  /\ pending
  /\ pending' = FALSE
  /\ UNCHANGED <<ctx, watch, listener, handlers, closed, open, panicked>>

\* The steps of the driver that do not wait for the daemon's operations.
Quiet == GetEvents \/ AddHandler \/ StreamDrops \/ Handler \/ Disconnect \/ CloseTicks

-----------------------------------------------------------------------------
(* Properties                                                              *)

\* Type invariant; at most one handler goroutine per event.
TypeOK ==
  /\ ops \in 0 .. MaxOps
  /\ ctx \in {"live", "done"}
  /\ watch \in {"idle", "listening", "returned", "failed"}
  /\ listener \in {"none", "connected", "gone"}
  /\ handlers \in 0 .. ops
  /\ closed \in BOOLEAN
  /\ open \in BOOLEAN
  /\ pending \in BOOLEAN
  /\ panicked \in BOOLEAN

\* No handler goroutine, however late, sends on the closed channel, and it is
\* closed only once (the mutex and the flag of WatchOperations).
NoPanic == ~panicked

\* The driver keeps the contract of the interface.
Ticks == INSTANCE OperationTicks WITH
  phase <- IF watch # "returned" THEN "off" ELSE IF open THEN "on" ELSE "over",
  owed <- open /\ handlers > 0

Contract == Ticks!Spec
=============================================================================

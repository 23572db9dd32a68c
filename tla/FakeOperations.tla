--------------------------- MODULE FakeOperations ---------------------------
(***************************************************************************)
(* The in-memory backend's operation log and its watchers                  *)
(* (fake/operations.go).  Every mutation logs a finished task and, like    *)
(* every change of the log, ticks all watchers, under the backend's mutex; *)
(* a watch ends in two steps, one that takes the mutex and one that does   *)
(* not.                                                                    *)
(*                                                                         *)
(* Data abstraction.  An entry is its number (opSeq), its status, and its  *)
(* Cancelable flag; the descriptions are left out.                         *)
(***************************************************************************)
EXTENDS Integers, Sequences, FiniteSets

CONSTANTS
  Spaces,        \* remote/project pairs, each with a log of its own
  DefaultSpace,  \* where SeedRunningOperation records
  Watchers,      \* calls of WatchOperations
  maxOps,        \* cap of the log
  MaxSeq,        \* bound of the model: operations per space
  MaxSeeds       \* bound of the model: running operations

VARIABLES
  log,       \* space.ops: newest first
  opSeq,     \* space.opSeq
  watchers,  \* opWatchers: the registered watchers
  chan,      \* per watcher, its channel: pending tick, open
  watch,     \* per watcher: "none", "on", "cancelled", "unregistered", "closed"
  stale,     \* ghost: the watcher has not been ticked since it last received
  seeded     \* ghost: numbers of the seeded operations not cancelled yet

vars == <<log, opSeq, watchers, chan, watch, stale, seeded>>

Entry == [id : Nat, status : {"Success", "Running", "Cancelled"}, cancelable : BOOLEAN]

Done(n) == [id |-> n, status |-> "Success", cancelable |-> FALSE]
Running(n) == [id |-> n, status |-> "Running", cancelable |-> TRUE]

-----------------------------------------------------------------------------
(* Plausible bugs, substituted for the definitions below by the mutants.   *)

ByAge(l) == {i \in DOMAIN l : i <= maxOps}
StillRegistered(w) == watchers
NoBuffer(w) == TRUE
CloseWhenDrained(w) ==
  /\ watch[w] = "unregistered"
  /\ ~chan[w].pending
  /\ watch' = [watch EXCEPT ![w] = "closed"]
  /\ chan' = [chan EXCEPT ![w] = [@ EXCEPT !.open = FALSE]]
  /\ UNCHANGED <<log, opSeq, watchers, stale, seeded>>

-----------------------------------------------------------------------------
Prepended(l, e) == <<e>> \o l

\* The positions of a log that have not simply succeeded.
Unfinished(l) == {i \in DOMAIN l : l[i].status # "Success"}

\* The n-th of a set of positions; a log reduced to a set of its positions.
Nth(K, n) == CHOOSE i \in K : Cardinality({j \in K : j <= i}) = n
Pick(l, K) == [n \in 1 .. Cardinality(K) |-> l[Nth(K, n)]]

\* logOp keeps the newest maxOps entries and every running one.
Kept(l) == {i \in DOMAIN l : i <= maxOps \/ l[i].status = "Running"}

Trim(l) == Pick(l, Kept(l))

\* CancelOperation refuses what is not cancelable.
MayCancel(e) == e.cancelable

\* What stays registered when watcher w goes.
Remaining(w) == watchers \ {w}

\* The channel takes no further tick.
Full(w) == chan[w].pending

\* notifyOpWatchers, under the mutex.
NotifyOpWatchers ==
  /\ chan' = [w \in Watchers |->
       IF w \in watchers /\ ~Full(w) THEN [chan[w] EXCEPT !.pending = TRUE] ELSE chan[w]]
  /\ stale' = [w \in Watchers |-> stale[w] \/ watch[w] \in {"on", "cancelled"}]

-----------------------------------------------------------------------------
Init ==
  /\ log = [s \in Spaces |-> <<>>]
  /\ opSeq = [s \in Spaces |-> 0]
  /\ watchers = {}
  /\ chan = [w \in Watchers |-> [pending |-> FALSE, open |-> TRUE]]
  /\ watch = [w \in Watchers |-> "none"]
  /\ stale = [w \in Watchers |-> FALSE]
  /\ seeded = {}

\* Any mutation of the backend, on its success path.
LogOp(s) ==
  /\ opSeq[s] < MaxSeq
  /\ opSeq' = [opSeq EXCEPT ![s] = @ + 1]
  /\ log' = [log EXCEPT ![s] = Trim(Prepended(@, Done(opSeq[s] + 1)))]
  /\ NotifyOpWatchers
  /\ UNCHANGED <<watchers, watch, seeded>>

SeedRunningOperation ==
  LET s == DefaultSpace  n == opSeq[s] + 1 IN
  /\ n <= MaxSeq /\ Cardinality(Unfinished(log[s])) < MaxSeeds
  /\ opSeq' = [opSeq EXCEPT ![s] = n]
  /\ log' = [log EXCEPT ![s] = Prepended(@, Running(n))]
  /\ seeded' = seeded \cup {n}
  /\ NotifyOpWatchers
  /\ UNCHANGED <<watchers, watch>>

\* An operation of space s by number; a caller's number may be of any age.
CancelOperation(s, i) ==
  LET e == log[s][i] IN
  /\ i \in 1 .. Len(log[s])
  /\ MayCancel(e)
  /\ log' = [log EXCEPT ![s][i] = [@ EXCEPT !.status = "Cancelled", !.cancelable = FALSE]]
  /\ seeded' = IF s = DefaultSpace THEN seeded \ {e.id} ELSE seeded
  /\ NotifyOpWatchers
  /\ UNCHANGED <<opSeq, watchers, watch>>

(* Watchers *)

WatchOperations(w) ==
  /\ watch[w] = "none"
  /\ watch' = [watch EXCEPT ![w] = "on"]
  /\ watchers' = watchers \cup {w}
  /\ UNCHANGED <<log, opSeq, chan, stale, seeded>>

CtxDone(w) ==
  /\ watch[w] = "on"
  /\ watch' = [watch EXCEPT ![w] = "cancelled"]
  /\ UNCHANGED <<log, opSeq, watchers, chan, stale, seeded>>

\* delete(opWatchers, id) under the mutex ...
Unregister(w) ==
  /\ watch[w] = "cancelled"
  /\ watch' = [watch EXCEPT ![w] = "unregistered"]
  /\ watchers' = Remaining(w)
  /\ UNCHANGED <<log, opSeq, chan, stale, seeded>>

\* ... and close(ch) without it.
Close(w) ==
  /\ watch[w] = "unregistered"
  /\ watch' = [watch EXCEPT ![w] = "closed"]
  /\ chan' = [chan EXCEPT ![w] = [@ EXCEPT !.open = FALSE]]
  /\ UNCHANGED <<log, opSeq, watchers, stale, seeded>>

\* The consumer takes the tick and lists.
Receive(w) ==
  /\ chan[w].pending
  /\ chan' = [chan EXCEPT ![w] = [@ EXCEPT !.pending = FALSE]]
  /\ stale' = [stale EXCEPT ![w] = FALSE]
  /\ UNCHANGED <<log, opSeq, watchers, watch, seeded>>

WatcherStep(w) == WatchOperations(w) \/ CtxDone(w) \/ Unregister(w) \/ Close(w) \/ Receive(w)

Next ==
  \/ \E s \in Spaces : LogOp(s) \/ (\E i \in 1 .. Len(log[s]) : CancelOperation(s, i))
  \/ SeedRunningOperation
  \/ \E w \in Watchers : WatcherStep(w)

Fairness == \A w \in Watchers : WF_vars(Unregister(w)) /\ WF_vars(Close(w))

Spec == Init /\ [][Next]_vars /\ Fairness

-----------------------------------------------------------------------------
(* Properties                                                              *)

\* Type invariant; a log never outgrows its cap by more than the operations
\* seeded as running, and is newest first without repetition.
TypeOK ==
  /\ log \in [Spaces -> Seq(Entry)]
  /\ \A s \in Spaces :
       /\ Len(log[s]) <= maxOps + MaxSeeds
       /\ \A i, j \in 1 .. Len(log[s]) : i < j => log[s][i].id > log[s][j].id
  /\ opSeq \in [Spaces -> 0 .. MaxSeq]
  /\ watchers \subseteq Watchers
  /\ chan \in [Watchers -> [pending : BOOLEAN, open : BOOLEAN]]
  /\ watch \in [Watchers -> {"none", "on", "cancelled", "unregistered", "closed"}]
  /\ stale \in [Watchers -> BOOLEAN]
  /\ seeded \subseteq Nat

\* A running operation stays visible and cancelable no matter how much newer
\* history piles on top of it (logOp), until it is cancelled.
RunningStaysVisible ==
  \A n \in seeded :
    \E i \in 1 .. Len(log[DefaultSpace]) : log[DefaultSpace][i] = Running(n)

\* No change of any log is lost on a watcher that is still registered.
WatcherSees == \A w \in watchers : stale[w] => chan[w].pending

\* The end of the context closes the channel.
WatchEnds == \A w \in Watchers : (watch[w] = "cancelled") ~> ~chan[w].open

\* Every watch keeps the contract of Backend.WatchOperations: no tick from
\* nowhere, none after the channel is closed (its send would panic), although
\* closing happens outside the mutex, and one close.
Ticks(w) == INSTANCE OperationTicks WITH
  phase <- IF watch[w] = "none" THEN "off" ELSE IF chan[w].open THEN "on" ELSE "over",
  owed <- FALSE,
  pending <- chan[w].pending

Contract ==
  /\ \A w \in Watchers : Ticks(w)!Init
  /\ [][\A w \in Watchers : [Ticks(w)!Next]_(Ticks(w)!vars)]_vars
=============================================================================

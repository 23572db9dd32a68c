---------------------------- MODULE BulkActions ----------------------------
(***************************************************************************)
(* One bulk request of the instance list (server/instances.go, bulk): a    *)
(* loop starts one goroutine per selected name, at most MaxConcurrent at a *)
(* time, each of which calls the driver (incus/instances.go) and records   *)
(* its failure; when all have ended the handler summarises the failures    *)
(* and lists the instances.                                                *)
(*                                                                         *)
(* A driver call is one or two operations of the daemon, each started and  *)
(* then waited for.  An operation goes on when its wait is cut short: by   *)
(* the client leaving, or by the loss of the daemon's events connection.   *)
(*                                                                         *)
(* Data abstraction: a paused instance counts as running.                  *)
(*                                                                         *)
(* External: the daemon, which accepts an operation on an instance in the  *)
(* right state, or refuses it, or lets it fail.                            *)
(***************************************************************************)
EXTENDS FiniteSets, Integers, Sequences

CONSTANTS
  Names,          \* instances
  Selections,     \* the names a request may list, repetitions included
  Offered,        \* the actions offered, keys of bulkOps
  MaxConcurrent,  \* the semaphore's capacity, 8 in the code
  MaxElsewhere    \* bound of the model: state changes by other clients

Actions == {"start", "stop", "restart", "snapshot", "delete"}

ASSUME BulkAssumption ==
  /\ Selections \subseteq Seq(Names) \ {<<>>}
  /\ Offered \subseteq Actions
  /\ MaxConcurrent \in Nat \ {0}
  /\ MaxElsewhere \in Nat

States == {"absent", "stopped", "running"}

VARIABLES
  inst,      \* the daemon's instances
  snaps,     \* those that have the batch's snapshot
  action, names,  \* the request's form
  ctx,       \* the request's context: "live" or "done"
  spawned,   \* goroutines the loop has started
  slots,     \* tokens in the semaphore
  wg,        \* the wait group's counter
  worker,    \* per index: its goroutine
  answer,    \* the response: the failed indices and the table, once written
  elsewhere

vars == <<inst, snaps, action, names, ctx, spawned, slots, wg, worker, answer, elsewhere>>

Indices == DOMAIN names

\* todo: the daemon's operations still to run; op: the last one; cut: its wait
\* was cut short.
Worker ==
  [pc : {"none", "look", "call", "wait", "return", "done"},
   todo : Seq(Actions),
   op : {"none", "running", "succeeded", "failed"},
   cut : BOOLEAN, failed : BOOLEAN, panicked : BOOLEAN]

Unborn == [pc |-> "none", todo |-> <<>>, op |-> "none", cut |-> FALSE,
           failed |-> FALSE, panicked |-> FALSE]

NoAnswer == [sent |-> "no", failed |-> {}, table |-> {}]

Init ==
  /\ inst \in [Names -> States \ {"absent"}]
  /\ snaps = {}
  /\ action \in Offered
  /\ names \in Selections
  /\ ctx = "live"
  /\ spawned = 0
  /\ slots = 0
  /\ wg = 0
  /\ worker = [i \in Indices |-> Unborn]
  /\ answer = NoAnswer
  /\ elsewhere = 0

-----------------------------------------------------------------------------
(* Plausible bugs, substituted for the definitions below by the mutants.   *)

KeptOnPanic(w) == IF w.panicked THEN 0 ELSE 1
Unlimited == TRUE
AddedByWorker == 0
DoneWhenCut(w) == [w EXCEPT !.pc = "return", !.cut = TRUE]

-----------------------------------------------------------------------------
(* The daemon                                                              *)

\* The state an operation needs, and the one it leaves.
Accepts(op, n) ==
  CASE op = "start"    -> inst[n] = "stopped"
    [] op = "stop"     -> inst[n] = "running"
    [] op = "restart"  -> inst[n] = "running"
    [] op = "snapshot" -> inst[n] # "absent" /\ n \notin snaps
    [] op = "delete"   -> inst[n] = "stopped"

After(op, state) ==
  CASE op \in {"start", "restart"} -> "running"
    [] op = "stop" -> "stopped"
    [] op = "delete" -> "absent"
    [] OTHER -> state

\* What is left to know of an operation that ends so: nothing once its wait
\* was cut short.
Known(w, end) == IF w.cut THEN "none" ELSE end

DaemonFinishes(i) ==
  LET w == worker[i]
      n == names[i]
      op == Head(w.todo)
  IN
  /\ w.op = "running"
  /\ \/ /\ Accepts(op, n)
        /\ worker' = [worker EXCEPT ![i].op = Known(w, "succeeded")]
        /\ inst' = [inst EXCEPT ![n] = After(op, @)]
        /\ snaps' = IF op = "snapshot" THEN snaps \cup {n}
                    ELSE IF op = "delete" THEN snaps \ {n} ELSE snaps
     \/ /\ worker' = [worker EXCEPT ![i].op = Known(w, "failed")]
        /\ UNCHANGED <<inst, snaps>>
  /\ UNCHANGED <<action, names, ctx, spawned, slots, wg, answer, elsewhere>>

\* Another client's state change, deletion or creation.
Elsewhere(n) ==
  /\ elsewhere < MaxElsewhere
  /\ elsewhere' = elsewhere + 1
  /\ \E s \in States \ {inst[n]} : inst' = [inst EXCEPT ![n] = s]
  /\ snaps' = IF inst'[n] = "absent" THEN snaps \ {n} ELSE snaps
  /\ UNCHANGED <<action, names, ctx, spawned, slots, wg, worker, answer>>

-----------------------------------------------------------------------------
(* The goroutines                                                          *)

Move(i, w) ==
  /\ worker' = [worker EXCEPT ![i] = w]
  /\ UNCHANGED <<inst, snaps, action, names, ctx, spawned, answer, elsewhere>>

Failed(w) == [Unborn EXCEPT !.pc = "return", !.failed = TRUE]

\* DeleteInstance's look at the state: a forced stop unless it is stopped.
Look(i) ==
  LET w == worker[i]
      state == inst[names[i]]
  IN
  /\ w.pc = "look"
  /\ \/ /\ state # "absent"
        /\ Move(i, [w EXCEPT !.pc = "call",
                      !.todo = IF state = "stopped" THEN <<"delete">> ELSE <<"stop", "delete">>])
     \/ Move(i, Failed(w))
  /\ UNCHANGED <<slots, wg>>

\* The call that starts the next operation, which the daemon may refuse.
Call(i) ==
  LET w == worker[i] IN
  /\ w.pc = "call"
  /\ \/ /\ Accepts(Head(w.todo), names[i])
        /\ Move(i, [w EXCEPT !.pc = "wait", !.op = "running"])
     \/ Move(i, Failed(w))
  /\ UNCHANGED <<slots, wg>>

\* What a wait that ends early makes of the call.
CutShort(w) == [w EXCEPT !.pc = "return", !.failed = TRUE, !.cut = TRUE,
                         !.op = IF @ = "running" THEN @ ELSE "none"]

\* waitOp: the operation has ended, the client has left, or the events
\* connection is lost.
WaitReturns(i) ==
  LET w == worker[i]
      rest == Tail(w.todo)
  IN
  /\ w.pc = "wait"
  /\ \/ /\ w.op = "succeeded"
        /\ Move(i, IF rest = <<>> THEN [w EXCEPT !.pc = "return"]
                   ELSE [w EXCEPT !.pc = "call", !.todo = rest, !.op = "none"])
     \/ w.op = "failed" /\ Move(i, Failed(w))
     \/ ctx = "done" /\ Move(i, CutShort(w))
     \/ w.op = "running" /\ Move(i, CutShort(w))
  /\ UNCHANGED <<slots, wg>>

\* A panic of the call, recovered in the goroutine.
Panic(i) ==
  LET w == worker[i] IN
  /\ w.pc \in {"look", "call"}
  /\ Move(i, [Failed(w) EXCEPT !.panicked = TRUE])
  /\ UNCHANGED <<slots, wg>>

\* What the deferred calls give back to the semaphore.
Freed(w) == 1

\* The deferred calls, the semaphore's and then the group's: nobody can tell a
\* free slot before Done from one after it.
Return(i) ==
  /\ worker[i].pc = "return"
  /\ Move(i, [worker[i] EXCEPT !.pc = "done", !.panicked = FALSE])
  /\ slots' = slots - Freed(worker[i])
  /\ wg' = wg - 1

Goroutine(i) == Look(i) \/ Call(i) \/ WaitReturns(i) \/ Panic(i) \/ Return(i)

-----------------------------------------------------------------------------
(* The handler                                                             *)

\* The send on the semaphore does not block.
SlotFree == slots < MaxConcurrent

AddedByLoop == 1

Spawn ==
  LET i == spawned + 1 IN
  /\ spawned < Len(names)
  /\ SlotFree
  /\ spawned' = i
  /\ slots' = slots + 1
  /\ wg' = wg + AddedByLoop
  /\ worker' = [worker EXCEPT ![i] =
       IF action = "delete" THEN [Unborn EXCEPT !.pc = "look"]
       ELSE [Unborn EXCEPT !.pc = "call", !.todo = <<action>>]]
  /\ UNCHANGED <<inst, snaps, action, names, ctx, answer, elsewhere>>

\* wg.Wait has returned: the failures and the list as it is then; or a bare
\* redirect for a client without HTMX, or the error of ListInstances.
Respond ==
  /\ spawned = Len(names)
  /\ wg = 0
  /\ answer = NoAnswer
  /\ \/ answer' = [sent |-> "summary", failed |-> {i \in Indices : worker[i].failed},
                   table |-> {n \in Names : inst[n] # "absent"}]
     \/ answer' = [NoAnswer EXCEPT !.sent = "bare"]
  /\ UNCHANGED <<inst, snaps, action, names, ctx, spawned, slots, wg, worker, elsewhere>>

ClientLeaves ==
  /\ ctx = "live"
  /\ answer = NoAnswer
  /\ ctx' = "done"
  /\ UNCHANGED <<inst, snaps, action, names, spawned, slots, wg, worker, answer, elsewhere>>

Next ==
  \/ Spawn
  \/ Respond
  \/ ClientLeaves
  \/ \E i \in Indices : Goroutine(i) \/ DaemonFinishes(i)
  \/ \E n \in Names : Elsewhere(n)

\* Goroutines that can run do run, and a cancelled wait returns.  The daemon
\* ends every operation but a restart, which waits for the guest without a
\* timeout (changeState, Timeout -1, not forced).
Fairness ==
  /\ WF_vars(Spawn)
  /\ WF_vars(Respond)
  /\ \A i \in UNION {DOMAIN s : s \in Selections} :
       /\ WF_vars(i \in Indices /\ Goroutine(i))
       /\ WF_vars(i \in Indices /\ action # "restart" /\ DaemonFinishes(i))

Spec == Init /\ [][Next]_vars /\ Fairness

-----------------------------------------------------------------------------
(* Properties                                                              *)

\* Type invariant; the wait group's counter is never negative, which would
\* panic outside of every recover.
TypeOK ==
  /\ inst \in [Names -> States]
  /\ snaps \subseteq Names
  /\ action \in Offered
  /\ names \in Selections
  /\ ctx \in {"live", "done"}
  /\ spawned \in 0 .. Len(names)
  /\ slots \in 0 .. MaxConcurrent
  /\ wg \in 0 .. Len(names)
  /\ worker \in [Indices -> Worker]
  /\ answer \in [sent : {"no", "summary", "bare"}, failed : SUBSET Indices, table : SUBSET Names]
  /\ elsewhere \in 0 .. MaxElsewhere

\* The daemon runs no more than MaxConcurrent of the request's operations at a
\* time, not counting those whose wait was cut short.
DaemonNotFlooded ==
  Cardinality({i \in Indices : worker[i].op = "running" /\ ~worker[i].cut}) <= MaxConcurrent

\* The summary is true: it is written when every goroutine has ended, what it
\* counts as done the daemon has confirmed to the last operation, and what may
\* still be going on it counts as failed.  The table under it no longer lists
\* what it says was deleted, unless another client made it again.
AnswerIsTrue ==
  answer.sent = "summary" =>
    \A i \in Indices :
      LET w == worker[i] IN
      /\ w.pc = "done"
      /\ i \in answer.failed <=> w.failed
      /\ i \notin answer.failed => w.op = "succeeded" /\ Len(w.todo) = 1
      /\ w.op = "running" => i \in answer.failed
      /\ action = "delete" /\ elsewhere = 0 /\ i \notin answer.failed
           => names[i] \notin answer.table

\* The request is answered, whatever fails or panics: at the latest when the
\* client has left, and otherwise unless a guest keeps a restart waiting.
BulkEnds == (action # "restart" \/ ctx = "done") ~> answer # NoAnswer
=============================================================================

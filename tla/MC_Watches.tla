----------------------------- MODULE MC_Watches -----------------------------
(* Instance of OperationEvents, FakeOperations and Console for TLC: what   *)
(* lasts as long as its client, the watches of one driver, Incus's or the  *)
(* in-memory one, or a console.  They share nothing, so those that are not *)
(* used stay in an initial state, their page never open.                   *)
EXTENDS OperationEvents

CONSTANTS Spaces, DefaultSpace, Watchers, maxOps, MaxSeq, MaxSeeds, MaxSizes, MaxKeys

ASSUME WatchesBounds ==
  /\ {maxOps, MaxSeq, MaxSeeds, MaxSizes, MaxKeys} \subseteq Nat
  /\ DefaultSpace \in Spaces

VARIABLES
  driver,  \* "incus", "fake" or "console"
  log, opSeq, watchers, chan, calls, stale, seeded,
  browser, frames, resized, typed, reader, asked, resize, copier, control,
  size, shell, dataDone, session, exec

fake == <<log, opSeq, watchers, chan, calls, stale, seeded>>
console == <<browser, frames, resized, typed, reader, asked, resize, copier, control,
             size, shell, dataDone, session, exec>>

Fake == INSTANCE FakeOperations WITH watch <- calls
Term == INSTANCE Console WITH ctx <- session

WatchesInit ==
  /\ Fake!Init
  /\ Term!Init
  /\ \/ driver = "incus" /\ EventsInit
     \/ driver \in {"fake", "console"}
          /\ Init /\ NewPanel /\ page = FALSE

WatchesNext ==
  \/ driver = "incus" /\ EventsNext /\ UNCHANGED <<driver, fake, console>>
  \/ driver = "fake" /\ Fake!Next /\ UNCHANGED <<driver, allVars, console>>
  \/ driver = "console" /\ Term!Next /\ UNCHANGED <<driver, allVars, fake>>

\* Fairness of Console, for a console.
At(A) == driver = "console" /\ A
ConsoleFairness ==
  /\ WF_console(At(Term!Reader)) /\ WF_console(At(Term!Copy))
  /\ WF_console(At(Term!EndOutput)) /\ WF_console(At(Term!execControl))
  /\ WF_console(At(Term!Exec))

WatchesSpec ==
  /\ WatchesInit
  /\ [][WatchesNext]_<<driver, allVars, fake, console>>
  /\ EventsFairness
  /\ Fake!Fairness
  /\ ConsoleFairness

-----------------------------------------------------------------------------
(* What is said of the in-memory driver and of a console, in the terms of  *)
(* FakeOperations and Console.                                             *)

\* Type invariant of all, with the bound on a log's length and its order
\* (logOp), and the order of a console's sizes.
WatchesTypeOK == EventsTypeOK /\ Fake!TypeOK /\ Term!TypeOK

\* A running operation stays visible and cancelable whatever piles on top of
\* it (logOp).
RunningStaysVisible == Fake!RunningStaysVisible

\* No change of any log is lost on a registered watcher (notifyOpWatchers).
WatcherSees == Fake!WatcherSees

\* The newest size of a console's window is the one that its shell is given,
\* however the channel is emptied meanwhile (consoleWS).
NewestSizeWins == Term!NewestSizeWins

\* The end of the context closes the fake's channel (WatchOperations); the end
\* of the browser ends a console's session (consoleWS, Exec).
LeaversFreed == Fake!WatchEnds /\ (driver = "console" => Term!SessionEnds)

\* Every watch keeps the contract of Backend.WatchOperations, so that no tick
\* is sent on a closed channel (notifyOpWatchers).
FakeContract == Fake!Contract
=============================================================================

--------------------------- MODULE OperationTicks ---------------------------
(***************************************************************************)
(* What Backend.WatchOperations promises its caller (backend.go): changes  *)
(* of the daemon's operations arrive as coalesced ticks on a channel of    *)
(* capacity one, and the channel is closed once, when the caller's context *)
(* ends or the driver loses its event source.  The two drivers implement   *)
(* this contract.                                                          *)
(***************************************************************************)

VARIABLES
  phase,    \* "off", "on" while the watch lasts, "over" once it is closed
  owed,     \* a change has been noticed and its tick is still to come
  pending   \* a tick waits in the channel

vars == <<phase, owed, pending>>

TypeOK ==
  /\ phase \in {"off", "on", "over"}
  /\ owed \in BOOLEAN
  /\ pending \in BOOLEAN

Init == phase = "off" /\ owed = FALSE /\ pending = FALSE

Watch == phase = "off" /\ phase' = "on" /\ UNCHANGED <<owed, pending>>

\* A change is ticked at once or noted for later.
Change ==
  /\ phase = "on"
  /\ \/ owed' = TRUE /\ UNCHANGED pending
     \/ pending' = TRUE /\ UNCHANGED owed
  /\ UNCHANGED phase

\* One tick stands for every change noticed before it.
Tick ==
  /\ phase = "on"
  /\ owed
  /\ pending' = TRUE
  /\ owed' \in BOOLEAN
  /\ UNCHANGED phase

Receive == pending /\ pending' = FALSE /\ UNCHANGED <<phase, owed>>

\* The channel closes; a tick already in it can still be received.
Close == phase = "on" /\ phase' = "over" /\ owed' = FALSE /\ UNCHANGED pending

\* A caller lets go of its watch and may start another, which owes it nothing
\* of the old one.
Renew == phase' = "off" /\ owed' = FALSE /\ pending' = FALSE

Next == Watch \/ Change \/ Tick \/ Receive \/ Close \/ Renew

Spec == Init /\ [][Next]_vars
=============================================================================

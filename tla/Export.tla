------------------------------- MODULE Export -------------------------------
(***************************************************************************)
(* The download of a backup tarball, from the HTTP handler down.           *)
(* ExportInstance and ExportVolume create a temporary backup on the        *)
(* daemon, spool it to a temporary file, stream it and clean up in         *)
(* deferred calls; ExportInstanceBackup and ExportVolumeBackup do the same *)
(* with a stored backup that is there to stay.  ExportImage hands the      *)
(* handler a reader on its two temporary files, or on a third where it has *)
(* zipped the parts of a split image, that removes them when it is closed. *)
(* The client may disconnect at any time, every call of the daemon may     *)
(* fail, and the daemon finishes its operations in its own time.           *)
(*                                                                         *)
(* External: the daemon's operations.  A backup exists once the operation  *)
(* that creates it has succeeded, and a deletion that comes earlier finds  *)
(* nothing; a cancellation may be refused; waiting for an operation fails  *)
(* when the events connection drops, whatever becomes of the operation.    *)
(***************************************************************************)
EXTENDS Naturals

VARIABLES
  kind,      \* "temporary" backup or "stored" one, or "image"
  pc,        \* the step of the call
  ctx,       \* the request's context: "live" or "done"
  op,        \* the create operation: "none", "running", "succeeded", "failed", "aborted"
  backup,    \* or image, on the daemon: "none", "present", "deleting", "deleted"
  temp,      \* how many temporary files there are
  result,    \* the error the driver will return: "none" or "error"
  wrote,     \* how much of the file was written: "no", "headers", "some", "all"
  response,  \* how the handler ended the response: "none", "file", "errorPage"
  logged,    \* ghost: a warning has been logged
  lost       \* ghost: waiting failed with ctx live and the operation running

vars == <<kind, pc, ctx, op, backup, temp, result, wrote, response, logged, lost>>

Steps == {"idle", "look", "create", "wait", "cancel", "spool", "download", "zip", "stream",
          "cleanup", "delete", "await", "reply", "done"}

-----------------------------------------------------------------------------
(* Plausible bugs, substituted for the definitions below by the mutants.   *)

NoDeferredDelete == "reply"
KeepTempOnError == result = "error"
NoDeadline == FALSE

-----------------------------------------------------------------------------
\* What WaitContext makes of the operation's final status.
WaitError(status) == IF status = "succeeded" THEN "none" ELSE "error"

\* The deferred call that follows cleanupExportTemp, or its absence.
AfterTemp == IF kind = "temporary" THEN "delete" ELSE "reply"

\* cleanupExportTemp leaves the files behind.
TempStays == FALSE

\* deleteBackup waits under a detached context with a deadline.
DeadlinePasses == TRUE

\* attachmentWriter: once a byte is out, no error page follows it; nor the
\* headers of an image.
Ended == IF result = "error" /\ wrote = "no" THEN "errorPage" ELSE "file"

-----------------------------------------------------------------------------
Init ==
  /\ kind \in {"temporary", "stored", "image"}
  /\ pc = "idle"
  /\ ctx = "live"
  /\ op = "none"
  /\ backup = IF kind = "temporary" THEN "none" ELSE "present"
  /\ temp = 0
  /\ result = "none"
  /\ wrote = "no"
  /\ response = "none"
  /\ logged = FALSE
  /\ lost = FALSE

Start ==
  /\ pc = "idle"
  /\ pc' = CASE kind = "temporary" -> "create"
             [] kind = "stored"    -> "spool"
             [] kind = "image"     -> "look"
  /\ UNCHANGED <<kind, ctx, op, backup, temp, result, wrote, response, logged, lost>>

\* GetImage, whose answer tells how to name the parts.
LookAtImage ==
  /\ pc = "look"
  /\ \/ pc' = "spool" /\ UNCHANGED result
     \/ pc' = "reply" /\ result' = "error"
  /\ UNCHANGED <<kind, ctx, op, backup, temp, wrote, response, logged, lost>>

\* CreateInstanceBackup, CreateStorageVolumeBackup: refused before there is
\* anything to clean up, or started.
Create ==
  /\ pc = "create"
  /\ \/ op' = "running" /\ pc' = "wait" /\ UNCHANGED result
     \/ result' = "error" /\ pc' = "reply" /\ UNCHANGED op
  /\ UNCHANGED <<kind, ctx, backup, temp, wrote, response, logged, lost>>

(* op.WaitContext(ctx) *)

WaitFinished ==
  /\ pc = "wait"
  /\ op \in {"succeeded", "failed"}
  /\ result' = WaitError(op)
  /\ pc' = IF result' = "none" THEN "spool" ELSE IF ctx = "done" THEN "cancel" ELSE "delete"
  /\ UNCHANGED <<kind, ctx, op, backup, temp, wrote, response, logged, lost>>

WaitCancelled ==
  /\ pc = "wait"
  /\ ctx = "done"
  /\ result' = "error"
  /\ pc' = "cancel"
  /\ UNCHANGED <<kind, ctx, op, backup, temp, wrote, response, logged, lost>>

WaitLost ==
  /\ pc = "wait"
  /\ result' = "error"
  /\ pc' = IF ctx = "done" THEN "cancel" ELSE "delete"
  /\ lost' = (ctx = "live" /\ op = "running")
  /\ UNCHANGED <<kind, ctx, op, backup, temp, wrote, response, logged>>

\* op.Cancel, whose failure is logged.
CancelOp ==
  /\ pc = "cancel"
  /\ \/ op = "running" /\ op' = "aborted" /\ UNCHANGED logged
     \/ logged' = TRUE /\ UNCHANGED op
  /\ pc' = "delete"
  /\ UNCHANGED <<kind, ctx, backup, temp, result, wrote, response, lost>>

\* os.CreateTemp, twice for an image; then all but the exports of stored
\* backups look at ctx once more.
Spool ==
  /\ pc = "spool"
  /\ \/ /\ temp' = temp + 1
        /\ IF kind = "image" /\ temp' = 1 THEN UNCHANGED <<pc, result>>
           ELSE IF kind # "stored" /\ ctx = "done"
             THEN result' = "error" /\ pc' = "cleanup"
             ELSE pc' = "download" /\ UNCHANGED result
     \/ /\ result' = "error"
        /\ pc' = IF temp > 0 THEN "cleanup" ELSE AfterTemp
        /\ UNCHANGED temp
  /\ UNCHANGED <<kind, ctx, op, backup, wrote, response, logged, lost>>

Download ==
  /\ pc = "download"
  /\ \/ /\ backup = "present"
        /\ \/ pc' = "stream" /\ wrote' = IF kind = "image" THEN "headers" ELSE wrote
           \/ kind = "image" /\ pc' = "zip" /\ UNCHANGED wrote
        /\ UNCHANGED result
     \/ result' = "error" /\ pc' = "cleanup" /\ UNCHANGED wrote
  /\ UNCHANGED <<kind, ctx, op, backup, temp, response, logged, lost>>

zipSplitImage ==
  /\ pc = "zip"
  /\ \/ temp' = temp + 1 /\ pc' = "stream" /\ wrote' = "headers" /\ UNCHANGED result
     \/ temp' \in {temp, temp + 1} /\ result' = "error" /\ pc' = "cleanup" /\ UNCHANGED wrote
  /\ UNCHANGED <<kind, ctx, op, backup, response, logged, lost>>

\* io.Copy to the response.
Stream ==
  /\ pc = "stream"
  /\ \/ wrote \in {"no", "headers"} /\ wrote' = "some" /\ UNCHANGED <<pc, result>>
     \/ wrote' = "all" /\ pc' = "cleanup" /\ UNCHANGED result
     \/ result' = "error" /\ pc' = "cleanup" /\ UNCHANGED wrote
  /\ UNCHANGED <<kind, ctx, op, backup, temp, response, logged, lost>>

Cleanup ==
  /\ pc = "cleanup"
  /\ temp' = IF TempStays THEN temp ELSE 0
  /\ pc' = AfterTemp
  /\ UNCHANGED <<kind, ctx, op, backup, result, wrote, response, logged, lost>>

(* deleteBackup, deleteVolumeBackup *)

DeleteBackup ==
  /\ pc = "delete"
  /\ \/ backup = "present" /\ backup' = "deleting" /\ pc' = "await" /\ UNCHANGED logged
     \/ backup # "present" /\ pc' = "reply" /\ UNCHANGED <<backup, logged>>
     \/ logged' = TRUE /\ pc' = "reply" /\ UNCHANGED backup
  /\ UNCHANGED <<kind, ctx, op, temp, result, wrote, response, lost>>

AwaitDelete ==
  /\ pc = "await"
  /\ \/ backup = "deleted" /\ UNCHANGED logged
     \/ backup = "present" /\ logged' = TRUE
     \/ DeadlinePasses /\ logged' = TRUE
  /\ pc' = "reply"
  /\ UNCHANGED <<kind, ctx, op, backup, temp, result, wrote, response, lost>>

\* The handler returns: nothing of the driver's call is left.
Reply ==
  /\ pc = "reply"
  /\ response' = Ended
  /\ pc' = "done"
  /\ UNCHANGED <<kind, ctx, op, backup, temp, result, wrote, logged, lost>>

(* The client and the daemon *)

Disconnect ==
  /\ ctx = "live"
  /\ ctx' = "done"
  /\ UNCHANGED <<kind, pc, op, backup, temp, result, wrote, response, logged, lost>>

FinishOp ==
  /\ op = "running"
  /\ \/ op' = "succeeded" /\ backup' = "present"
     \/ op' = "failed" /\ UNCHANGED backup
  /\ UNCHANGED <<kind, pc, ctx, temp, result, wrote, response, logged, lost>>

FinishDelete ==
  /\ backup = "deleting"
  /\ backup' \in {"deleted", "present"}
  /\ UNCHANGED <<kind, pc, ctx, op, temp, result, wrote, response, logged, lost>>

Step == Start \/ LookAtImage \/ Create \/ WaitFinished \/ WaitCancelled \/ CancelOp
        \/ Spool \/ Download \/ zipSplitImage \/ Stream \/ Cleanup \/ DeleteBackup \/ AwaitDelete \/ Reply

Next == Step \/ WaitLost \/ Disconnect \/ FinishOp \/ FinishDelete

\* The call goes on when it can; the daemon and the client owe nothing.
Spec == Init /\ [][Next]_vars /\ WF_vars(Step)

-----------------------------------------------------------------------------
(* Properties                                                              *)

\* Type invariant.
TypeOK ==
  /\ kind \in {"temporary", "stored", "image"}
  /\ pc \in Steps
  /\ ctx \in {"live", "done"}
  /\ op \in {"none", "running", "succeeded", "failed", "aborted"}
  /\ backup \in {"none", "present", "deleting", "deleted"}
  /\ temp \in 0 .. 3
  /\ result \in {"none", "error"}
  /\ wrote \in {"no", "headers", "some", "all"}
  /\ response \in {"none", "file", "errorPage"}
  /\ logged \in BOOLEAN
  /\ lost \in BOOLEAN

\* Whatever fails, and wherever the client disconnects, the spool file of a
\* finished call is gone (cleanupExportTemp and spoolReadCloser on every path).
TempRemoved == pc = "done" => temp = 0

\* A temporary backup that outlives its call is discoverable by a warning,
\* even when the operation completes only after the call has given up
\* (deleteBackup, op.Cancel), unless the wait itself was lost.
LeakIsLogged ==
  pc = "done" /\ kind = "temporary" /\ backup = "present" => logged \/ lost

\* A download that fails mid-stream is aborted: a client still there is not
\* given the beginning of the tarball as if it were all of it.
NoTruncatedDownload ==
  response = "file" /\ ctx = "live" => wrote = "all"

\* A call whose client has gone ends, whether or not the daemon ever finishes
\* creating or deleting the backup (WaitContext, backupDeleteTimeout).
DisconnectEnds == (ctx = "done" /\ pc # "idle") ~> pc = "done"
=============================================================================

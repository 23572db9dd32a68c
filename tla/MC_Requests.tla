----------------------------- MODULE MC_Requests ----------------------------
(* Instance of BulkActions, Export and Requests for TLC: one request, a    *)
(* bulk action, a download or one of the other handlers' calls.  They      *)
(* share nothing, so those that are not made stay in an initial state.     *)
EXTENDS BulkActions

CONSTANT MaxOutside

VARIABLES
  request,  \* "bulk", "download" or "call"
  kind, pc, context, op, backup, temp, result, wrote, response, logged, lost,
  method, steps, stage, daemon, seen, operation, status, reason, client, sent,
  done, right, clean, outside

download == <<kind, pc, context, op, backup, temp, result, wrote, response, logged, lost>>
call == <<method, steps, stage, daemon, seen, operation, status, reason, client, sent,
          done, right, clean, outside>>

Download == INSTANCE Export WITH ctx <- context

Routes == INSTANCE Handlers
Single == INSTANCE Requests WITH Programs <- Routes!Changes \cup Routes!Reads,
          call <- method, op <- operation, answer <- status

\* The bounds, and what the requests of the routes are made of.
ASSUME RequestsAssumption ==
  /\ MaxOutside \in Nat
  /\ \A p \in Routes!Changes \cup Routes!Reads : Single!WellFormed(p)

\* More names than slots, one of them listed twice; and a single name.
Lists == LET a == CHOOSE n \in Names : TRUE
             b == CHOOSE n \in Names : n # a
         IN {<<a, b, b>>, <<a>>}

NoBulk == action = "restart" /\ names = <<CHOOSE n \in Names : TRUE>>
          /\ inst = [n \in Names |-> "stopped"]
NoDownload == kind = "stored"
NoCall ==
  /\ method = <<>> /\ steps = <<>> /\ stage = "call" /\ daemon = <<>> /\ seen = <<>>
  /\ operation = Single!NoOp /\ status = "none" /\ reason = "none" /\ client = "here"
  /\ sent = 0 /\ done = <<>> /\ right = {} /\ clean = TRUE /\ outside = 0

RequestInit ==
  /\ Init
  /\ Download!Init
  /\ \/ request = "bulk" /\ NoDownload /\ NoCall
     \/ request = "download" /\ NoBulk /\ NoCall
     \/ request = "call" /\ NoBulk /\ NoDownload /\ Single!Init

RequestNext ==
  \/ request = "bulk" /\ Next /\ UNCHANGED <<request, download, call>>
  \/ request = "download" /\ Download!Next /\ UNCHANGED <<request, vars, call>>
  \/ request = "call" /\ Single!Next /\ UNCHANGED <<request, vars, download>>

\* Fairness of BulkActions, for a bulk request.
Bulk(A) == request = "bulk" /\ A
BulkFairness ==
  /\ WF_vars(Bulk(Spawn))
  /\ WF_vars(Bulk(Respond))
  /\ \A i \in UNION {DOMAIN s : s \in Selections} :
       /\ WF_vars(Bulk(i \in Indices /\ Goroutine(i)))
       /\ WF_vars(Bulk(i \in Indices /\ action # "restart" /\ DaemonFinishes(i)))

RequestSpec ==
  /\ RequestInit
  /\ [][RequestNext]_<<request, vars, download, call>>
  /\ BulkFairness
  /\ WF_download(request = "download" /\ Download!Step)
  /\ WF_call(request = "call" /\ Single!Lexi)

-----------------------------------------------------------------------------
(* Properties: BulkActions' own, and what is said of the other two.        *)

\* Type invariant of all, with the wait group's counter in range.
RequestsTypeOK == TypeOK /\ Download!TypeOK /\ (request = "call" => Single!TypeOK)

\* What Export says of a download:

\* Its spool file is gone in the end (cleanupExportTemp on every path), and a
\* temporary backup that outlives it is discoverable by a warning
\* (deleteBackup, op.Cancel).
LeftoversKnown == Download!TempRemoved /\ Download!LeakIsLogged

\* What Requests says of a call:

\* Not found and conflict are never made up (mapErr, statusFor), and deleting
\* what is in use is a conflict, however late the use (DeleteProfile).
AnswerWasTrue == Single!AnswerWasTrue

\* A page follows what was done, and a refusal what was not (waitOp, mapErr).
AnswerTellsDone == Single!AnswerTellsDone

\* A method of several changes that fails leaves no half (PublishImage,
\* MigrateInstance).
HalfDoneIsUndone == Single!HalfDoneIsUndone

\* What was read is sent back over nothing newer (mutateInstance, UpdateImage).
NoOverwrite == [][request = "call" => Single!OverNothingNewer]_call

\* What both say: the request ends when its client has left (WaitContext,
\* waitRemoteOperation, backupDeleteTimeout).
DisconnectEnds == Download!DisconnectEnds /\ Single!LeaverFreed
=============================================================================

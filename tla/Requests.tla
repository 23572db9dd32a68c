------------------------------ MODULE Requests ------------------------------
(***************************************************************************)
(* One request of the web UI, from its handler down to the daemon, among   *)
(* others' changes.  The handlers and the driver's methods are sequences   *)
(* of steps (Handlers, DriverCalls); this module performs them.            *)
(*                                                                         *)
(* The client may leave, which ends the request's context: a method stops  *)
(* waiting for its operation, and the operation goes on.  Any answer of    *)
(* the daemon may be lost on its way, and with it the knowledge of what    *)
(* was done.  Between two steps others change the same resources.          *)
(*                                                                         *)
(* External: the daemon.  It checks a change when it performs it, refuses  *)
(* to touch what is not there, to give a taken name or to break what is in *)
(* use, and compares the version of a conditional change.                  *)
(***************************************************************************)
EXTENDS Handlers, Naturals

CONSTANTS
  Programs,   \* the requests: [call, steps] of Handlers
  MaxOutside  \* bound of the model: changes made by others

VARIABLES
  call,     \* the driver's method that changes something, <<>> for a page
  steps,    \* what is left of the request
  stage,    \* "call", or "page" once the answer's page is being read
  daemon,   \* the resources: parent, subject (there, used, rev), target, image
  seen,     \* what the last read of them returned
  op,       \* the operation asked for last, and its state
  answer,   \* how the request ended, "none" before
  reason,   \* the refusal that is being undone, or "none"
  client,   \* "here" or "left"
  sent,     \* how many changes have been asked for
  done,     \* the changes of this request that the daemon has performed
  right,    \* ghost: the refusals that were true at some time of the request
  clean,    \* ghost: no answer was lost and nothing failed by itself
  outside   \* how many changes others have made

request == <<steps, stage, seen, answer, reason, sent>>
vars == <<call, steps, stage, daemon, seen, op, answer, reason, client, sent,
          done, right, clean, outside>>

-----------------------------------------------------------------------------
(* Plausible bugs, substituted for the definitions below by the mutants.   *)

AnyErrorIsAbsence == "NotFound"
ForgetToUndo(c) == <<>>
WithoutETag(c) == "none"
NoSelect == FALSE
TrustAccepted(o) == o.state \in {"running", "succeeded"}

-----------------------------------------------------------------------------
(* The daemon's resources                                                  *)

NoOp == [state |-> "none"]

Mentions(m, field, values) ==
  \E i \in DOMAIN m : m[i].do = "change" /\ m[i][field] \in values

\* What of the resources a method can be refused for.
MindsName(m) == \/ Mentions(m, "effect", {"create", "rename"})
                \/ \E i \in DOMAIN m : m[i].do \in {"absent", "maybe"}
MindsUse(m)  == \/ Mentions(m, "inuse", {"Conflict", "untyped"})
                \/ \E i \in DOMAIN m : m[i].do = "refuse" /\ m[i].seen = "used"
MindsVersion(m) == Mentions(m, "effect", {"update"})

\* The version that goes with a change.
IfMatch(c) == c.version

\* The daemon's objections to a change c, none when it can be made.
Objections(c) ==
  IF \/ c.effect \notin {"alias", "unpublish"} /\ ~daemon.there
     \/ c.effect \in {"alias", "unpublish"} /\ ~daemon.image
  THEN {"NotFound"}
  ELSE (IF c.effect \in {"create", "rename", "alias"} /\ daemon.taken
          THEN {"Conflict"} ELSE {})
       \cup (IF IfMatch(c) = "read" /\ daemon.rev # seen.rev THEN {"Conflict"} ELSE {})
       \cup (IF daemon.used /\ c.inuse = "Conflict" THEN {"Conflict"} ELSE {})
       \cup (IF daemon.used /\ c.inuse = "untyped" THEN {"Invalid", "error"} ELSE {})

Perform(effect) ==
  CASE effect \in {"create", "alias"} -> [daemon EXCEPT !.taken = TRUE]
    [] effect \in {"update", "put"}   -> [daemon EXCEPT !.rev = @ + 1]
    [] effect = "rename" -> [daemon EXCEPT !.there = FALSE, !.used = FALSE, !.taken = TRUE]
    [] effect = "delete" -> [daemon EXCEPT !.there = FALSE, !.used = FALSE]
    [] effect = "start"  -> [daemon EXCEPT !.used = TRUE]
    [] effect = "stop"   -> [daemon EXCEPT !.used = FALSE]
    [] effect = "act"    -> daemon
    [] effect = "publish"   -> [daemon EXCEPT !.image = TRUE]
    [] effect = "unpublish" -> [daemon EXCEPT !.image = FALSE]

\* What a client could truthfully be told of these resources.
Truths(d, read) ==
  (IF d.there /\ d.parent THEN {} ELSE {"NotFound"})
  \cup (IF \/ d.taken /\ MindsName(call)
           \/ d.used /\ MindsUse(call)
           \/ d.rev # read.rev /\ MindsVersion(call)
          THEN {"Conflict"} ELSE {})

Snapshot(d) == [gone |-> ~d.there, taken |-> d.taken, used |-> d.used, rev |-> d.rev]

-----------------------------------------------------------------------------
Init ==
  /\ \E p \in Programs : call = p.call /\ steps = p.steps
  /\ stage = "call"
  /\ \E parent, there, used, taken \in BOOLEAN :
       /\ there \/ taken => parent
       /\ used => there /\ MindsUse(call)
       /\ taken => MindsName(call)
       /\ daemon = [parent |-> parent, there |-> there, used |-> used,
                    taken |-> taken, image |-> FALSE, rev |-> 0]
  /\ seen = Snapshot(daemon)
  /\ op = NoOp
  /\ answer = "none"
  /\ reason = "none"
  /\ client = "here"
  /\ sent = 0
  /\ done = <<>>
  /\ right = Truths(daemon, seen)
  /\ clean = TRUE
  /\ outside = 0

Step(do) == answer = "none" /\ steps # <<>> /\ Head(steps).do = do
Now == Head(steps)

\* statusFor: an error that says nothing more is a 500.
Untyped == "error"

\* What a method does before it reports that this change failed.
Undo(c) == c.undo

Continue == steps' = Tail(steps) /\ UNCHANGED <<answer, reason>>

\* Of two joined errors statusFor reports the one it tests for first.
Joined(a, b) ==
  LET order == <<"NotFound", "Conflict", "Invalid", "Unsupported">>
      met == {i \in DOMAIN order : order[i] \in {a, b}}
  IN IF met = {} THEN Untyped ELSE order[CHOOSE i \in met : \A j \in met : i <= j]

\* An error ends the call and, by fail, the request; one that is met while
\* another is undone is joined to it.
Fail(error) ==
  IF Now.do = "change" /\ Undo(Now) # <<>>
    THEN steps' = Undo(Now) /\ reason' = error /\ UNCHANGED answer
    ELSE /\ steps' = <<>>
         /\ answer' = IF reason = "none" THEN error ELSE Joined(reason, error)
         /\ UNCHANGED reason

Resources == <<daemon, op, done, outside>>

\* The handler's and the driver's own work.
DoLocally ==
  /\ Step("local")
  /\ \/ Continue /\ UNCHANGED <<right, clean>>
     \/ \E e \in Now.errors : /\ Fail(e)
                              /\ right' = right \cup {e}
                              /\ clean' = (clean /\ e # "error")
  /\ UNCHANGED <<call, stage, seen, client, sent, Resources>>

Skip ==
  /\ Step("skip")
  /\ Continue
  /\ UNCHANGED <<call, stage, seen, client, sent, right, clean, Resources>>

\* A GET that is answered.
Answered(of) ==
  LET absent == CASE of = "subject"  -> {~daemon.there}
                  [] of = "target"   -> {~daemon.taken}
                  [] of = "siblings" -> {~daemon.parent}
                  [] of = "side"     -> BOOLEAN
                  [] of = "list"     -> {FALSE}
  IN \E a \in absent :
       IF a THEN Fail("NotFound") /\ right' = right \cup {"NotFound"} /\ UNCHANGED seen
            ELSE Continue /\ seen' = Snapshot(daemon) /\ UNCHANGED right

DoGet ==
  /\ Step("get")
  /\ \/ Answered(Now.of) /\ UNCHANGED clean
     \/ Fail(Untyped) /\ clean' = FALSE /\ UNCHANGED <<seen, right>>
  /\ UNCHANGED <<call, stage, client, sent, Resources>>

\* MakeDirectory's look.
DoAbsent ==
  /\ Step("absent")
  /\ \/ daemon.taken /\ Fail("Conflict") /\ UNCHANGED clean
     \/ ~daemon.taken /\ Continue /\ UNCHANGED clean
     \/ Continue /\ clean' = FALSE
  /\ UNCHANGED <<call, stage, seen, client, sent, right, Resources>>

DoRefuse ==
  /\ Step("refuse")
  /\ IF seen[Now.seen] THEN Fail(Now.error) ELSE Continue
  /\ UNCHANGED <<call, stage, seen, client, sent, right, clean, Resources>>

DoWhen ==
  /\ Step("when")
  /\ steps' = (IF seen[Now.seen] THEN Now.steps ELSE <<>>) \o Tail(steps)
  /\ UNCHANGED <<call, stage, seen, answer, reason, client, sent, right, clean, Resources>>

DoMaybe ==
  /\ Step("maybe")
  /\ steps' \in {Tail(steps), Now.steps \o Tail(steps)}
  /\ UNCHANGED <<call, stage, seen, answer, reason, client, sent, right, clean, Resources>>

\* The target is another name now, free in what was read.
DoPick ==
  /\ Step("pick")
  /\ Continue
  /\ daemon' = [daemon EXCEPT !.taken = FALSE]
  /\ UNCHANGED <<call, stage, seen, client, sent, right, clean, op, done, outside>>

ReadPage ==
  /\ Step("page")
  /\ stage' = "page"
  /\ Continue
  /\ UNCHANGED <<call, seen, client, sent, right, clean, Resources>>

-----------------------------------------------------------------------------
(* Changes                                                                 *)

\* A synchronous request, whose answer may be lost.
SendChange ==
  /\ Step("change")
  /\ Now.wait = "no"
  /\ sent' = sent + 1
  /\ IF Objections(Now) = {}
       THEN /\ daemon' = Perform(Now.effect)
            /\ done' = Append(done, Now.effect)
            /\ \/ Continue /\ UNCHANGED clean
               \/ Fail(Untyped) /\ clean' = FALSE
       ELSE /\ \/ \E e \in Objections(Now) : Fail(e) /\ UNCHANGED clean
               \/ Fail(Untyped) /\ clean' = FALSE
            /\ UNCHANGED <<daemon, done>>
  /\ right' = right \cup Truths(daemon', seen) \cup (Objections(Now) \cap {"NotFound"})
  /\ UNCHANGED <<call, stage, seen, op, client, outside>>

\* The request for an operation: refused, lost on its way, or accepted.
StartOperation ==
  /\ Step("change")
  /\ Now.wait # "no"
  /\ op.state \in {"none", "over"}
  /\ sent' = sent + 1
  /\ \/ /\ Objections(Now) = {}
        /\ op' = [state |-> "running", change |-> Now]
        /\ UNCHANGED <<steps, answer, reason, clean>>
     \/ /\ \E e \in Objections(Now) : Fail(e)
        /\ UNCHANGED <<op, clean>>
     \/ Fail(Untyped) /\ clean' = FALSE /\ UNCHANGED op
  /\ right' = right \cup (Objections(Now) \cap {"NotFound"})
  /\ UNCHANGED <<call, stage, seen, daemon, client, done, outside>>

\* The daemon performs it, or it fails; at any time, with or without a client.
EndOperation ==
  /\ op.state = "running"
  /\ \/ /\ Objections(op.change) = {}
        /\ daemon' = Perform(op.change.effect)
        /\ done' = Append(done, op.change.effect)
        /\ op' = [state |-> "succeeded"]
        /\ UNCHANGED clean
     \/ /\ \E e \in Objections(op.change) : op' = [state |-> "failed", error |-> e]
        /\ UNCHANGED <<daemon, done, clean>>
     \/ /\ op' = [state |-> "failed", error |-> Untyped]
        /\ clean' = FALSE
        /\ UNCHANGED <<daemon, done>>
  /\ right' = right \cup Truths(daemon', seen)
                    \cup (Objections(op.change) \cap {"NotFound"})
  /\ UNCHANGED <<call, request, client, outside>>

Waiting == Step("change") /\ op.state \in {"running", "succeeded", "failed"}

\* waitOp, waitRemoteOperation: the operation's end.
Succeeded(o) == o.state = "succeeded"

WaitEnds ==
  /\ Waiting
  /\ \/ Succeeded(op) /\ Continue
     \/ op.state = "failed" /\ Fail(op.error)
  /\ op' = [state |-> "over"]
  /\ UNCHANGED <<call, stage, daemon, seen, client, sent, done, right, clean, outside>>

\* They stop waiting when the context ends.
ContextEnds == client = "left"

\* The context's end, even if the operation has ended too; the operation goes
\* on, unless it is a transfer that CancelTarget stops.
WaitCanceled ==
  /\ Waiting
  /\ ContextEnds
  /\ Fail("canceled")
  /\ \/ UNCHANGED op
     \/ op.state = "running" /\ Now.wait = "transfer" /\ op' = [state |-> "over"]
  /\ UNCHANGED <<call, stage, daemon, seen, client, sent, done, right, clean, outside>>

\* The connection that tells of the operation's end is lost.
WaitLost ==
  /\ Waiting
  /\ Fail(Untyped)
  /\ clean' = FALSE
  /\ UNCHANGED <<call, stage, daemon, seen, op, client, sent, done, right, outside>>

\* The end of the request: its page or redirection, or what could not be done.
Finish ==
  /\ answer = "none"
  /\ steps = <<>>
  /\ answer' = IF reason = "none" THEN "ok" ELSE reason
  /\ UNCHANGED <<call, steps, stage, seen, reason, client, sent, right, clean, Resources>>

-----------------------------------------------------------------------------
(* The surroundings                                                        *)

Leave ==
  /\ answer = "none"
  /\ client = "here"
  /\ client' = "left"
  /\ UNCHANGED <<call, request, right, clean, Resources>>

\* Another client, or the daemon itself, changes these resources.
Outside ==
  /\ answer = "none"
  /\ outside < MaxOutside
  /\ outside' = outside + 1
  /\ \/ /\ daemon.there   \* deleted, alone or with its parent
        /\ \/ daemon' = [daemon EXCEPT !.there = FALSE, !.used = FALSE]
           \/ daemon' = [daemon EXCEPT !.there = FALSE, !.used = FALSE,
                                       !.parent = FALSE, !.taken = FALSE]
     \/ /\ ~daemon.there /\ daemon.parent
        /\ daemon' = [daemon EXCEPT !.there = TRUE, !.rev = @ + 1]
     \/ /\ daemon.there /\ MindsUse(call)
        /\ daemon' = [daemon EXCEPT !.used = ~@]
     \/ /\ daemon.parent /\ MindsName(call)
        /\ daemon' = [daemon EXCEPT !.taken = ~@]
     \/ /\ daemon.there /\ MindsVersion(call)
        /\ daemon' = [daemon EXCEPT !.rev = @ + 1]
     \/ /\ daemon.image
        /\ daemon' = [daemon EXCEPT !.image = FALSE]
  /\ right' = right \cup Truths(daemon', seen)
  /\ UNCHANGED <<call, request, op, client, done, clean>>

Lexi == \/ DoLocally \/ Skip \/ DoGet \/ DoAbsent \/ DoRefuse \/ DoWhen \/ DoMaybe
        \/ DoPick \/ ReadPage \/ SendChange \/ StartOperation \/ WaitEnds
        \/ WaitCanceled \/ Finish

Next == Lexi \/ WaitLost \/ EndOperation \/ Leave \/ Outside

\* The process goes on and the daemon answers its requests; it need not ever
\* end an operation.
Fairness == WF_vars(Lexi)

Spec == Init /\ [][Next]_vars /\ Fairness

-----------------------------------------------------------------------------
(* The programs.  What the requests of the routes have in common: a method *)
(* m looks before it changes something, and when it has published an image *)
(* it only tags it; the page comes last.                                   *)

Refusals == {"NotFound", "Conflict", "Invalid", "Forbidden", "TooLarge", "Unsupported"}
Errors == Refusals \cup {"canceled", "error"}

\* The methods whose contract makes use a conflict (backend.go), also of a use
\* that appears after the look.  DeleteStoragePool's contract reads the same, but
\* the driver's own comment accepts the daemon's 400 there (incus/storage.go).
PromisesConflict == {DeleteProfile, DeleteNetworkACL, DeleteNetworkZone, DeleteProject}

\* Steps, and the steps that depend on what was read or asked for.
Facts == {"gone", "taken", "used"}
Wrapped(S) == S \cup [do : {"when"}, seen : Facts, steps : Seq(S)]
                \cup [do : {"maybe"}, steps : Seq(S)]

\* What a method refuses by itself is what it has been found to mind.
Refusing(m) ==
  {x \in [do : {"refuse"}, seen : Facts, error : {"NotFound", "Conflict", "Invalid"}] :
     /\ x.error = "NotFound" => x.seen = "gone"
     /\ x.error = "Conflict" => \/ x.seen = "taken" /\ MindsName(m)
                                \/ x.seen = "used" /\ MindsUse(m)}

Looking(m) ==
  [do : {"skip", "pick"}]
  \cup [do : {"get"}, of : {"subject", "target", "siblings", "side", "list"}]
  \cup [do : {"local"}, errors : SUBSET Errors]
  \cup Refusing(m)
  \cup {x \in [do : {"absent"}] : MindsName(m)}
Looks(m) == Wrapped(Wrapped(Looking(m)))

\* Changes, each with the version of what it sends back, but for the forwards.
Changing(m, effects, waits, undos) ==
  {x \in [do : {"change"}, effect : effects, version : {"none", "read"},
          inuse : {"Conflict", "untyped", "ignored"}, wait : waits, undo : undos] :
     /\ x.effect \in {"create", "rename", "alias"} => MindsName(m)
     /\ x.inuse = "Conflict" => MindsUse(m)
     /\ x.inuse = "untyped" => m \notin PromisesConflict
     /\ x.version = "read" => MindsVersion(m)
     /\ x.effect = "update" => x.version = "read" \/ m = UpdateNetworkForward}

Waits == {"no", "operation", "transfer"}
Effects == {"create", "update", "put", "rename", "delete", "start", "stop", "act"}
InBetween == [do : {"skip"}] \cup [do : {"local"}, errors : SUBSET {"error"}]
Acts(m) == Wrapped(InBetween \cup Changing(m, Effects, Waits, {<<>>}))

Publishing(m) == Changing(m, {"publish"}, Waits, {<<>>})
Rollback == Operation("unpublish", "ignored")
Tagging(m) ==
  {x \in Changing(m, {"alias"}, {"no"}, {Rollback}) : m \notin PromisesConflict}
Tags(m) == Wrapped(InBetween \cup Tagging(m))

ToPage == [do |-> "page"]

\* Of s, the steps from the b-th on are the page, if there is one.
EndsInPage(m, s, b) ==
  /\ b <= Len(s) => s[b] = ToPage
  /\ \A i \in b + 1 .. Len(s) : s[i] \in Looks(m)

\* The first d steps tag an image.
TagFlow(m, s, d) ==
  /\ \A i \in 1 .. d : s[i] \in Tags(m)
  /\ EndsInPage(m, s, d + 1)

\* The first a steps look, those to the b-th act, and those from there to the
\* d-th publish an image and tag it.
Flow(m, s, a, b, d) ==
  /\ \A i \in 1 .. a : s[i] \in Looks(m)
  /\ \A i \in a + 1 .. b : s[i] \in Acts(m)
  /\ b < d => s[b + 1] \in Publishing(m)
  /\ \A i \in b + 2 .. d : s[i] \in Tags(m)
  /\ EndsInPage(m, s, d + 1)

\* A migration begins with the copy, and publishes nothing.
CopiesFirst(m, s, a, b, d) ==
  m = MigrateInstance =>
    /\ b = d
    /\ a < b => s[a + 1].do = "change" /\ s[a + 1].effect = "create"

Steps(m) == Looks(m) \cup Acts(m) \cup Publishing(m) \cup Tags(m) \cup {ToPage, Rollback[1]}

WellFormed(p) ==
  /\ p.steps \in Seq(Steps(p.call))
  /\ \E d \in 0 .. Len(p.steps) : \E b \in 0 .. d : \E a \in 0 .. b :
       Flow(p.call, p.steps, a, b, d) /\ CopiesFirst(p.call, p.steps, a, b, d)

-----------------------------------------------------------------------------
(* Properties                                                              *)

TypeOK ==
  /\ stage \in {"call", "page"}
  /\ daemon \in [parent : BOOLEAN, there : BOOLEAN, used : BOOLEAN,
                 taken : BOOLEAN, image : BOOLEAN, rev : Nat]
  /\ daemon.there => daemon.parent
  /\ daemon.used => daemon.there
  /\ op.state \in {"none", "running", "succeeded", "failed", "over"}
  /\ answer \in Errors \cup {"none", "ok"}
  /\ reason \in Errors \cup {"none"}
  /\ client \in {"here", "left"}
  /\ Len(done) <= sent
  /\ outside \in 0 .. MaxOutside

\* Not found and conflict are never made up: the resource was absent, or the
\* name taken, the use or the version as told, at some time of the request,
\* whatever was lost and whoever else was at work (mapErr, statusFor).  Nor are
\* they kept back: these deletions of what is in use are a conflict, as the
\* contract has it (backend.go), even when the use begins after the look.
AnswerWasTrue ==
  /\ answer \in {"NotFound", "Conflict"} => answer \in right
  /\ call \in PromisesConflict /\ clean => answer # "error"

\* An answer tells what was done, whatever was lost and whoever left.  A page
\* or a redirection is made when the daemon has made the change, not when it
\* has accepted it (waitOp before the reads).  A refusal says that nothing was
\* done and that nothing is under way: a failure whose outcome is unknown must
\* not look like one (mapErr, statusFor).
AnswerTellsDone ==
  /\ stage = "page" \/ answer = "ok" => Len(done) = sent
  /\ stage = "call" /\ answer \in Refusals /\ sent <= 1 =>
       done = <<>> /\ op.state # "running"

\* A method of several changes that fails half-way leaves no trace it promises
\* not to: the source of a migration is deleted after its copy is there, and
\* an image without its alias is deleted again (MigrateInstance, createAlias).
SourceSurvives == call = MigrateInstance /\ done # <<>> => done[1] = "create"
ImageRolledBack ==
  stage = "call" /\ answer \notin {"none", "ok"} /\ client = "here" /\ clean
    => ~daemon.image
HalfDoneIsUndone == SourceSurvives /\ ImageRolledBack

\* A change that sends back what was read does so over nothing newer: the etag
\* of the read goes with it (mutateInstance, UpdateImage, UpdateCertificate).
\* The forwards are the exception the contract makes.
OverNothingNewer ==
  Len(done') > Len(done) /\ done'[Len(done')] = "update" /\ call # UpdateNetworkForward
    => daemon.rev = seen.rev
NoOverwrite == [][OverNothingNewer]_vars

\* A client that leaves is not kept by an operation that never ends.
LeaverFreed == (client = "left") ~> (answer # "none")
=============================================================================

------------------------------- MODULE Console ------------------------------
(***************************************************************************)
(* An interactive console: server/console.go's consoleWS bridges the       *)
(* browser's WebSocket to the driver's Exec (incus/console.go).            *)
(*                                                                         *)
(* Four goroutines: the handler, inside Exec; the reader, which pumps the  *)
(* browser's frames into a pipe and the resize channel; the client         *)
(* library's copier, from the pipe to the daemon; and execControl, from    *)
(* the resize channel to the daemon.  The fake's Exec (fake/console.go) is *)
(* an echo in the handler's own goroutine, without shell or resizing.      *)
(*                                                                         *)
(* External: the daemon's shell, which exits when it pleases; the copier,  *)
(* which learns that the shell is gone only by sending to it; and stdout,  *)
(* which is copied until the shell exits or the browser is gone.           *)
(***************************************************************************)
EXTENDS Naturals, Sequences

CONSTANTS
  MaxSizes,  \* bound of the model: sizes of the window
  MaxKeys    \* bound of the model: frames of input

VARIABLES
  browser,  \* "open" or "gone"
  frames,   \* on their way from it: Key, or a size, numbered in its order
  resized, typed,  \* how many sizes and keys the browser has sent
  reader,   \* "read", "write", "offer", "drain", "replace" or "ended"
  asked,    \* the last size that the reader has read
  resize,   \* the channel of capacity one: a size, or 0
  copier,   \* "off", "read", "send" or "stopped"
  control,  \* "off", "on" or "ended"
  size,     \* the last size that the daemon was given
  shell,    \* "none", "running" or "exited"
  dataDone, \* stdout has ended
  ctx,      \* the session's context: "live" or "done"
  exec      \* the handler: in Exec "start", "wait", "flush", "echo"; "returned"; "over"

Key == 0
console == <<browser, frames, resized, typed, reader, asked, resize, copier,
             control, size, shell, dataDone, ctx, exec>>
input == <<browser, frames, resized, typed>>
reading == <<reader, asked, resize>>
daemon == <<copier, control, size, shell, dataDone>>

\* Plausible bugs, substituted for the definitions below by the mutants.
DropWhenFull == "read"
ReaderLeaves == ctx

Init ==
  /\ browser = "open" /\ frames = <<>> /\ resized = 0 /\ typed = 0
  /\ reader = "read" /\ asked = 0 /\ resize = 0
  /\ copier = "off" /\ control = "off" /\ size = 0
  /\ shell = "none" /\ dataDone = FALSE
  /\ ctx = "live" /\ exec = "start"

-----------------------------------------------------------------------------
(* The browser                                                             *)

Type ==
  /\ browser = "open" /\ typed < MaxKeys
  /\ typed' = typed + 1
  /\ frames' = Append(frames, Key)
  /\ UNCHANGED <<browser, resized, reading, daemon, ctx, exec>>

Resize ==
  /\ browser = "open" /\ resized < MaxSizes
  /\ resized' = resized + 1
  /\ frames' = Append(frames, resized')
  /\ UNCHANGED <<browser, typed, reading, daemon, ctx, exec>>

Leave ==
  /\ browser = "open"
  /\ browser' = "gone"
  /\ UNCHANGED <<frames, resized, typed, reading, daemon, ctx, exec>>

-----------------------------------------------------------------------------
(* The reader                                                              *)

\* What the deferred calls leave of the context; the pipe is closed too.
Canceled == "done"

ReadMessage ==
  /\ reader = "read"
  /\ \/ /\ exec # "over" /\ frames # <<>>
        /\ frames' = Tail(frames)
        /\ IF Head(frames) = Key
             THEN reader' = "write" /\ UNCHANGED asked
             ELSE reader' = "offer" /\ asked' = Head(frames)
        /\ UNCHANGED ctx
     \/ /\ exec = "over" \/ (frames = <<>> /\ browser = "gone")
        /\ reader' = "ended"
        /\ ctx' = Canceled
        /\ UNCHANGED <<frames, asked>>
  /\ UNCHANGED <<browser, resized, typed, resize, daemon, exec>>

\* A pipe has no buffer: the write waits for the copier.
WriteStdin ==
  /\ reader = "write" /\ copier = "read"
  /\ reader' = "read"
  /\ copier' = "send"
  /\ UNCHANGED <<input, asked, resize, control, size, shell, dataDone, ctx, exec>>

\* What follows an offer that the full channel refuses.
WhenFull == "drain"

Offer ==
  /\ reader = "offer"
  /\ IF resize = 0 THEN resize' = asked /\ reader' = "read"
                   ELSE reader' = WhenFull /\ UNCHANGED resize
  /\ UNCHANGED <<input, asked, daemon, ctx, exec>>

Drain ==
  /\ reader = "drain"
  /\ resize' = 0
  /\ reader' = "replace"
  /\ UNCHANGED <<input, asked, daemon, ctx, exec>>

Replace ==
  /\ reader = "replace"
  /\ resize' = IF resize = 0 THEN asked ELSE resize
  /\ reader' = "read"
  /\ UNCHANGED <<input, asked, daemon, ctx, exec>>

Reader == ReadMessage \/ WriteStdin \/ Offer \/ Drain \/ Replace

-----------------------------------------------------------------------------
(* The client library and the daemon                                       *)

\* From the pipe to the daemon, until either has ended.
Copy ==
  /\ \/ copier = "send" /\ copier' = IF shell = "running" THEN "read" ELSE "stopped"
     \/ copier = "read" /\ reader = "ended" /\ copier' = "stopped"
  /\ UNCHANGED <<input, reading, control, size, shell, dataDone, ctx, exec>>

EndOutput ==
  /\ ~dataDone
  /\ shell = "exited" \/ (shell = "running" /\ browser = "gone")
  /\ dataDone' = TRUE
  /\ UNCHANGED <<input, reading, copier, control, size, shell, ctx, exec>>

ShellExits ==
  /\ shell = "running"
  /\ shell' = "exited"
  /\ UNCHANGED <<input, reading, copier, control, size, dataDone, ctx, exec>>

execControl ==
  /\ control = "on"
  /\ \/ /\ resize # 0
        /\ resize' = 0
        /\ IF shell = "running" THEN size' = resize /\ UNCHANGED control
                                ELSE control' = "ended" /\ UNCHANGED size
     \/ /\ ctx = "done"
        /\ control' = "ended"
        /\ UNCHANGED <<resize, size>>
  /\ UNCHANGED <<input, reader, asked, copier, shell, dataDone, ctx, exec>>

-----------------------------------------------------------------------------
(* The handler                                                             *)

\* ExecInstance, accepted or refused.
StartExec ==
  /\ exec = "start"
  /\ \/ /\ shell' = "running" /\ copier' = "read" /\ control' = "on"
        /\ exec' = "wait"
     \/ exec' = "returned" /\ UNCHANGED <<shell, copier, control>>
  /\ UNCHANGED <<input, reading, size, dataDone, ctx>>

\* The fake's, of an instance it has: until stdin ends, or stdout fails.
Echo ==
  /\ \/ exec = "start" /\ exec' = "echo" /\ UNCHANGED reader
     \/ /\ exec = "echo" /\ reader = "write"
        /\ IF browser = "open" THEN reader' = "read" /\ UNCHANGED exec
                               ELSE exec' = "returned" /\ UNCHANGED reader
     \/ exec = "echo" /\ reader = "ended" /\ exec' = "returned" /\ UNCHANGED reader
  /\ UNCHANGED <<input, asked, resize, daemon, ctx>>

\* WaitContext.
Wait ==
  /\ exec = "wait"
  /\ \/ shell = "exited" /\ exec' = "flush"
     \/ ctx = "done" /\ exec' = "returned"
  /\ UNCHANGED <<input, reading, daemon, ctx>>

Flush ==
  /\ exec = "flush"
  /\ dataDone \/ ctx = "done"
  /\ exec' = "returned"
  /\ UNCHANGED <<input, reading, daemon, ctx>>

\* The close message, if it can be sent; then the deferred calls.
Close ==
  /\ exec = "returned"
  /\ exec' = "over"
  /\ ctx' = "done"
  /\ UNCHANGED <<input, reading, daemon>>

Exec == StartExec \/ Wait \/ Flush \/ Echo \/ Close

Next == Type \/ Resize \/ Leave \/ Reader \/ Copy \/ EndOutput \/ ShellExits
        \/ execControl \/ Exec

\* The goroutines go on; neither the browser nor the shell need ever leave.
Fairness == /\ WF_console(Reader) /\ WF_console(Copy) /\ WF_console(EndOutput)
            /\ WF_console(execControl) /\ WF_console(Exec)

Spec == Init /\ [][Next]_console /\ Fairness

-----------------------------------------------------------------------------
(* Properties                                                              *)

TypeOK ==
  /\ browser \in {"open", "gone"}
  /\ resized \in 0 .. MaxSizes /\ typed \in 0 .. MaxKeys
  /\ reader \in {"read", "write", "offer", "drain", "replace", "ended"}
  /\ size <= asked /\ resize <= asked /\ asked <= resized
  /\ copier \in {"off", "read", "send", "stopped"}
  /\ control \in {"off", "on", "ended"}
  /\ shell \in {"none", "running", "exited"}
  /\ dataDone \in BOOLEAN
  /\ ctx \in {"live", "done"}
  /\ exec \in {"start", "wait", "flush", "echo", "returned", "over"}

\* The newest size wins: once the reader has dealt with it, it is in the
\* channel or with the daemon, never dropped in favour of an older one, however
\* execControl empties the channel between the reader's attempts (consoleWS).
NewestSizeWins ==
  reader \in {"read", "write", "ended"} /\ control # "ended" =>
    asked \in {resize, size} /\ (resize # 0 => resize = asked)

\* A browser that has gone frees the handler, even when the shell goes on
\* (the reader's deferred cancel, the selects of Exec).
SessionEnds == (browser = "gone") ~> (exec = "over")
=============================================================================

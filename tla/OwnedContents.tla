--------------------------- MODULE OwnedContents ----------------------------
(***************************************************************************)
(* What the in-memory backend's instances and volumes hold, as its clients *)
(* are to see it: values.  Every owner has files, snapshots and backups    *)
(* that are its own, a call changes those of one owner as its name says,   *)
(* and a download is of the content that was there when it began.  Nothing *)
(* is shared, for there is nothing to share: the maps, slices and arrays   *)
(* of FakeContents are the backend's own affair.                           *)
(***************************************************************************)
EXTENDS Naturals, Sequences

CONSTANTS Names, Parent, Snapshots, Backups, Values, Requests

VARIABLES
  holds,     \* per name in use: [value, files, snapshots, backups]
  transfers  \* per request in flight: [pc, content, sent, blob]

vars == <<holds, transfers>>

Paths == DOMAIN Parent
Root == CHOOSE p \in Paths : Parent[p] = p
Directory == <<>>
Content(v) == <<v, v>>

\* A request at its start.
Begun(pc, content, blob) == [pc |-> pc, content |-> content, sent |-> <<>>, blob |-> blob]
NoBlob == CHOOSE v \in Values : TRUE
Idle == Begun("idle", <<>>, NoBlob)

Blank(v) == [value |-> v, files |-> [p \in {Root} |-> Directory], snapshots |-> <<>>, backups |-> <<>>]

Put(f, x, v) == [y \in DOMAIN f \cup {x} |-> IF y = x THEN v ELSE f[y]]
Drop(f, x) == [y \in DOMAIN f \ {x} |-> f[y]]
Removed(list, k) == [x \in 1 .. Len(list) - 1 |-> IF x < k THEN list[x] ELSE list[x + 1]]

In(list, s) == \E k \in 1 .. Len(list) : list[k] = s

-----------------------------------------------------------------------------
(* Owners                                                                  *)

Become(new) == holds' = new /\ UNCHANGED transfers

\* The same owner with other files, snapshots, backups or another value.
Keeps(i, held) == Become([holds EXCEPT ![i] = held])

Create(i, v) == i \notin DOMAIN holds /\ Become(Put(holds, i, Blank(v)))

Delete(i) == i \in DOMAIN holds /\ Become(Drop(holds, i))

Rename(i, j) ==
  /\ i \in DOMAIN holds /\ j \notin DOMAIN holds
  /\ Become(Put(Drop(holds, i), j, holds[i]))

Update(i, v) == i \in DOMAIN holds /\ Keeps(i, [holds[i] EXCEPT !.value = v])

Clone(i, j) ==
  /\ i \in DOMAIN holds /\ j \notin DOMAIN holds
  /\ Become(Put(holds, j, [holds[i] EXCEPT !.backups = <<>>]))

-----------------------------------------------------------------------------
(* Files                                                                   *)

Placed(files, p) == Parent[p] \in DOMAIN files /\ files[Parent[p]] = Directory

Push(i, p, v) ==
  /\ i \in DOMAIN holds /\ Placed(holds[i].files, p)
  /\ p \in DOMAIN holds[i].files => holds[i].files[p] # Directory
  /\ Keeps(i, [holds[i] EXCEPT !.files = Put(@, p, Content(v))])

MakeDirectory(i, p) ==
  /\ i \in DOMAIN holds /\ Placed(holds[i].files, p) /\ p \notin DOMAIN holds[i].files
  /\ Keeps(i, [holds[i] EXCEPT !.files = Put(@, p, Directory)])

DeleteFile(i, p) ==
  /\ i \in DOMAIN holds /\ p \in DOMAIN holds[i].files \ {Root}
  /\ \A q \in DOMAIN holds[i].files \ {p} : Parent[q] # p
  /\ Keeps(i, [holds[i] EXCEPT !.files = Drop(@, p)])

\* A download is of the content of this moment, whatever comes after.
Pull(c, i, p) ==
  /\ transfers[c].pc = "idle"
  /\ i \in DOMAIN holds /\ p \in DOMAIN holds[i].files /\ holds[i].files[p] # Directory
  /\ transfers' = [transfers EXCEPT ![c] = Begun("stream", holds[i].files[p], NoBlob)]
  /\ UNCHANGED holds

Send(c) ==
  LET t == transfers[c] IN
  /\ t.pc = "stream" /\ Len(t.sent) < Len(t.content)
  /\ transfers' = [transfers EXCEPT ![c].sent = Append(@, t.content[Len(@) + 1])]
  /\ UNCHANGED holds

\* It ends when all of it is sent.
End(c) ==
  /\ transfers[c].pc = "stream" /\ transfers[c].sent = transfers[c].content
  /\ transfers' = [transfers EXCEPT ![c] = Idle]
  /\ UNCHANGED holds

-----------------------------------------------------------------------------
(* Snapshots, in the order they were made                                  *)

TakeSnapshot(i, s) ==
  /\ i \in DOMAIN holds /\ ~In(holds[i].snapshots, s)
  /\ Keeps(i, [holds[i] EXCEPT !.snapshots = Append(@, s)])

RenameSnapshot(i, s, t) ==
  /\ i \in DOMAIN holds /\ In(holds[i].snapshots, s) /\ ~In(holds[i].snapshots, t)
  /\ Keeps(i, [holds[i] EXCEPT !.snapshots = [k \in DOMAIN @ |-> IF @[k] = s THEN t ELSE @[k]]])

DeleteSnapshot(i, s) ==
  /\ i \in DOMAIN holds
  /\ \E k \in 1 .. Len(holds[i].snapshots) :
       /\ holds[i].snapshots[k] = s
       /\ Keeps(i, [holds[i] EXCEPT !.snapshots = Removed(@, k)])

-----------------------------------------------------------------------------
(* Backups                                                                 *)

Backup(i, b) ==
  /\ i \in DOMAIN holds /\ b \notin DOMAIN holds[i].backups
  /\ Keeps(i, [holds[i] EXCEPT !.backups = Put(@, b, holds[i].value)])

DeleteBackup(i, b) ==
  /\ i \in DOMAIN holds /\ b \in DOMAIN holds[i].backups
  /\ Keeps(i, [holds[i] EXCEPT !.backups = Drop(@, b)])

\* A restoration is of the backup of this moment.
Restore(c, i, b) ==
  /\ transfers[c].pc = "idle"
  /\ i \in DOMAIN holds /\ b \in DOMAIN holds[i].backups
  /\ transfers' = [transfers EXCEPT ![c] = Begun("import", <<>>, holds[i].backups[b])]
  /\ UNCHANGED holds

\* It makes a new owner of it, unless the name is taken by then.
Import(c, j) ==
  /\ transfers[c].pc = "import"
  /\ transfers' = [transfers EXCEPT ![c] = Idle]
  /\ IF j \in DOMAIN holds THEN UNCHANGED holds
     ELSE holds' = Put(holds, j, Blank(transfers[c].blob))

-----------------------------------------------------------------------------
Init == holds = <<>> /\ transfers = [c \in Requests |-> Idle]

OwnerStep ==
  \E i \in Names :
    \/ \E v \in Values : Create(i, v) \/ Update(i, v)
    \/ Delete(i)
    \/ \E j \in Names : Rename(i, j) \/ Clone(i, j)

FileStep ==
  \/ \E i \in Names, p \in Paths :
       \/ \E v \in Values : Push(i, p, v)
       \/ MakeDirectory(i, p) \/ DeleteFile(i, p)
       \/ \E c \in Requests : Pull(c, i, p)
  \/ \E c \in Requests : Send(c) \/ End(c)

SnapshotStep ==
  \E i \in Names, s \in Snapshots :
    \/ TakeSnapshot(i, s) \/ DeleteSnapshot(i, s)
    \/ \E t \in Snapshots : RenameSnapshot(i, s, t)

BackupStep ==
  \E i \in Names :
    \/ \E b \in Backups : \/ Backup(i, b) \/ DeleteBackup(i, b)
                          \/ \E c \in Requests : Restore(c, i, b)
    \/ \E c \in Requests : Import(c, i)

Next == OwnerStep \/ FileStep \/ SnapshotStep \/ BackupStep

Spec == Init /\ [][Next]_vars
=============================================================================

---------------------------- MODULE FakeContents ----------------------------
(***************************************************************************)
(* What the in-memory backend keeps inside an instance or a volume: files, *)
(* snapshots and stored backups (fake/{files,snapshots,storedbackups,      *)
(* backup,volumebackups,storage}.go).                                      *)
(*                                                                         *)
(* The values are Go's: a map, a slice or a node that two owners share is  *)
(* changed for both.  They are kept in heaps, trees, arrays and slices,    *)
(* and owners refer to them.  One mutex guards every access but two: a     *)
(* download streams its slice after unlocking, and the restoration of a    *)
(* backup unlocks between reading the blob and importing it.               *)
(*                                                                         *)
(* Data abstraction: the content of a file is two blocks, equal when they  *)
(* are of one upload; an instance is its image, a volume its config, and   *)
(* both are the blob of a backup.  The seeded files are the root.  A node  *)
(* (fakeFile) is taken for the slice it holds: every node is made for one  *)
(* map, by seedFiles, cloneFiles or a write, so that a push, which gives   *)
(* the node that is there another slice, is one to that map.  That no two  *)
(* maps share a node is thus read off the code, not checked; that no two   *)
(* share a slice is checked.                                               *)
(***************************************************************************)
EXTENDS Naturals, Sequences, FiniteSets

CONSTANTS
  Names,      \* of instances or volumes
  Parent,     \* per path of a file: its directory's; the root's is the root
  Snapshots,  \* names of snapshots
  Backups,    \* names of stored backups
  Values,     \* images, configs and contents of uploads
  Requests,   \* downloads and restorations in flight
  Parts       \* bound of the model: what the clients of a behaviour use,
              \* [kind, of], of them one

VARIABLES
  part,    \* the kind of owner, and the part of its contents in use
  owners,  \* per name: [value, tree, snapshots : [array, len], backups]
  trees,   \* heap: maps of paths to nodes, a directory or a slice
  slices,  \* heap: contents of files
  arrays,  \* heap: arrays behind the lists of snapshots
  calls    \* per request in flight: where it is and what it holds

vars == <<part, owners, trees, slices, arrays, calls>>

Paths == DOMAIN Parent
Root == CHOOSE p \in Paths : Parent[p] = p
Directory == 0   \* no slice

Only(x, v) == [y \in {x} |-> v]
Merged(new, old) ==
  [x \in DOMAIN new \cup DOMAIN old |-> IF x \in DOMAIN new THEN new[x] ELSE old[x]]
With(f, x, v) == Merged(Only(x, v), f)
Without(f, x) == [y \in DOMAIN f \ {x} |-> f[y]]
Fresh(heap) == CHOOSE n \in 1 .. Cardinality(DOMAIN heap) + 1 : n \notin DOMAIN heap

\* What nothing refers to any more is collected.
Keep(heap, refs) == [r \in refs |-> heap[r]]
Held(cs) == {cs[c].slice : c \in {d \in Requests : cs[d].pc = "stream"}}
SliceRefs(ts, cs) == ((UNION {{ts[t][p] : p \in DOMAIN ts[t]} : t \in DOMAIN ts}) \ {Directory})
                     \cup Held(cs)

Idle == [pc |-> "idle", slice |-> 0, sent |-> <<>>, blob |-> CHOOSE v \in Values : TRUE]

Uses(kind, of) == part = [kind |-> kind, of |-> of]

-----------------------------------------------------------------------------
(* Plausible bugs, substituted for the definitions below by the mutants.   *)

SameArray(list) == list.array
InPlace(t, p) == IF p \in DOMAIN t THEN t[p] ELSE Fresh(slices)

-----------------------------------------------------------------------------
(* Owners                                                                  *)

\* Maps and arrays of the new owner's own.
NewTree == Fresh(trees)
NewArray == Fresh(arrays)

\* The owners become os, with maps, arrays and slices among those they refer to.
SetAll(os, newTrees, newArrays, newSlices) ==
  /\ owners' = os
  /\ trees' = Keep(Merged(newTrees, trees), {os[i].tree : i \in DOMAIN os})
  /\ arrays' = Keep(Merged(newArrays, arrays), {os[i].snapshots.array : i \in DOMAIN os})
  /\ slices' = Keep(Merged(newSlices, slices), SliceRefs(trees', calls))
  /\ UNCHANGED <<part, calls>>

SetOwners(os, newTrees, newArrays) == SetAll(os, newTrees, newArrays, <<>>)

New(i, value) ==
  SetOwners(With(owners, i, [value |-> value, tree |-> NewTree, backups |-> <<>>,
                             snapshots |-> [array |-> NewArray, len |-> 0]]),
            Only(NewTree, Only(Root, Directory)), Only(NewArray, <<>>))

Create(i, value) == i \notin DOMAIN owners /\ New(i, value)

Delete(i) == i \in DOMAIN owners /\ SetOwners(Without(owners, i), <<>>, <<>>)

\* The record moves under the new name with all it holds.
Rename(i, j) ==
  /\ i \in DOMAIN owners /\ j \notin DOMAIN owners
  /\ SetOwners(With(Without(owners, i), j, owners[i]), <<>>, <<>>)

\* A volume's config is replaced.
UpdateVolume(i, value) ==
  /\ i \in DOMAIN owners
  /\ SetOwners([owners EXCEPT ![i].value = value], <<>>, <<>>)

\* The image of a stopped instance is; its files, snapshots and backups stay.
RebuildInstance(i, image) == UpdateVolume(i, image)

List(i) == SubSeq(arrays[owners[i].snapshots.array], 1, owners[i].snapshots.len)

\* slices.Clone: the array of a clone's list.
ClonedArray(list) == NewArray

\* cloneFiles: each of the files gets a slice of its own, given by copies.
Copies(t) ==
  LET files == {p \in DOMAIN t : t[p] # Directory}
      ids == 1 .. (Cardinality(DOMAIN slices) + Cardinality(files)) \ DOMAIN slices
  IN CHOOSE f \in [files -> ids] : \A p, q \in files : f[p] = f[q] => p = q

\* The files and the snapshots are copied; the backups are not.
CloneInstance(i, j) ==
  /\ i \in DOMAIN owners /\ j \notin DOMAIN owners
  /\ LET array == ClonedArray(owners[i].snapshots)
         tree == trees[owners[i].tree]
         copies == Copies(tree)
     IN SetAll(With(owners, j, [owners[i] EXCEPT !.tree = NewTree, !.backups = <<>>,
                                                 !.snapshots.array = array]),
               Only(NewTree, Merged(copies, tree)),
               IF array \in DOMAIN arrays THEN <<>> ELSE Only(array, List(i)),
               [n \in {copies[p] : p \in DOMAIN copies} |->
                  slices[tree[CHOOSE p \in DOMAIN copies : copies[p] = n]]])

InstanceStep ==
  /\ part.kind = "instance"
  /\ \E i \in Names :
       \/ \E v \in Values : Create(i, v) \/ RebuildInstance(i, v)
       \/ Delete(i)
       \/ \E j \in Names : Rename(i, j) \/ CloneInstance(i, j)

VolumeStep ==
  /\ part.kind = "volume"
  /\ \E i \in Names :
       \/ \E v \in Values : Create(i, v) \/ UpdateVolume(i, v)
       \/ Delete(i)
       \/ \E j \in Names : Rename(i, j)

-----------------------------------------------------------------------------
(* Files                                                                   *)

Tree(i) == trees[owners[i].tree]

\* The tree becomes t, and the requests cs, with a new slice perhaps.
SetTree(i, t, newSlices, cs) ==
  /\ trees' = [trees EXCEPT ![owners[i].tree] = t]
  /\ calls' = cs
  /\ slices' = Keep(Merged(newSlices, slices), SliceRefs(trees', cs))
  /\ UNCHANGED <<part, owners, arrays>>

InDirectory(i, p) == Parent[p] \in DOMAIN Tree(i) /\ Tree(i)[Parent[p]] = Directory

\* The content of an upload is a slice of its own: the one it replaces may
\* still be streamed.
NewSlice(t, p) == Fresh(slices)

PushFile(i, p, v) ==
  /\ i \in DOMAIN owners /\ InDirectory(i, p)
  /\ p \in DOMAIN Tree(i) => Tree(i)[p] # Directory
  /\ LET slice == NewSlice(Tree(i), p) IN
     SetTree(i, With(Tree(i), p, slice), Only(slice, <<v, v>>), calls)

MakeDirectory(i, p) ==
  /\ i \in DOMAIN owners /\ p \notin DOMAIN Tree(i) /\ InDirectory(i, p)
  /\ SetTree(i, With(Tree(i), p, Directory), <<>>, calls)

DeleteFile(i, p) ==
  /\ i \in DOMAIN owners /\ p \in DOMAIN Tree(i) \ {Root}
  /\ \A q \in DOMAIN Tree(i) \ {p} : Parent[q] # p
  /\ SetTree(i, Without(Tree(i), p), <<>>, calls)

\* The content is looked up under the lock, and streamed without it.
PullFile(c, i, p) ==
  /\ calls[c].pc = "idle"
  /\ i \in DOMAIN owners /\ p \in DOMAIN Tree(i) /\ Tree(i)[p] # Directory
  /\ calls' = [calls EXCEPT ![c] = [Idle EXCEPT !.pc = "stream", !.slice = Tree(i)[p]]]
  /\ UNCHANGED <<part, owners, trees, slices, arrays>>

StreamBlock(c) ==
  /\ calls[c].pc = "stream" /\ Len(calls[c].sent) < 2
  /\ calls' = [calls EXCEPT ![c].sent = Append(@, slices[calls[c].slice][Len(@) + 1])]
  /\ UNCHANGED <<part, owners, trees, slices, arrays>>

EndPull(c) ==
  /\ calls[c].pc = "stream" /\ Len(calls[c].sent) = 2
  /\ calls' = [calls EXCEPT ![c] = Idle]
  /\ slices' = Keep(slices, SliceRefs(trees, calls'))
  /\ UNCHANGED <<part, owners, trees, arrays>>

FileStep ==
  /\ Uses("instance", "files")
  /\ \/ \E i \in Names, p \in Paths :
          \/ \E v \in Values : PushFile(i, p, v)
          \/ MakeDirectory(i, p)
          \/ DeleteFile(i, p)
          \/ \E c \in Requests : PullFile(c, i, p)
     \/ \E c \in Requests : StreamBlock(c) \/ EndPull(c)

-----------------------------------------------------------------------------
(* Snapshots                                                               *)

SetList(i, array, cells, len) ==
  SetOwners([owners EXCEPT ![i].snapshots = [array |-> array, len |-> len]], <<>>, Only(array, cells))

\* append: into the array behind the list as long as there is room.
Appended(i, s) ==
  LET l == owners[i].snapshots
      cells == arrays[l.array]
  IN IF l.len < Len(cells)
       THEN SetList(i, l.array, [cells EXCEPT ![l.len + 1] = s], l.len + 1)
       ELSE SetList(i, Fresh(arrays), Append(cells, s), l.len + 1)

Has(i, s) == i \in DOMAIN owners /\ \E k \in DOMAIN List(i) : List(i)[k] = s

CreateSnapshot(i, s) == i \in DOMAIN owners /\ ~Has(i, s) /\ Appended(i, s)

RenameSnapshot(i, s, t) ==
  /\ Has(i, s) /\ ~Has(i, t)
  /\ LET l == owners[i].snapshots
         k == CHOOSE x \in DOMAIN List(i) : List(i)[x] = s
     IN SetList(i, l.array, [arrays[l.array] EXCEPT ![k] = t], l.len)

\* append(s[:k], s[k+1:]...): the rest moves up in the same array.
MovedUp(cells, k, len) ==
  [x \in DOMAIN cells |-> IF x \in k .. (len - 1) THEN cells[x + 1] ELSE cells[x]]

DeleteSnapshot(i, s) ==
  /\ Has(i, s)
  /\ LET l == owners[i].snapshots
         k == CHOOSE x \in DOMAIN List(i) : List(i)[x] = s
     IN SetList(i, l.array, MovedUp(arrays[l.array], k, l.len), l.len - 1)

\* Instances' and volumes' are alike.
SnapshotStep ==
  /\ part.of = "snapshots"
  /\ \E i \in Names, s \in Snapshots :
       \/ CreateSnapshot(i, s) \/ DeleteSnapshot(i, s)
       \/ \E t \in Snapshots : RenameSnapshot(i, s, t)

-----------------------------------------------------------------------------
(* Stored backups                                                          *)

CreateInstanceBackup(i, b) ==
  /\ i \in DOMAIN owners /\ b \notin DOMAIN owners[i].backups
  /\ SetOwners([owners EXCEPT ![i].backups = With(@, b, owners[i].value)], <<>>, <<>>)

DeleteInstanceBackup(i, b) ==
  /\ i \in DOMAIN owners /\ b \in DOMAIN owners[i].backups
  /\ SetOwners([owners EXCEPT ![i].backups = Without(@, b)], <<>>, <<>>)

\* The blob is copied under the lock.
RestoreInstanceBackup(c, i, b) ==
  /\ calls[c].pc = "idle"
  /\ i \in DOMAIN owners /\ b \in DOMAIN owners[i].backups
  /\ calls' = [calls EXCEPT ![c] = [Idle EXCEPT !.pc = "import", !.blob = owners[i].backups[b]]]
  /\ UNCHANGED <<part, owners, trees, slices, arrays>>

\* It takes the lock again, whatever has become of the backup; of the call
\* nothing is left.
ImportInstance(c, j) ==
  /\ calls[c].pc = "import"
  /\ calls' = [calls EXCEPT ![c] = Idle]
  /\ IF j \in DOMAIN owners THEN UNCHANGED <<owners, trees, arrays>>
     ELSE /\ owners' = With(owners, j, [value |-> calls[c].blob, tree |-> NewTree, backups |-> <<>>,
                                        snapshots |-> [array |-> NewArray, len |-> 0]])
          /\ trees' = With(trees, NewTree, Only(Root, Directory))
          /\ arrays' = With(arrays, NewArray, <<>>)
  /\ UNCHANGED <<part, slices>>

BackupStep ==
  /\ part.of = "backups"
  /\ \E i \in Names :
       \/ \E b \in Backups :
            \/ CreateInstanceBackup(i, b) \/ DeleteInstanceBackup(i, b)
            \/ \E c \in Requests : RestoreInstanceBackup(c, i, b)
       \/ \E c \in Requests : ImportInstance(c, i)

-----------------------------------------------------------------------------
Init ==
  /\ part \in Parts
  /\ owners = <<>>
  /\ trees = <<>>
  /\ slices = <<>>
  /\ arrays = <<>>
  /\ calls = [c \in Requests |-> Idle]

Next == InstanceStep \/ VolumeStep \/ FileStep \/ SnapshotStep \/ BackupStep

Spec == Init /\ [][Next]_vars

-----------------------------------------------------------------------------
(* Properties                                                              *)

\* Type invariant; a file is in a directory that is there, two snapshots of an
\* owner have two names, and heaps hold what is referred to.
TypeOK ==
  /\ part \in Parts
  /\ DOMAIN owners \subseteq Names
  /\ {owners[i].tree : i \in DOMAIN owners} = DOMAIN trees
  /\ {owners[i].snapshots.array : i \in DOMAIN owners} = DOMAIN arrays
  /\ SliceRefs(trees, calls) = DOMAIN slices
  /\ \A i \in DOMAIN owners :
       /\ DOMAIN owners[i].backups \subseteq Backups
       /\ \A p \in DOMAIN Tree(i) : InDirectory(i, p)
       /\ \A k, l \in DOMAIN List(i) : List(i)[k] = List(i)[l] => k = l
  /\ \A c \in Requests : calls[c].pc \in {"idle", "stream", "import"}

\* A download is all of one upload, whatever is pushed, deleted or renamed
\* while it streams without the lock (PullFile, PushFile).
PullsWhole ==
  \A c \in Requests : \A k, l \in DOMAIN calls[c].sent : calls[c].sent[k] = calls[c].sent[l]

\* What an owner holds, as its clients see it.
View(i) ==
  [value |-> owners[i].value, backups |-> owners[i].backups, snapshots |-> List(i),
   files |-> [p \in DOMAIN Tree(i) |->
                IF Tree(i)[p] = Directory THEN <<>> ELSE slices[Tree(i)[p]]]]

Stays(i) == (i \in DOMAIN owners') = (i \in DOMAIN owners)
            /\ (i \in DOMAIN owners => View(i)' = View(i))

\* A call changes what one owner holds, and no other's: a clone shares nothing
\* with its source (cloneFiles, slices.Clone).  A renamed owner keeps it all.
OthersUntouched ==
  \A i, j \in {n \in Names : ~Stays(n)} :
    i = j \/ \E x, y \in {i, j} :
               /\ x \in DOMAIN owners /\ x \notin DOMAIN owners'
               /\ y \notin DOMAIN owners /\ y \in DOMAIN owners'
               /\ View(y)' = View(x)
=============================================================================

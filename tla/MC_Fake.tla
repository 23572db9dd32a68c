------------------------------ MODULE MC_Fake -------------------------------
(* Instance of FakeDaemon, FakeContents and FakeVersions for TLC: the      *)
(* in-memory backend's resources and their references, what instances and  *)
(* volumes hold, or the version tokens.  A behaviour uses one of the three *)
(* and the others stay in an initial state.                                *)
EXTENDS FakeDaemon, TLC

CONSTANTS Snapshots, Backups, Texts, Calls, Tabs, MaxVersion, MaxBorn

ASSUME FakeBounds == MaxVersion \in Nat \ {0} /\ MaxBorn \in Nat \ {0} /\ Texts # {}

VARIABLES
  side,  \* "resources", "contents" or "versions"
  part, owners, trees, slices, arrays, calls,
  kind, docs, pages, born

inside == <<part, owners, trees, slices, arrays, calls>>
versions == <<kind, docs, pages, born>>

Parts ==
  {[kind |-> "instance", of |-> "files"]}
  \cup [kind : {"instance", "volume"}, of : {"snapshots", "backups"}]

\* A directory, and a file in it, below the root.
Above == [p \in {"/", "/root", "/root/.profile"} |->
            IF p = "/root/.profile" THEN "/root" ELSE "/"]

Contents == INSTANCE FakeContents WITH
  Names <- Instances, Values <- Texts, Requests <- Calls, Parent <- Above

Tokens == INSTANCE FakeVersions WITH
  Kinds <- {"instance", "volume", "profile", "network", "server"},
  Names <- Instances, Values <- Texts

\* The contents as values: what each owner shows, and what each download is of.
Visible == [i \in DOMAIN owners |-> Contents!View(i)]

UnderWay ==
  [c \in Calls |->
     [pc |-> calls[c].pc, sent |-> calls[c].sent, blob |-> calls[c].blob,
      content |-> IF calls[c].pc = "stream" THEN slices[calls[c].slice] ELSE <<>>]]

Plain == INSTANCE OwnedContents WITH
  Names <- Instances, Values <- Texts, Requests <- Calls, Parent <- Above,
  holds <- Visible, transfers <- UnderWay

Symmetry == Permutations(Others) \cup Permutations(Instances) \cup Permutations(Volumes)

\* What the clients of one behaviour use: enough for each property, little
\* enough to be exhausted.
Campaigns ==
  {{"projects", "instances", "profiles"},
   {"projects", "networks"},
   {"projects", "zones"},
   {"projects", "volumes"},
   {"projects", "buckets"},
   {"projects", "images"},
   {"instances", "devices", "networks"},
   {"instances", "devices", "pools"},
   {"instances", "power", "devices", "volumes"},
   {"instances", "images"},
   {"networks", "zones"},
   {"pools", "volumes", "buckets"}}

\* Enough for profiles to be renamed, in projects that stay.
Renaming == {{"instances", "profiles"}}

\* The same for every behaviour that does not use them.
NoResources == uses = {"projects", "zones"} /\ Init
NoContents == Contents!Init /\ part = [kind |-> "volume", of |-> "backups"]
NoVersions ==
  kind = "server" /\ docs = <<>> /\ pages = [t \in Tabs |-> Tokens!NoPage] /\ born = 0

FakeInit ==
  \/ side = "resources" /\ Init /\ NoContents /\ NoVersions
  \/ side = "contents" /\ NoResources /\ Contents!Init /\ NoVersions
  \/ side = "versions" /\ NoResources /\ NoContents /\ Tokens!Init

FakeNext ==
  \/ side = "resources" /\ Next /\ UNCHANGED <<side, inside, versions>>
  \/ side = "contents" /\ Contents!Next /\ UNCHANGED <<side, vars, versions>>
  \/ side = "versions" /\ Tokens!Next /\ UNCHANGED <<side, vars, inside>>

FakeSpec == FakeInit /\ [][FakeNext]_<<side, vars, inside, versions>>

-----------------------------------------------------------------------------
(* Properties: FakeDaemon's own, and what the others say.                  *)

\* Type invariant of all, with the trees of files closed and the names of
\* snapshots unique (MakeDirectory, DeleteFile, CreateSnapshot).
FakeTypeOK == TypeOK /\ Contents!TypeOK /\ Tokens!TypeOK

\* No call loses or changes what it does not name: another project's resources,
\* or the files, snapshots and backups of another instance, its clone's least
\* of all (DeleteProject, UpdateProject, CloneInstance).
NothingElseChanges ==
  [][LosesNothing /\ Contents!OthersUntouched]_<<side, vars, inside, versions>>

\* A download is all of one upload (PullFile, PushFile): a consequence of
\* ContentsAreValues, and proved by itself.
PullsWhole == Contents!PullsWhole

\* Maps, slices and arrays behave as the values they stand for: no client can
\* tell that they are shared, moved or overwritten, nor what is streamed or
\* imported without the lock (cloneFiles, PushFile, PullFile, CreateSnapshot,
\* DeleteSnapshot, RestoreInstanceBackup).  This is Plain!Spec: what leaves the
\* memory as it was is a step that changes nothing there.
ContentsAreValues == Plain!Init /\ [][UNCHANGED inside \/ Plain!Next]_Plain!vars

\* A token of a Get is accepted only for what that Get showed (backend.Version).
TokensHold == Tokens!TokensHold
=============================================================================

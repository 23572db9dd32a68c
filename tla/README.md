# Specifications of Lexi

Lexi is a web UI for Incus: one Go process that renders pages, calls the Incus
daemon for every request, and keeps next to no state of its own. What makes it
hard is what lies between those calls: several browser tabs, several goroutines
per request, a daemon that goes on working when a caller has given up, and other
clients of the same daemon. These modules model those parts in TLA+, check them
with TLC on small instances, and prove the most important properties with TLAPS
for every value of the constants.

Run a check with `tlc -config MC_Session.cfg Session.tla` and a proof with
`tlapm MetricsStore_proofs.tla`.

## 1. Inventory

### Components

| Component | State | Operations | Talks to |
|---|---|---|---|
| `backend` (contract) | context keys for remote and project | the `Backend` interface, `Version`, sentinel errors | everything |
| Incus driver, CPU samples (`incus/metrics.go`) | `cpuSamples`, `cpuLastSweep` under `cpuMu` | `Metrics`, `cpuPercent`, `clearCPUSample` | sampler, metrics handlers, `DeleteInstance`, daemon |
| Incus driver, operations watch (`incus/operations.go`) | per watch: tick channel, `closed` flag, events listener, two goroutines | `WatchOperations`, `ListOperations`, `CancelOperation` | events client, SSE handler |
| Incus driver, config writes (`incus/{config,instances,profiles,...}.go`) | none; the daemon's resource and its etag | get, change, conditional put | edit handlers, daemon |
| Incus driver, exports (`incus/{backup,storage,storedbackups,images}.go`) | per call: operation, temporary backup, spool file | `ExportInstance`, `ExportVolume`, `ExportImage`, downloads of stored backups | download handlers, daemon |
| Incus driver, calls (`incus/*.go`) | image catalog cache under `imgMu` | some 130 methods of one to five requests: lifecycle, snapshots, backups, storage, networks, profiles, projects, images, files, administration | handlers, daemon, other remotes |
| Incus driver, console (`incus/console.go`) | per session: control channel, the client library's goroutines | `Exec`, `execControl`, `ConsoleLog` | console handler, daemon |
| Incus driver, remotes (`incus/incus.go`) | the map of connections made by `New` | `ListRemotes`, `Capabilities`, scoping | every call |
| Fake backend, resources (`fake/*.go`) | an in-memory daemon under one mutex: projects, a space per project with version counters, pools with volumes and buckets; files, snapshots and backups of each instance and volume | the whole interface | tests, development server |
| Fake backend, operation log (`fake/operations.go`) | a log per space; watcher channels | `logOp`, `CancelOperation`, `WatchOperations` | tests, development server |
| Metrics history (`metrics`) | a map of rings under a mutex, `lastSweep` | `Append`, `Series`, the sampler's rounds | sampler, series handler |
| Server, operations stream (`server/operations.go`) | per page: an SSE response | watch, list, write, select; `cancelOperation`, whose answer is the panel too | driver, browser |
| Server, edit forms (`server/{config,profiles,projects,...}.go`) | the version in the page's hidden field | twenty forms | driver |
| Server, downloads (`server/{backup,files}.go`) | whether the first byte was written | `export`, `attachmentWriter` | driver |
| Server, selection (`server/{remotes,projects}.go`) | two cookies in the browser | `withRemote`, `withProject`, the selections, project rename and delete | every request |
| Server, bulk (`server/instances.go`) | per request: semaphore, wait group, failures | `bulk` | driver |
| Server, console (`server/console.go`) | per session: websocket, pipe, resize channel | `consoleWS` | driver's `Exec` |
| UI templates, components, scripts, commands | none that outlives a request | rendering, wiring | |

### How they interact

A request passes `withRemote` and `withProject`, which put a scope into its
context, and then a handler, which calls the driver once or a few times. The
driver turns a call into HTTP requests to the daemon of that scope. A change of
an instance is an *operation*: the daemon answers at once and works in the
background, and the driver waits for it with the request's context; when that
context ends the wait returns, and the operation goes on. The sampler calls the
driver on a timer and shares the CPU samples and the history store with the
handlers. The operations stream is fed by goroutines of the events client.

### What is hard, and what makes each part correct

* **CPU samples.** A reading is taken without the lock and recorded later; in
  between the instance may be deleted, cleared, and created again. Correct: a
  percentage is measured over a real interval, and a dead instance's counter is
  never the baseline of the next instance of that name.
* **Metrics history.** Writers stamp before they lock; append and read are two
  critical sections; eviction is lazy. Correct: a full window, no
  expired history, a fresh reply.
* **Operations stream.** Events are coalesced, handlers run late, the stream
  drops; the answer to a cancel is a second list for the same panel, on a connection of
  its own. Correct: no send on a closed channel, no change lost, a view that goes
  back in no case but the one named below, a watch that ends with its page.
* **Edit forms.** Up to three reads and a write, with others writing in between.
  Correct: a save replaces the fields of its page and nothing else, and fails if
  what the version covers changed since the page was rendered.
* **Exports.** Eight steps, each of which can fail or be abandoned. Correct: no
  file and no backup left behind unreported, no half tarball taken for whole.
* **Selection.** All tabs share the cookies, and responses arrive in any order.
  Correct: an action runs where the user selected, and nobody gets stuck.
* **The fake's resources.** Every call is atomic, but a resource is found through
  the features of the request's project, and its users are instances, profiles
  and networks of every project that shares it. Correct: after any sequence of
  calls nothing has disappeared that no call named, and what an instance refers
  to was not deleted or renamed under it.
  What it holds (files, snapshots, versions) is Go memory that two owners must not
  share and that a download reads after unlocking. Correct: a call changes one
  owner, a download and a restoration are of what was there when they began, an accepted token stands for what was shown.
* **Bulk.** Goroutines, panics, a client that leaves. Correct: a true summary, a
  bounded load, an answer.
* **Single calls.** A look, a change and a wait are three requests, with others
  at work in between; each answer may be lost, and the client may leave. Correct:
  an error says what was so, a page follows what was done, a refusal means that
  nothing was, and a method that fails half-way undoes its half.
* **Console.** A reader, a copier, a resizer and the shell, joined by an unbuffered
  pipe and a channel of one. Correct: the newest size is not the one dropped, and
  a page that has gone frees its session.

The lines at which each of these bites are the `hazards` of `PROJECT.json`.

## 2. The modules

| Module | Models | Abstract specification |
|---|---|---|
| `CpuSamples` | `Metrics`/`cpuPercent`/`clearCPUSample`, `DeleteInstance`, the daemon's delete and re-create | |
| `MetricsStore` | `Store`, `Sampler`, `metricsSeries` | |
| `OperationTicks` | what `Backend.WatchOperations` promises | itself |
| `IncusWatch` | the Incus driver's watch: listener, handlers, two goroutines | |
| `OperationEvents` | `operationsEvents`, `cancelOperation` and the browser's panel on top of `IncusWatch` | `OperationTicks` |
| `FakeOperations` | the fake's operation log and watchers | `OperationTicks` |
| `FakeSpaces` | the fake's state, routing by features, projects, instances, profiles | |
| `FakeNetworks` | its networks, ACLs, zones and records | |
| `FakeStorage` | its pools, volumes, buckets and images | |
| `FakeDaemon` | the three together: initial state, next-state relation, properties | |
| `OwnedContents` | what the interface promises of files, snapshots and stored backups: plain values, each of one owner | itself |
| `FakeContents` | files, snapshots and stored backups of the fake's instances and volumes, with the memory they may share | `OwnedContents` |
| `FakeVersions` | the fake's version counters and the tokens of its pages | |
| `OptimisticEdit` | what `backend.Version` promises an edit page | itself |
| `EditForms` | twenty forms: page, handler, driver, daemon | `OptimisticEdit` |
| `Export` | the downloads: instances, volumes, stored backups, images | |
| `DriverCalls` | the Incus driver's methods as sequences of requests and checks | |
| `Handlers` | the routes of the server as sequences of checks, a method, and reads | |
| `Requests` | what performing such a sequence does, among failures and others' changes | |
| `Console` | `consoleWS`, `Exec`, `execControl`, and the fake's echo | |
| `Session` | the browser's cookies, `withRemote`, `withProject`, selections | |
| `BulkActions` | `bulk`, `waitOp`, the two-step delete | |

`MC_X` modules hold symmetry sets and inputs for TLC; `X_proofs` modules hold the
theorems about `X` (`Watches_proofs`, `Requests_proofs` and `Fake_proofs` about what
`MC_Watches`, `MC_Requests` and `MC_Fake` put together). `MC_Watches` (the two drivers' watches and the console),
`MC_Requests` (a bulk action, a download, or any other request) and `MC_Fake`
(resources, contents or versions) each check components that do not interact in
one run: a behaviour starts in one of them while the others stand still, so the
states add up instead of multiplying and each component's fairness is that of its
own module.

### How state and actions correspond to the code

**CpuSamples.** `samples` is the map `cpuSamples`; a reading is represented by
the incarnation of the instance it came from and a percentage by the interval it
was computed over. A `Metrics` call is `StartRead` (take `readStart`), `ReadState`
or `ReadNotFound` (the daemon's answer), `EnterCpuPercent` (take `now` before
the lock) and `CpuPercent` (the critical section: sweep, then exactly one of
`DiscardStale`, `Seed`, `ReusePercent`, `Measure`). `DeleteInstance` is
`SubmitDelete`, the daemon's `DaemonDelete`, then `ClearCPUSample`, or
`AbandonDelete` when its wait is cut short, after which the clear is skipped.

**MetricsStore.** `series` is the map of rings. `StoreAppend` is `Append` with its
sweep, gap test, append and trim. A tick of the sampler is `SampleOnce` (list and
stamp), one `SampleInstance` or `SkipInstance` per instance, `EndTick`; a viewer
is `ViewerStamp`, `ViewerAppend`, `ViewerSeries`, `ViewerReply`.

**IncusWatch and OperationEvents.** One variable per shared object: `listener`,
`closed`, `open`, `pending`, and the number of handler goroutines started and not
yet run. `GetEvents`, `AddHandler`, `Handler`, `Disconnect`, `CloseTicks` are the
critical sections and blocking points of `WatchOperations`. The SSE handler is
`Watched`/`WatchFailed`, `List`, `Write`, `SendFails` and the three branches of
its select; a browser that has lost its stream connects again. What it has written
is in `stream` until the page takes it (`Swap`). A cancel is `Press` (a button of the
panel, with the panel's element for a target), `CancelOperation` and `CancelLists` (or
`CancelFails`), and `Answered`: htmx puts the answer in the place of its target, and drops
it, badge and all, when a frame or another answer has replaced that (`Lands`).
A server without the `Events` capability, whose panel polls, is left out.

**FakeOperations.** `LogOp`, `SeedRunningOperation` and `CancelOperation` are
atomic under the mutex and end in `NotifyOpWatchers`. The end of a watch is three
steps: the context, the unregistration under the mutex, the close without it.

**FakeDaemon.** One successful call is one action, a refused one changes nothing.
`spaces` is `remoteState.spaces`, `volumes` and `buckets` are the pools' maps
keyed by pool, owning project and name. `Owner` is `featureProjectName`: what every
call uses to find the space a resource lives in. A resource is represented by
its references to others (a device names a network and ACLs, or a pool and a
volume; a network names ACLs and zones; an instance names profiles), because
references are what the properties are about. `UsersByName` keeps the code's
`maps.Copy` keyed by instance name as a choice of one instance per name.

**EditForms.** A form is a record: the fields it writes, the fields its handler
fills in from a read of its own, what it does with the version, and the driver
method it calls; a method is a record of whether it reads, falls back to its own
read's etag, and insists on a device. `Open`, `Submit`, `HandlerGet`, `DriverGet`,
`Put` are the round trips; `Change`, `Delete`, `Recreate` is everybody else. A kind of
resource is its forms, the fields its version covers and what the version identifies:
the content, as the daemon's etags do, or the revision, as the fake's counters do. It
covers everything but the description of a volume (`Pages`). `setInstanceProfiles` reads the
instance itself to order the profiles; what it fills in from that read it also writes.

**FakeContents.** Maps, arrays and slices are in heaps (`trees`, `arrays`, `slices`), and
an owner refers to them, so that a forgotten copy is a shared reference. A list of
snapshots is an array and a length, as a Go slice is: `Appended` writes into the
array as long as there is room, `DeleteSnapshot` moves the rest up in place. The
two calls that leave the mutex are several actions: a download is `PullFile`
(under the lock), `StreamBlock` twice and `EndPull`; the restoration of a backup is
`RestoreInstanceBackup` and `ImportInstance`. An owner's value is a volume's config or an
instance's image, which `RebuildInstance` replaces. The node of a file (`fakeFile`) is one
with its slice: a node is never shared by two trees and its slice never written into,
so nothing can be seen of the pointer between them.

**OwnedContents.** The same calls as a client understands them: `holds` maps an owner to
its value, files, list of snapshots and backups, with no heap below it, and
`transfers` are the downloads and restorations, each with the content or the backup
of the moment it began. `FakeContents` is mapped to it in `MC_Fake`: `Visible` is what
an owner shows through its references, `UnderWay` gives a download the content of the
slice it holds and a restoration the copy it made. Growing an array, sharing one
and `Keep` (the garbage collector) are not seen.

**FakeVersions.** One kind of resource per behaviour. `docs` are the resources with
their counters, `pages` what tabs were rendered from; `Update` is every conditional
save. `born` and `uncounted` are ghosts that tell apart what the token cannot.

**DriverCalls, Handlers, Requests.** A method of the driver is the sequence of its
steps, made with `Get`, `Local`, `Refuse`, `When`, `Maybe`, `Sync`, `Operation` and
`Transfer`; a handler is its checks, a method, and what it reads again. They are
data; `Requests` is the machine that performs one of them. The daemon is reduced
to what a method can be refused for: whether the resource and its parent are
there, it is in use, the name wanted is taken, and its revision. `DoGet`,
`SendChange`, `StartOperation`, `WaitEnds`, `WaitCanceled` and `WaitLost` are the round
trips, each of which may fail by itself; `EndOperation` is the daemon at work;
`Outside` is another client; `Leave` ends the request's context. The calls of the
client library take no context, so only a wait is cut short. `Fail` is `fail` and
`statusFor`, `Joined` the order in which it tests joined errors, `Undo` the rollback.

**Console.** `reader` is the goroutine of `consoleWS` (`ReadMessage`, `WriteStdin`, and
`Offer`, `Drain`, `Replace` for the channel of sizes), `copier` and `EndOutput` the client
library's, `execControl` the driver's; `exec` is the handler in `Exec`: `StartExec`,
`Wait`, `Flush` or the fake's `Echo`, then `Close` with the deferred calls.

**Export.** `pc` walks through `ExportInstance`; deferred calls are steps on every
path that reaches them. The daemon finishes, fails or ignores operations when it
likes.

**Session.** A request carries the cookies it was sent with. `Route` is
`withRemote` followed by `withProject`; `multi` is the capability that decides
whether the remote cookie counts at all. `selectRemote`, `selectProject` and
`changeProject` (rename and delete) are handlers; `Arrive` applies the cookies of
a response. `Restart` dials the remotes anew.

**BulkActions.** `Spawn` is the loop (add, acquire, go); a goroutine is `Look` (the
state check of `DeleteInstance`), `Call`, `WaitReturns` per daemon operation,
`Panic`, and `Return` (the deferred calls); `Respond` is everything after
`wg.Wait`.

## 3. The runs

| Run | Shows |
|---|---|
| `cpu_samples` | percentages are measured over `Floor .. 2*TTL`; a tombstone is replaced only by a later incarnation's reading or after its TTL |
| `cpu_stale` | violated: with two calls in flight the first consumes the tombstone and the second records the dead instance's counter |
| `metrics_store` | spacing, eviction and freshness of the histories |
| `watches` | the Incus driver and the fake keep the contract of `WatchOperations` and never panic; no change is lost; every change is shown, and none is taken back but over the answer to a cancel; running tasks survive trimming; a watch ends; in a console the newest size wins and a page that left frees its session |
| `requests` | bulk: a true summary, a bounded load, an answer; downloads: every failure path cleans up or reports; every other route of the server: errors are true, pages and refusals tell what was done, halves are undone, nothing newer is overwritten, and a client that left ends the request |
| `export_midstream` | violated: a failure after the first byte ends the response as if it were whole |
| `edits` | all twenty forms refine `OptimisticEdit`, requests without a token that is insisted on included, whether versions identify contents or revisions |
| `edits_blind` | violated: a project's limits form saves under a version its page never showed |
| `session` | the selection is honoured, requests end, nobody is trapped |
| `session_retarget` | violated: with one remote left the cookie is ignored and the action runs there |
| `fake` | any sequence of calls on the in-memory daemon: nothing vanishes, what is attached stays, renames are followed; a call changes one instance's or volume's contents only, the contents implement `OwnedContents`, and an accepted version token stands for what was shown |
| `fake_rename` | violated: of two instances of one name in projects that share their profiles only one follows a profile's renaming |

### Violations and what they mean

The five violated runs check what a comment of the code says; the `findings` of
`PROJECT.json` quote it. `cpu_stale` needs two pollers of one key, a delete and a
re-creation within the TTL. The limit of it is `cpu_samples`: the wrong baseline
can yield one wrong percentage, not a division by a tiny interval.
`edits_blind` is one of several forms without a token (`updateLimits`,
`setInstanceProfiles`, the add and remove forms of devices) or with one that is
not insisted on. `session_retarget` takes the shortest way; with a third remote
reachable the request is bounced as documented, and it is the *next* action of the
same page that runs on the default remote, because the bounce expires the cookie
all tabs share. That second way is what the `expired` exception of
`RemoteHonoured` stands for. `fake_rename` needs nothing but two projects that
share the default project's profiles and an instance of one name in each;
`profileUsers` keys them by name. `networkUsers` does the same, which is the
proviso `Unambiguous` in `NothingDangles`.

More disagreements are modelled without a run. A wait that fails although
the client is there (the events connection is lost) leaves an export's operation
running, and the backup it makes later is neither deleted nor logged (the step
`WaitLost`, the exception in `LeftoversKnown`). The daemon's versions are etags of the content, so a
change and its reversal are not noticed, and the etag of a volume leaves out the
description, so that edits of it are last-write-wins although the page sends a token:
the comments on `UpdateVolume` say so (`backend.go:1036`, `incus/storage.go:161`,
`fake/storage.go:185`) where the one on `Version` does not (`backend.go:23`).
`OptimisticEdit` promises no more than that: a token answers for `covers` only, and with
`content` for what the page showed and not for its being the latest of two equal states.
A frame of the operations stream may be listed before the answer to a cancel and
swapped in after it: the cancelled task is shown running again until the tick of its
change brings the next frame, where `cancelOperation` has it that the status "flips in place"
(`operations.go:97`); `ViewAdvances` names this case and excludes every other. `DeleteStoragePool`
promises a conflict for a pool in use (`backend.go:1029`), and the driver's comment accepts
the daemon's own 400 for a reference that appears after the look (`incus/storage.go:115`);
`PromisesConflict` follows the driver. In the fake,
`RenameVolume` rewrites the devices of instances without counting
(`fake/storage.go:242`), so a page rendered before it is saved over it, where
`backend.go:23` has it that "a concurrent change since the Get fails with
ErrConflict" (`FollowVolume`); the other exception of `TokensHold` is a
namesake, whose counter starts from 0 again.

Others, of the fake, are in the model as they are in the code and outside of what
its properties say: `projectUsedBy` counts neither buckets nor zones, so a project that has
some may be deleted and its features switched, and `RenameProject` leaves the
buckets under the old name; `DeleteStoragePool` deletes a pool with buckets;
`DeleteNetwork` looks the profiles of every instance up as the request sees
them, where its comment says "through its own project's profile namespace";
`zoneUsedBy` asks the networks of the request only; `RenameVolume` rewrites no
profile's device; `CreateInstance` looks profiles up in the project's own space;
`UpdateProject` makes no default profile when it turns `features.profiles` on;
`CopyImage` does not ask whether the alias is taken; `DeleteNetwork` leaves the
network's forwards, which a network of the same name created later has again.

Of the Incus driver and the handlers: `MakeDirectory` counts any failure to look as
absence, so a directory may be "made" over a file that the look could not
see; `saveFile` pushes what was edited over whatever the file has become, files
having no version; an image published for a client that has left gets no alias and
stays; a console's reader whose write nobody takes any more is not freed, as
nothing closes the pipe's reading end.

### Bounds, and why they are enough

* `CpuSamples`: one key, two readers, `Floor = 2`, `TTL = 3`, ten clock ticks, two
  incarnations. Keys do not interact except through the sweep, which ten ticks let
  run twice; the hazards need two readers and a re-creation. The theorems hold
  for any number of each.
* `MetricsStore`: one name in two scopes, two viewers, a ring of two, a clock of
  eight. A ring of two is the smallest in which trimming and spacing differ;
  eviction needs a key idle for `MaxAge` and one sweep after it.
* `FakeDaemon`: exhausting everything at once is out of reach, so a behaviour's clients
  use one of twelve combinations of groups of operations (`Campaigns`), chosen so
  that every reference meets every operation on either of its ends: projects
  with each kind of resource, instances with profiles, networks, pools, volumes
  and images, networks with zones, pools with volumes and buckets. The default
  project and two others, which makes sharing among three and a rename onto a
  free name possible; two instances, so that a name is used twice; two profiles,
  ACLs and volumes to rename. At most one device per configuration with one name
  (so an instance's shadows its profiles'), at most one ACL per device, one of the ACLs
  is ever attached, at most two instances and two images at a time. When clients
  do not use projects, one that exists from the start stands for the others.
  TLC takes the projects but the default one, the instances and the volumes as
  interchangeable: nothing in the modules orders or picks among them, and only safety
  is checked.
* `FakeContents`: two instances or volumes, a directory and a file below the root, two
  names of snapshots, one of backups, two contents, one request in flight. Two
  snapshots are enough for an append into a shared array and a deletion that
  moves an entry. The files, the snapshots or the backups are used, not all at once.
  One request is in flight, since requests are never compared with each other; the
  owners change under it all the same. The first disjunct of `ContentsAreValues` is
  also a step of `OwnedContents` that changes nothing: it saves TLC from looking for
  another one in the steps of the resources and the versions. Longer lists, in which
  two entries stay in order when one is deleted, are left to the theorem, which is
  about lists of any length.
* `FakeVersions`: two names, one tab, two contents; `MaxVersion = 3` updates and
  `MaxBorn = 2` creations, enough for a renaming between a Get and its save to meet a
  counter that has come back to the token.
* `OperationEvents`: three changes, two handlers at once, two failures, one cancel under
  way at a time: a tick pending, one coalesced, one late, a reconnection after a failure,
  and an answer to a cancel among frames listed before and after it. Two cancels at once
  are left to the theorems, which are about any number.
* `FakeOperations`: a cap of two with five operations per space and two seeds, so
  that trimming meets running entries at every position.
* `EditForms`: two tabs; each of the nine resources, under either meaning of its version,
  is an initial state of its own. With revisions two writes, since a lost update needs
  two writers, and for a volume one besides any number of changes of the description.
  With etags of the content one write, and three for the ACL's forms: there a change
  and its reversal can lie between a page and its save.
* `Export`: no constants; all states.
* `Requests`: every request of `Handlers`, one at a time, with `MaxOutside = 2` changes by
  others: one after the look and one after the change or its undoing. One
  subject, parent and target, as no method looks at more. Two requests meet as
  one and the changes from outside.
* `Console`: `MaxSizes = 3`, so that a third size arrives while the second is between
  the channel and the daemon, and `MaxKeys = 2`, one in the pipe and one behind it.
* `Session`: two tabs, one of which only refreshes itself; three remotes, because
  the bounce needs one remote to be down and two to be up; one restart and one
  change of the projects. A tab has one request in flight.
* `BulkActions`: two slots for three indices, one name twice, one change by another
  client.

### Fairness

Safety needs none. Liveness assumes weak fairness of steps that the Go scheduler
or a blocking call guarantees, and none of users, clients and daemons:

* `OperationEvents`: the driver's goroutines and the SSE handler run, and an
  `EventSource` reconnects by itself (`Connect`). The properties speak of a page that
  stays; a page may leave at any time.
* `FakeOperations`: the watcher's goroutine runs once its context has ended.
* `Export`: the call's own steps. `DeadlinePasses` is the timeout of
  `backupDeleteTimeout`; the daemon may never finish anything.
* `FakeDaemon`, `FakeContents`, `FakeVersions`: none; their properties are safety.
* `Requests`: the process goes on and the daemon answers its requests; it need never
  end an operation, so only a client that has left is promised an end.
* `Console`: the goroutines of the handler, the driver and the client library run,
  and the daemon takes the input it is sent. Neither the browser nor the shell
  need ever leave. A daemon that stops reading would hold the reader in its
  write, where it does not notice that the page has gone.
* `Session`: the server answers and the browser takes the answer.
* `BulkActions`: goroutines that can run do, a wait on an ended context returns,
  and the daemon ends every operation but a restart, which the driver asks for
  without force or timeout; so a bulk restart is answered only once the client
  has left.

## 4. What is proved

| Theorem | Of | Says |
|---|---|---|
| `TypeCorrect` | CpuSamples, MetricsStore, EditForms | the type invariants, the ring's limit included |
| `AnswersMeasured` | CpuSamples | `AnswersAreMeasured` |
| `TombstoneProtects` | CpuSamples | `TombstoneGuards`, an action property |
| `WindowKept`, `StaleKeysEvicted`, `RepliesAreFresh` | MetricsStore | the three properties of the run |
| `EventsTypeCorrect`, `NeverPanics`, `NoUpdateLost`, `PanelAdvances` | OperationEvents | the safety properties of the operations stream |
| `IncusKeepsContract` | OperationEvents | the driver's watch refines `OperationTicks` |
| `WatchesTyped` | Watches | the type invariants of both watches and of the console |
| `TheNewestSizeWins` | Watches (Console) | `NewestSizeWins` |
| `RunningTasksStay`, `WatcherIsTicked` | Watches (FakeOperations) | `RunningStaysVisible`, `WatcherSees` |
| `FakeKeepsContract` | Watches (FakeOperations) | every watch of the fake refines `OperationTicks` |
| `SavesAtomic` | EditForms | the forms refine `OptimisticEdit` |
| `RequestsTyped` | Requests | the type invariants of bulk actions, downloads and other requests |
| `SemaphoreHolds`, `SummaryIsTrue` | Requests (BulkActions) | `DaemonNotFlooded`, `AnswerIsTrue` |
| `NothingIsLeft` | Requests (Export) | `LeftoversKnown` |
| `AnswersWereTrue`, `AnswersTellWhatIsDone`, `NoHalfIsLeft` | Requests | `AnswerWasTrue`, `AnswerTellsDone`, `HalfDoneIsUndone` |
| `NothingIsOverwritten` | Requests | `NoOverwrite`, an action property |
| `SessionTyped`, `SelectionHonoured` | Session | `TypeOK`, `RemoteHonoured` |
| `ResourcesTyped` | Fake | `FakeTypeOK`: the references of all resources, contents and versions are well-formed |
| `CallsSpareOthers` | Fake (FakeDaemon, FakeContents) | `NothingElseChanges`, an action property |
| `ReferencesHold` | Fake (FakeDaemon) | `NothingDangles`, an action property |
| `DownloadsAreWhole` | Fake (FakeContents) | `PullsWhole`: a download is of one upload (no run checks it by itself: `ContentsAreValues` implies it) |
| `MapsAndSlicesAreValues` | Fake (FakeContents) | `ContentsAreValues`, which is `OwnedContents!Spec`: the contents refine `OwnedContents` |
| `AcceptedTokensHold` | Fake (FakeVersions) | `TokensHold` |

Every invariant and every safety action property of a passing run has its theorem.
What bounds an action in TLC by a constant (operations, births, requests) is any
number in a theorem. A bound that is part of the model stays: a configuration has
one device, a request names at most one profile, a file's upload is two blocks.

**CpuSamples.** The invariant adds to the property: times in the past
(`ClockInv`), an age limit that the lazy sweep maintains (`AgeInv`), stored
percentages that were legal when computed (`WindowInv`), a tombstone that carries
the time of the latest clear (`TombInv`), the living incarnation being younger than
every cleared one (`LifeInv`), and the crux, `ReadInv`: a reading begun at or after
the latest clear is of a later incarnation. `AgeInv` is what bounds an interval by
twice the TTL. The assumptions: the clock strictly orders calls on both sides of a
round trip, and nobody waits for the lock longer than the TTL (`MaxLockWait`).

**MetricsStore.** `AgeInv` says what a sweep left behind, `SweepInv` how long ago
it can have been, and `PendingInv` that between a viewer's append and its read the
key stays fresh, which needs `MaxDelay + MinGap <= MaxAge`. The code's values are
far from that bound: a stamp reaches the store in milliseconds to seconds, and
the age is minutes.

**OperationEvents.** `WatchInv` ties the `closed` flag to the channel and the
handlers to a watch that has returned. The refinement maps the contract's `owed`
to a handler that has started and has not ticked yet. `NoUpdateLost` needs that an answer
to a cancel which may still land is current or has a tick to follow (`AnswersCurrent`).
`PanelAdvances` rests on the order
of what is on its way: the panel, the frames of the stream and the list not yet written
are in the order they were listed, but for an answer to a cancel that is shown
(`byCancel`), and an answer still to come that has its target was listed no earlier than
the panel it replaces was, since whatever replaces the panel takes the target away.

**EditForms.** The invariant says that what a tab has read is in order with the
resource's history (page, handler's read, driver's read), that a read of the revision
that the resource still has agrees with it on what the version covers (`InOrder`), and that
a token that is required was sent (`Asked`). It is parametric in the set of resources,
revisions or contents, covered in whole or in part; the theorem assumes that forms
which pass the token on are sent one (`TokensInsisted`) and that each form is `Sound`: without
a version of its own it relies on the etag of the driver's read and keeps nothing
older, with the handler's it keeps nothing else, and what the version leaves out it
replaces. `FormsAreSound` shows this of all twenty forms of the server, under either kind
of version.

**Watches.** For the console, `ConsoleInv` says what is in each place between browser
and shell: `FramesInOrder`, that sizes not read yet are in the order the browser sent
them, and that the reader is between emptying and refilling the channel only while
the channel is empty, since nobody else fills it. For the fake's log, `LogInv` says
that a log is newest first, that an entry may be cancelled exactly while it runs, and
that a log outgrows its cap only by entries that run (`LogOK`), and
`WatcherInv` ties registration, channel and unseen changes to the stage of a watch:
a registered watcher with something unseen has a tick pending. The refinement
maps `owed` to that tick.

**Requests.** For a bulk action, `BulkInv` counts: the slots taken and the wait group
are the cardinality of the goroutines that have started and not returned, whatever
order they finish or panic in; it records of each goroutine what its outcome says of
its instance. `ExportInv` says at which step of a download which of its resources
exists and what was logged. `CallInv` is about any program made of the steps of
`DriverCalls`, in six parts: `Typed`; `Books`, which balances what was asked of the daemon,
performed and is under way; `Shape`, what is left of the program; `Migration` and
`Rolled`, what a half-done migration or publication looks like; `Truthful`, that what
the driver saw, and what it is about to say, was so at some time. The proof takes of
the programs only that each is `WellFormed` (it looks, acts, publishes an image and
tags it, and reads the page again, in this order; a migration begins with the copy); `RequestsAssumption` says that every
program of the server's routes is, which TLC evaluates at the start of its run.

**Session.** `SessionInv` says that unless the remote cookie was expired it names the
remote picked last, or none was picked (`Says`); that a response sets the cookie only
as its handler may (`Ordered`); and that an action is bound for the remote that was
selected when it was sent (`Directed`). The responses of several tabs arrive in any
order, which is why the property, and the invariant, are about the pick at the time
of sending. The assumption: the names of remotes and projects are not the markers for
none and unchanged.

**Fake, versions.** `TokenInv` says that births are unique, and that along the life
of one resource the counter never goes back and stands still only while what is
shown does, or the change was one that the code does not count.

**Fake, contents.** `ContentsInv` says that no two owners share a tree or an array of
snapshots, that every slice referred to is there and is of one upload (a call
replaces a slice and never writes into one), that a download holds the slice
it began with, and that names in a list of snapshots are unique. The refinement of
`OwnedContents` rests on the same invariant. For each call it is shown what the
owner it names shows afterwards (`FilesIn`, `NamesIn`, the `Held...Edited` lemmas),
that every other owner shows what it did, because its tree and its array are not
the ones written (`VisiblePut`), and that a download goes on being of its slice,
which no call writes into. That names are unique is needed here as well: without it
the renaming of one entry would not be the renaming of the name.

**Fake, resources.** `DaemonInv` says that a space maps names to resources of the
right kinds, a record is in a zone that exists, an alias that is not the catalog's
names one image, and a volume is in a pool and a project that exist.
`CallsSpareOthers` shows for each call which one thing it may take away (`Keeps`) and counts
(`LosesOne`); a project is renamed by an injection of what it shows, and is deleted
or has its features switched only when the emptiness check leaves nothing that
anyone shows. That a call changes no other owner's contents follows from `ContentsInv`:
a write reaches an owner's view only through what it owns alone. `ReferencesHold`
shows that most calls take away nothing that references name (`Supplies`), and for the
others that the code's search for users finds whoever matters: `aclUsedBy` every
instance and network, `poolUsedBy` every instance, `profileUsers` and `networkUsers` every
instance whose name is used once among the projects that share (`UserIs`). The
assumptions: names are finite in number (`NamesAreFinite`), `default` is no other
project's name, and the markers for an absent name are none (`SpacesAssumption`).

Only model-checked: liveness (`WatchEnds`, `EveryChangeShown`, `LeaversFreed`, `BulkEnds`,
`DisconnectEnds`, `NavigationEnds`, `NeverTrapped`), which is out of reach of the prover, as
are `ENABLED` and induction over data; what is violated is shown by TLC's
counterexample. No module declares a recursive operator.

## 5. Not modelled, and why

* Of the fake: ACL rules, forwards, bucket keys, certificates, warnings and canned
  metrics: maps that no other resource refers to.
* The image catalogue's cache: `ListImages` either reads the images remote or does
  not; how old what it returns may be is not asked.
* The wording of the daemon's errors: `mapErr` recognises some by their text; the
  models assume that a text contains its words only when it means them, and leave
  open what the driver makes of a refusal where no method looks for it.
* Connecting at start-up, TLS and the probing of API extensions: I/O without state.
* Conversions between the daemon's types and the interface's, parsing and
  validation of fields beyond whether they are refused, rendering, generated icon
  data, vendored scripts.
* A request that panics (but in `BulkActions`, which recovers), and the shutdown of
  the process: nothing is persisted, so a restart is a new initial state, except
  for the browsers' cookies (`Session`).
* The daemon and the client library are external: the models let them do what the
  code's use of them allows, failures included.

## 6. Plan

1. Proofs: no safety property of a run is left without a theorem. Next is the
   refinement of item 4.
2. `ImageCatalog`: the cache under `imgMu` with its hour of freshness.
3. Rule lists in `EditForms`, to state what an index means under content etags.
4. An abstract specification of a lifecycle call (moved or kept, never lost) that
   `Requests` refines for migration and publication.

----------------------------- MODULE DriverCalls ----------------------------
(***************************************************************************)
(* The methods of the Incus driver (backend/incus) as the requests they    *)
(* make of the daemon, in order, with the checks they make in between.     *)
(*                                                                         *)
(* A method acts on a SUBJECT (an instance, a pool, a snapshot, ...) that  *)
(* lives in a PARENT, and may want a free name, the TARGET, beside it.  In *)
(* use stands for whatever makes the daemon refuse: instances attached to  *)
(* a profile, a network or a volume, a project that is not empty, an       *)
(* instance that runs.  A creation inside a parent has it for its subject. *)
(*                                                                         *)
(* This module is the table; module Requests says what a step does.        *)
(* The GET-preserve-PUT methods of the edit forms are in EditForms, the    *)
(* exports through a spooled backup in Export.                             *)
(***************************************************************************)
EXTENDS Sequences

-----------------------------------------------------------------------------
(* Steps                                                                   *)

\* A GET.  Of the "subject", the "target" or a resource at the "side": absent
\* is not found.  Of the subject's "siblings": not found without the parent.
\* Of a top-level "list": always there.
Get(of) == <<[do |-> "get", of |-> of]>>

\* Requests whose failure the method ignores.
BestEffort == <<[do |-> "skip"]>>

\* The work of the process itself (parsing, validating, spooling, looking into
\* an answer): it goes on, or ends the call with one of these errors.
Local(errors) == <<[do |-> "local", errors |-> errors]>>

\* A look at what was last read: end the call with this error if it was so.
Refuse(seen, error) == <<[do |-> "refuse", seen |-> seen, error |-> error]>>

\* The steps taken only if what was last read was so.
When(seen, steps) == <<[do |-> "when", seen |-> seen, steps |-> steps]>>

\* The steps that some of the calls take: those with an optional argument.
Maybe(steps) == <<[do |-> "maybe", steps |-> steps]>>

\* The target is, from here on, a name that was free in what was last read.
PickFree == <<[do |-> "pick"]>>

\* A change.  version: the If-Match it carries, of what the method "read" or of
\* the "page" it was called from, or "none".  inuse: what a daemon's refusal of
\* a subject in use becomes, "Conflict" where the method looks for it, "untyped"
\* where the daemon's wording decides, "ignored" where use is no obstacle.
\* wait: answered at once, or an operation that the method waits for with its
\* context ("operation"), or one between two servers ("transfer").
\* undo: what the method does about a refusal before it reports it.
Change(effect, version, inuse, wait) ==
  <<[do |-> "change", effect |-> effect, version |-> version, inuse |-> inuse,
     wait |-> wait, undo |-> <<>>]>>

Sync(effect, inuse)      == Change(effect, "none", inuse, "no")
Operation(effect, inuse) == Change(effect, "none", inuse, "operation")
Transfer(effect)         == Change(effect, "none", "ignored", "transfer")

OrUndo(change, steps) == <<[change[1] EXCEPT !.undo = steps]>>

\* The daemon's own validation of what it is sent, a plain 400.
Invalid == Local({"Invalid"})

-----------------------------------------------------------------------------
(* Instances (incus/instances.go, move.go, remotes.go, backup.go)          *)

ListInstances == Get("list")
GetInstance   == Get("subject")

\* A managed network, if one is asked for, then the operation.
CreateInstance == Maybe(Get("side") \o Invalid) \o Local({"Unsupported"})
                  \o Operation("create", "ignored")

\* An image is named; the daemon refuses a running instance.
RebuildInstance == Invalid \o Operation("act", "untyped")

changeState     == Operation("act", "ignored")
StartInstance   == Operation("start", "ignored")
StopInstance    == Operation("stop", "ignored")
RestartInstance == changeState
PauseInstance   == changeState
ResumeInstance  == changeState

\* Stop then delete; the CPU samples go last (CpuSamples).
DeleteInstance == Get("subject") \o When("used", StopInstance)
                  \o Operation("delete", "untyped")

\* Copies the instance as it was read, on the same server.
CloneInstance == Get("subject") \o Transfer("create")

RenameInstance == Invalid \o Operation("rename", "untyped")
MoveInstance   == Operation("act", "untyped")

\* Copy to the other remote, then delete here.
MigrateInstance == Local({"NotFound"}) \o Get("subject") \o Refuse("used", "Invalid")
                   \o Transfer("create") \o Operation("delete", "untyped")

\* The upload goes through contextReader.
ImportInstance == Local({"error"}) \o Operation("create", "ignored")

\* mutateInstance with the etag it has just read.
mutateInstance == Get("subject") \o Change("update", "read", "ignored", "operation")

SetSnapshotSchedule == mutateInstance
GetSnapshotSchedule == Get("subject")
GetInstanceConfig   == Get("subject")

-----------------------------------------------------------------------------
(* Snapshots (incus/snapshots.go)                                          *)

ListSnapshots  == Get("siblings")
CreateSnapshot == Operation("create", "ignored")
RenameSnapshot == Operation("rename", "ignored")
DeleteSnapshot == Operation("delete", "ignored")

UpdateSnapshotExpiry == Get("subject") \o Change("update", "read", "ignored", "operation")

\* The put's Restore field, on the instance.
RestoreSnapshot == mutateInstance

-----------------------------------------------------------------------------
(* Stored backups (incus/storedbackups.go, volumebackups.go)               *)

ListInstanceBackups == Get("siblings")

\* Without a name the method numbers the backup itself, from a list of those
\* there are; an expiry needs the backup_expiry extension.
CreateInstanceBackup == Local({"Unsupported"}) \o Maybe(Get("subject") \o PickFree)
                        \o Operation("create", "ignored")
DeleteInstanceBackup == Operation("delete", "ignored")

\* The backup is spooled, and the spool uploaded under a new name.
spoolBackup           == Local({"error"}) \o Get("subject") \o Local({"error"})
RestoreInstanceBackup == spoolBackup \o Operation("create", "ignored")

ListVolumeBackups   == Get("siblings")
CreateVolumeBackup  == Local({"Unsupported"}) \o Maybe(Get("subject") \o PickFree)
                       \o Operation("create", "ignored")
DeleteVolumeBackup  == Operation("delete", "ignored")
spoolVolumeBackup   == Local({"error"}) \o Get("subject") \o Local({"error"})
RestoreVolumeBackup == spoolVolumeBackup \o Operation("create", "ignored")

-----------------------------------------------------------------------------
(* Storage pools, volumes and buckets (incus/storage.go, buckets.go)       *)

\* Each pool's capacity is asked for concurrently, and does without.
ListStoragePools == Get("list") \o BestEffort
GetStoragePool   == Get("subject") \o BestEffort

CreateStoragePool == Sync("create", "ignored")
DeleteStoragePool == Get("subject") \o Refuse("used", "Conflict") \o Sync("delete", "untyped")

ListVolumes  == Get("siblings")
GetVolume    == Get("subject")
CreateVolume == Sync("create", "ignored")
DeleteVolume == Sync("delete", "untyped")

\* A list for both names, the source first.
RenameVolume == Get("siblings") \o Refuse("gone", "NotFound") \o Refuse("taken", "Conflict")
                \o Sync("rename", "untyped")

ListVolumeSnapshots   == Get("siblings")
CreateVolumeSnapshot  == Operation("create", "ignored")
DeleteVolumeSnapshot  == Operation("delete", "ignored")
RenameVolumeSnapshot  == ListVolumeSnapshots \o Refuse("taken", "Conflict")
                         \o Operation("rename", "ignored")
UpdateVolumeSnapshotExpiry == Get("subject") \o Change("update", "read", "ignored", "no")

\* The put's Restore field, on the volume.
RestoreVolumeSnapshot == Get("subject") \o Change("update", "read", "untyped", "no")

\* The uploads: the name and the tarball's index are looked at first.
rejectNonCustomBackup == Local({"Invalid", "error"})
ImportVolume        == Invalid \o rejectNonCustomBackup \o Operation("create", "ignored")
CreateVolumeFromISO == Invalid \o Local({"error"}) \o Operation("create", "ignored")

ListBuckets     == Get("siblings")
CreateBucket    == Sync("create", "ignored")
DeleteBucket    == Sync("delete", "ignored")
ListBucketKeys  == Get("siblings")
CreateBucketKey == Sync("create", "ignored")
DeleteBucketKey == Sync("delete", "ignored")

-----------------------------------------------------------------------------
(* Networks, forwards, ACLs and zones (incus/networks.go, forwards.go,     *)
(* acls.go, zones.go)                                                      *)

ListNetworks  == Get("list")
GetNetwork    == Get("subject")
CreateNetwork == Sync("create", "ignored")
DeleteNetwork == Sync("delete", "untyped")

ListNetworkLeases    == Get("siblings")
GetNetworkState      == Get("siblings")
ListNetworkForwards  == Get("siblings")
CreateNetworkForward == Sync("create", "ignored")
\* No etag: the last write wins.
UpdateNetworkForward == Sync("update", "ignored")
DeleteNetworkForward == Sync("delete", "ignored")

ListNetworkACLs  == Get("list")
GetNetworkACL    == Get("subject")
CreateNetworkACL == Sync("create", "ignored")
RenameNetworkACL == Get("subject") \o Refuse("used", "Conflict")
                    \o ListNetworkACLs \o Refuse("taken", "Conflict")
                    \o Sync("rename", "untyped")
DeleteNetworkACL == Get("subject") \o Refuse("used", "Conflict") \o Sync("delete", "Conflict")

ListNetworkZones  == Get("list")
GetNetworkZone    == Get("subject")
CreateNetworkZone == Sync("create", "ignored")
DeleteNetworkZone == Get("subject") \o Refuse("used", "Conflict") \o Sync("delete", "Conflict")
ListZoneRecords   == Get("siblings")
CreateZoneRecord  == Sync("create", "ignored")
DeleteZoneRecord  == Sync("delete", "ignored")

-----------------------------------------------------------------------------
(* Profiles and projects (incus/profiles.go, projects.go)                  *)

ListProfiles  == Get("list")
GetProfile    == Get("subject")
CreateProfile == Sync("create", "ignored")
\* "default" is neither deleted nor renamed.
DeleteProfile == Invalid \o Get("subject") \o Refuse("used", "Conflict")
                 \o Sync("delete", "Conflict")
RenameProfile == Invalid \o Sync("rename", "ignored")

ListProjects    == Get("list")
GetProject      == Get("subject")
GetProjectUsage == Get("side")
CreateProject   == Sync("create", "ignored")
RenameProject   == Invalid \o Operation("rename", "Conflict")
DeleteProject   == Invalid \o Sync("delete", "Conflict")

-----------------------------------------------------------------------------
(* Images (incus/images.go); the exports are in Export                     *)

\* From the cache under imgMu while it is fresh, else from the images remote.
ListImages      == Maybe(Local({"error"}) \o Get("list"))
ListLocalImages == Get("list")

\* The new image is tagged, if an alias is asked for; an alias that cannot be
\* created takes the image with it (DeleteImage).
Tagged == Maybe(Local({"error"})
                \o OrUndo(Sync("alias", "ignored"), Operation("unpublish", "ignored")))

PublishImage == Get("subject") \o Refuse("used", "Invalid")
                \o Operation("publish", "ignored") \o Tagged

\* A unified tarball as it is; a split image through a temporary file.
splitImageArgs == Local({"Invalid", "error"})
ImportImage == Local({"error"}) \o Maybe(splitImageArgs)
               \o Operation("publish", "ignored") \o Tagged

\* The alias and its image are looked up on the images remote.
copyImageFrom == Get("side") \o Get("side") \o Transfer("create")
CopyImage     == Local({"error"}) \o copyImageFrom

DeleteImage      == Operation("delete", "ignored")
AddImageAlias    == Sync("create", "ignored")
RemoveImageAlias == Sync("delete", "ignored")
UpdateImage      == Get("subject") \o Change("update", "read", "ignored", "no")
RefreshImage     == Invalid \o Operation("act", "ignored")

-----------------------------------------------------------------------------
(* Files (incus/files.go): the subject is the file, in its directory       *)

\* A directory's entries, "siblings" of whatever is in it; each entry's type
\* and mode are asked for, and done without.
ListFiles == Get("siblings") \o Invalid \o BestEffort

\* The content is streamed: not a directory's, nor one beyond the limit.
PullFile     == Get("subject") \o Local({"Invalid", "error"})
PullFileInfo == Get("subject") \o Local({"Invalid", "error"})
\* The first bytes only, and whether there are more.
PullFileHead == Get("subject") \o Local({"error"})

\* Creates or overwrites.
PushFile   == Local({"Invalid", "error"}) \o Sync("put", "ignored")
DeleteFile == Invalid \o Sync("delete", "untyped")

\* The daemon takes a directory that is there already for a success, so the
\* method looks first; any failure to look counts as absence.
MakeDirectory == <<[do |-> "absent"]>> \o Sync("put", "ignored")

-----------------------------------------------------------------------------
(* The server's administration and operations (incus/server.go,            *)
(* operations.go) and the console's log (console.go)                       *)

GetServerOverview == Get("list") \o Get("list")
GetServerHardware == Get("list")
GetServerConfig   == Get("list")

ListCertificates  == Get("list")
\* Not a PEM certificate is refused here.
AddCertificate    == Invalid \o Sync("create", "ignored")
DeleteCertificate == Sync("delete", "ignored")
UpdateCertificate == Invalid \o Get("subject") \o Change("update", "read", "ignored", "no")

ListWarnings       == Get("list")
AcknowledgeWarning == Get("subject") \o Change("update", "read", "ignored", "no")
DeleteWarning      == Sync("delete", "ignored")

ListOperations  == Get("list")
CancelOperation == Sync("act", "untyped")

\* Read to its end, then closed.
ConsoleLog == Get("subject") \o Local({"error"})
=============================================================================

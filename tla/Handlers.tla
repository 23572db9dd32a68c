------------------------------ MODULE Handlers ------------------------------
(***************************************************************************)
(* The handlers of the HTTP layer (server/) as the steps of DriverCalls:   *)
(* what they check of the request, the method of the driver they call, and *)
(* what they read again for the answer.                                    *)
(*                                                                         *)
(* A handler is the set of its requests, as an HTMX request is answered    *)
(* with a fragment and a plain one by a redirection or a page.  The edit   *)
(* forms' handlers are in EditForms, the bulk action in BulkActions, the   *)
(* operations panel's stream in OperationEvents, the selection of a remote *)
(* and a project in Session, the downloads of backups in Export.           *)
(***************************************************************************)
EXTENDS DriverCalls

-----------------------------------------------------------------------------
(* What handlers are made of                                               *)

\* A cross-site request that is no GET is forbidden before all else.
csrfGuard == Local({"Forbidden"})

\* The fields a form must have, or that must parse; a body that does not parse
\* is answered the same.
Form(fields) == Local({"Invalid"})

\* The multipart body within maxUpload, and its file.
parseMultipartUpload == Local({"Invalid", "TooLarge"})

\* A capability the handler asks for itself.
Needs(capability) == Local({"Unsupported"})

\* From here on the answer's page is read.
ThenRead(reads) == <<[do |-> "page"]>> \o reads
Redirect == <<>>

\* A request that changes something: its method of the driver, and its steps.
Request(checks, call, answer) ==
  [call |-> call, steps |-> csrfGuard \o checks \o call \o answer]

\* Answered by a redirection, to both kinds of request.
Post(checks, call) == {Request(checks, call, Redirect)}

\* A fragment with what is read again, or a redirection.
Fragment(checks, call, reads) ==
  {Request(checks, call, ThenRead(reads)), Request(checks, call, Redirect)}

\* Both kinds of request read again.
Reread(checks, call, reads) == {Request(checks, call, ThenRead(reads))}

\* A page or a fragment that is only read.
Read(reads) == {[call |-> <<>>, steps |-> reads]}

\* The sidebar's instances; the switchers do without theirs.
renderShell == ListInstances \o BestEffort
Page(reads) == Read(reads \o renderShell)

\* A list row: its CPU trend and the switcher's remotes do without.
renderInstanceRow == BestEffort

-----------------------------------------------------------------------------
(* instances.go, create.go, move.go, backup.go, handlers.go                *)

\* The list's tiles, trends and the selectors of its create dialog do without.
overview         == BestEffort
createDialogData == BestEffort
list             == Read(ListInstances \o overview \o createDialogData)
instancesPartial == Read(ListInstances \o BestEffort)
sidebar          == Read(ListInstances)
detail == Page(GetInstance \o ListSnapshots) \cup Read(GetInstance \o ListSnapshots)

\* The action, then the instance again, whatever the answer is to be.
instanceAction(action) == Reread(<<>>, action, GetInstance \o renderInstanceRow)
start   == instanceAction(StartInstance)
stop    == instanceAction(StopInstance)
restart == instanceAction(RestartInstance)
pause   == instanceAction(PauseInstance)
resume  == instanceAction(ResumeInstance)

delete == Post(Form({"confirm"}), DeleteInstance)
rescue == Reread(Needs("Pause, Snapshots"), CreateSnapshot \o PauseInstance, GetInstance)
clone  == Reread(Form({"dst"}), CloneInstance, Get("target") \o renderInstanceRow)

imagePicker      == Read(ListImages)
\* The image must be one of the catalogue.
imageByFingerprint == ListImages \o Local({"Invalid"})
createForm  == Read(Redirect)
create      == Reread(Form({"name", "image", "tags"}) \o imageByFingerprint,
                      CreateInstance, Get("target") \o renderInstanceRow)
rebuildForm == Read(GetInstance \o ListImages)
rebuild     == Post(Form({"image", "confirm"}) \o imageByFingerprint, RebuildInstance)

renameInstance == Post(Form({"new_name"}), RenameInstance)
moveInstance   == Post(Form({"pool"}), MoveInstance)

importForm == Read(Redirect)
importInstance == Fragment(parseMultipartUpload \o Form({"name", "backup"}),
                           ImportInstance, Get("target"))

\* remotes.go: to another remote than the one the request is for.
currentRemote   == BestEffort
migrateInstance == Post(Form({"target"}) \o currentRemote \o Local({"Invalid"}),
                        MigrateInstance)

-----------------------------------------------------------------------------
(* snapshots.go, storedbackups.go                                          *)

parseSnapshotExpiry == Local({"Invalid"})

renderSnapshotsOrRedirect(checks, call) == Fragment(checks, call, ListSnapshots)
createSnapshot == renderSnapshotsOrRedirect(
  Needs("Snapshots") \o Form({"snapshot"}) \o parseSnapshotExpiry, CreateSnapshot)
renameSnapshot == renderSnapshotsOrRedirect(Form({"new_name"}), RenameSnapshot)
updateSnapshotExpiry == renderSnapshotsOrRedirect(
  Form({"expires_at"}) \o parseSnapshotExpiry, UpdateSnapshotExpiry)
restoreSnapshot == renderSnapshotsOrRedirect(<<>>, RestoreSnapshot)
deleteSnapshot  == renderSnapshotsOrRedirect(<<>>, DeleteSnapshot)

snapshotSchedule    == Read(GetSnapshotSchedule)
setSnapshotSchedule == Fragment(Form({"schedule", "expiry", "pattern"}),
                                SetSnapshotSchedule, GetSnapshotSchedule)

redirectOrPanel(checks, call) == Fragment(checks, call, ListInstanceBackups)
backupsPanel         == Read(ListInstanceBackups)
createStoredBackup   == redirectOrPanel(Form({"expires_at"}) \o parseSnapshotExpiry,
                                        CreateInstanceBackup)
deleteStoredBackup   == redirectOrPanel(<<>>, DeleteInstanceBackup)
restoreStoredBackup  == Post(Form({"new_name"}), RestoreInstanceBackup)

-----------------------------------------------------------------------------
(* storage.go, volumebackups.go, buckets.go                                *)

storagePools   == Page(ListStoragePools)
storagePool    == Page(GetStoragePool \o ListVolumes
                       \o Maybe(ListBuckets \o Maybe(ListBucketKeys)))
poolCreateForm == Page(<<>>)
createPool     == Post(Form({"name", "driver"}), CreateStoragePool)
deletePool     == Post(<<>>, DeleteStoragePool)

renderVolumesOrRedirect(checks, call) == Fragment(checks, call, ListVolumes)
createVolume == renderVolumesOrRedirect(Form({"name", "content_type"}), CreateVolume)
deleteVolume == renderVolumesOrRedirect(<<>>, DeleteVolume)

storageVolume == Page(GetVolume \o ListVolumeSnapshots
                      \o Maybe(ListVolumeBackups \o ListStoragePools))
renameVolume    == Post(Form({"new_name"}), RenameVolume)
importVolume    == Post(parseMultipartUpload \o Form({"name", "backup"}), ImportVolume)
uploadISOVolume == Post(parseMultipartUpload \o Form({"name", "iso"}), CreateVolumeFromISO)

renderVolumeSnapshotsOrRedirect(checks, call) == Fragment(checks, call, ListVolumeSnapshots)
createVolumeSnapshot  == renderVolumeSnapshotsOrRedirect(Form({"snapshot"}),
                                                         CreateVolumeSnapshot)
restoreVolumeSnapshot == renderVolumeSnapshotsOrRedirect(<<>>, RestoreVolumeSnapshot)
deleteVolumeSnapshot  == renderVolumeSnapshotsOrRedirect(<<>>, DeleteVolumeSnapshot)
renameVolumeSnapshot  == renderVolumeSnapshotsOrRedirect(Form({"new_name"}),
                                                         RenameVolumeSnapshot)
updateVolumeSnapshotExpiry == renderVolumeSnapshotsOrRedirect(
  Form({"expires_at"}) \o parseSnapshotExpiry, UpdateVolumeSnapshotExpiry)

redirectOrVolumeBackups(checks, call) ==
  Fragment(checks, call, ListVolumeBackups \o ListStoragePools)
volumeBackupsPanel  == Read(ListVolumeBackups \o ListStoragePools)
createVolumeBackup  == redirectOrVolumeBackups(
  Form({"expires_at"}) \o parseSnapshotExpiry, CreateVolumeBackup)
deleteVolumeBackup  == redirectOrVolumeBackups(<<>>, DeleteVolumeBackup)
restoreVolumeBackup == Post(Form({"new_name"}), RestoreVolumeBackup)

createBucket    == Post(Form({"name"}), CreateBucket)
deleteBucket    == Post(<<>>, DeleteBucket)
createBucketKey == Post(Form({"name", "role"}), CreateBucketKey)
deleteBucketKey == Post(Form({"key"}), DeleteBucketKey)

-----------------------------------------------------------------------------
(* networks.go, acls.go, zones.go                                          *)

networks      == Page(ListNetworks)
networkDetail == Page(GetNetwork \o Maybe(GetNetworkState \o ListNetworkLeases
                                          \o Maybe(ListNetworkForwards)))
networkCreateForm == Page(<<>>)
createNetwork == Post(Form({"name", "type"}), CreateNetwork)
deleteNetwork == Fragment(<<>>, DeleteNetwork, ListNetworks)
createNetworkForward == Post(Form({"listen_address"}), CreateNetworkForward)
updateNetworkForward == Post(Form({"ports"}), UpdateNetworkForward)
deleteNetworkForward == Post(<<>>, DeleteNetworkForward)

networkACLs      == Page(ListNetworkACLs)
networkACLDetail == Page(GetNetworkACL)
createNetworkACL == Post(Form({"name"}), CreateNetworkACL)
renameNetworkACL == Post(Form({"new_name"}), RenameNetworkACL)
deleteNetworkACL == Post(<<>>, DeleteNetworkACL)

networkZones      == Page(ListNetworkZones)
networkZoneDetail == Page(GetNetworkZone \o ListZoneRecords)
createNetworkZone == Post(Form({"name"}), CreateNetworkZone)
deleteNetworkZone == Post(<<>>, DeleteNetworkZone)
addZoneRecord     == Post(Form({"record", "type", "value", "ttl"}), CreateZoneRecord)
deleteZoneRecord  == Post(<<>>, DeleteZoneRecord)

-----------------------------------------------------------------------------
(* profiles.go, projects.go, config.go                                     *)

profiles      == Page(ListProfiles)
profileDetail == Page(GetProfile)
createProfile == Post(Form({"name"}), CreateProfile)
deleteProfile == Post(<<>>, DeleteProfile)
renameProfile == Post(Form({"new_name"}), RenameProfile)

projectsPage  == Page(ListProjects \o Maybe(GetProjectUsage))
projectDetail == Page(GetProject)
createProject == Post(Form({"name"}), CreateProject)
renameProject == Post(Form({"new_name"}), RenameProject)
deleteProject == Post(<<>>, DeleteProject)

renderConfig == Read(GetInstance \o Maybe(GetInstanceConfig) \o Maybe(ListProfiles))
config       == renderConfig
devicesPanel == Read(GetInstanceConfig)

\* console.go; the session itself is in Console.
console == Page(GetInstance)
logs    == Read(ConsoleLog)

-----------------------------------------------------------------------------
(* images.go, files.go                                                     *)

imagesPage == Page(ListLocalImages)
imageAction(checks, call) == Fragment(checks, call, ListLocalImages)
copyImage    == imageAction(Form({"alias"}), CopyImage)
publishImage == imageAction(Form({"instance"}), PublishImage)
deleteImage  == imageAction(<<>>, DeleteImage)
updateImage  == imageAction(Form({"expires_at"}), UpdateImage)
refreshImage == imageAction(<<>>, RefreshImage)
importImage  == Post(parseMultipartUpload \o Form({"image"}), ImportImage)
addImageAlias    == imageAction(Form({"alias"}), AddImageAlias)
removeImageAlias == imageAction(<<>>, RemoveImageAlias)

\* A path must be absolute.
requestPath == Local({"Invalid"})
renderFiles(checks, call) == Fragment(checks, call, ListFiles)
filesPanel    == Read(requestPath \o ListFiles)
downloadFile  == Read(requestPath \o PullFile)
\* Only a file is viewed, and only a text edited.
viewFile      == Page(requestPath \o PullFileHead \o Invalid)
editFileForm  == Page(requestPath \o PullFileInfo \o Invalid)
uploadFile    == renderFiles(parseMultipartUpload \o Form({"path", "file"}), PushFile)
\* What was edited is pushed over whatever the file has become.
saveFile      == Post(requestPath \o Local({"Invalid", "TooLarge"}), PushFile)
deleteFile    == renderFiles(requestPath, DeleteFile)
makeDirectory == renderFiles(requestPath \o Form({"name"}), MakeDirectory)

-----------------------------------------------------------------------------
(* admin.go, operations.go                                                 *)

serverPage == Page(GetServerOverview \o GetServerConfig \o ListCertificates
                   \o ListWarnings \o Maybe(GetServerHardware))
addCertificate == Post(Local({"TooLarge"}) \o Form({"name", "type", "certificate"}),
                       AddCertificate)
renderCertificates(checks, call) == Fragment(checks, call, ListCertificates)
deleteCertificate == renderCertificates(<<>>, DeleteCertificate)
updateCertificate == renderCertificates(Form({"name"}), UpdateCertificate)
renderWarnings(call) == Fragment(<<>>, call, ListWarnings)
deleteWarning == renderWarnings(DeleteWarning)
ackWarning    == renderWarnings(AcknowledgeWarning)

operationsPanel == Read(ListOperations)
cancelOperation == Fragment(<<>>, CancelOperation, ListOperations)

-----------------------------------------------------------------------------
\* The requests of the routes (server.go), by what they do.
Changes == UNION {
  start, stop, restart, pause, resume, delete, rescue, clone, create, rebuild,
  renameInstance, moveInstance, importInstance, migrateInstance,
  createSnapshot, renameSnapshot, updateSnapshotExpiry, restoreSnapshot,
  deleteSnapshot, setSnapshotSchedule, createStoredBackup, deleteStoredBackup,
  restoreStoredBackup, createPool, deletePool, createVolume, deleteVolume,
  renameVolume, importVolume, uploadISOVolume, createVolumeSnapshot,
  restoreVolumeSnapshot, deleteVolumeSnapshot, renameVolumeSnapshot,
  updateVolumeSnapshotExpiry, createVolumeBackup, deleteVolumeBackup,
  restoreVolumeBackup, createBucket, deleteBucket, createBucketKey,
  deleteBucketKey, createNetwork, deleteNetwork, createNetworkForward,
  updateNetworkForward, deleteNetworkForward, createNetworkACL,
  renameNetworkACL, deleteNetworkACL, createNetworkZone, deleteNetworkZone,
  addZoneRecord, deleteZoneRecord, createProfile, deleteProfile, renameProfile,
  createProject, renameProject, deleteProject, copyImage, publishImage,
  deleteImage, updateImage, refreshImage, importImage, addImageAlias,
  removeImageAlias, uploadFile, saveFile, deleteFile, makeDirectory,
  addCertificate, deleteCertificate, updateCertificate, deleteWarning,
  ackWarning, cancelOperation}

Reads == UNION {
  list, instancesPartial, sidebar, detail, imagePicker, rebuildForm,
  snapshotSchedule, backupsPanel, storagePools, storagePool, poolCreateForm,
  storageVolume, volumeBackupsPanel, networks, networkDetail,
  networkCreateForm, networkACLs, networkACLDetail, networkZones,
  networkZoneDetail, profiles, profileDetail, projectsPage, projectDetail,
  config, devicesPanel, createForm, importForm, console, logs, imagesPage,
  filesPanel, downloadFile, viewFile, editFileForm, serverPage,
  operationsPanel}
=============================================================================

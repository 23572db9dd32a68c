----------------------------- MODULE FakeStorage ----------------------------
(* The in-memory backend's storage pools, custom volumes, buckets and      *)
(* images (fake/{storage,buckets,images}.go).                              *)
EXTENDS FakeSpaces

SetStorage(p, v, b) ==
  /\ pools' = p /\ volumes' = v /\ buckets' = b
  /\ UNCHANGED <<uses, projects, spaces>>

-----------------------------------------------------------------------------
(* Plausible bugs, substituted for the definitions below by the mutants.   *)

DefaultSpaceUsers(pl) ==
  {x \in {default} \X Instances :
     HasInstance(x[1], x[2]) /\ spaces[x[1]].instances[x[2]].device.pool = pl}
  \cup {v \in volumes : v[1] = pl}
RequestersOnly(p) == {p}

-----------------------------------------------------------------------------
(* Pools                                                                   *)

CreateStoragePool(pl) ==
  /\ pl \notin pools
  /\ SetStorage(pools \cup {pl}, volumes, buckets)

\* poolUsedBy: instances' and profiles' own devices in every space, and volumes;
\* buckets are not counted.
PoolUsers(pl) ==
  {x \in Projects \X Instances :
     HasInstance(x[1], x[2]) /\ spaces[x[1]].instances[x[2]].device.pool = pl}
  \cup {x \in Projects \X ProfileNames :
          /\ x[2] \in DOMAIN spaces[x[1]].profiles
          /\ spaces[x[1]].profiles[x[2]].pool = pl}
  \cup {v \in volumes : v[1] = pl}

DeleteStoragePool(pl) ==
  /\ pl \in pools /\ PoolUsers(pl) = {}
  /\ SetStorage(pools \ {pl}, volumes, {b \in buckets : b[1] # pl})

PoolStep == \E pl \in Pools : CreateStoragePool(pl) \/ DeleteStoragePool(pl)

-----------------------------------------------------------------------------
(* Volumes                                                                 *)

\* A volume by its pool, the project that owns it for p, and its name.
Volume(p, pl, v) == <<pl, Owner(p, "volumes"), v>>

\* Created empty, from an ISO or from a backup.
CreateVolume(p, pl, v) ==
  /\ pl \in pools /\ Volume(p, pl, v) \notin volumes
  /\ SetStorage(pools, volumes \cup {Volume(p, pl, v)}, buckets)

\* Nobody asks who has it attached.
DeleteVolume(p, pl, v) ==
  /\ Volume(p, pl, v) \in volumes
  /\ SetStorage(pools, volumes \ {Volume(p, pl, v)}, buckets)

\* The projects whose instances a renaming looks at.
Attaching(p) == Sharers(Owner(p, "volumes"), "volumes")

\* The instances that have the volume attached.
Attached(p, pl, v) ==
  {x \in Attaching(p) \X Instances :
     /\ HasInstance(x[1], x[2])
     /\ spaces[x[1]].instances[x[2]].device.pool = pl
     /\ spaces[x[1]].instances[x[2]].device.source = v}

\* A project's instances, those of the users with the new name in their device.
Reattached(instances, q, users, w) ==
  [i \in DOMAIN instances |->
     IF <<q, i>> \notin users THEN instances[i]
     ELSE [instances[i] EXCEPT !.device.source = w]]

\* An instance that runs keeps its volume from being renamed; the others'
\* devices follow, but no profile's.
RenameVolume(p, pl, v, w) ==
  /\ Volume(p, pl, v) \in volumes
  /\ Volume(p, pl, w) \notin volumes
  /\ \A x \in Attached(p, pl, v) : spaces[x[1]].instances[x[2]].status # "Running"
  /\ spaces' = [q \in Projects |->
       [spaces[q] EXCEPT !.instances = Reattached(@, q, Attached(p, pl, v), w)]]
  /\ volumes' = (volumes \ {Volume(p, pl, v)}) \cup {Volume(p, pl, w)}
  /\ UNCHANGED <<uses, projects, pools, buckets>>

VolumeStep ==
  \E p \in Callers, pl \in Pools, v \in Volumes :
    \/ CreateVolume(p, pl, v) \/ DeleteVolume(p, pl, v)
    \/ \E w \in Volumes : RenameVolume(p, pl, v, w)

-----------------------------------------------------------------------------
(* Buckets                                                                 *)

Bucket(p, pl, b) == <<pl, Owner(p, "buckets"), b>>

CreateBucket(p, pl, b) ==
  /\ pl \in pools /\ Bucket(p, pl, b) \notin buckets
  /\ SetStorage(pools, volumes, buckets \cup {Bucket(p, pl, b)})

DeleteBucket(p, pl, b) ==
  /\ Bucket(p, pl, b) \in buckets
  /\ SetStorage(pools, volumes, buckets \ {Bucket(p, pl, b)})

BucketStep ==
  \E p \in Callers, pl \in Pools, b \in Buckets : CreateBucket(p, pl, b) \/ DeleteBucket(p, pl, b)

-----------------------------------------------------------------------------
(* Images                                                                  *)

ImageSpace(p) == spaces[Owner(p, "images")]

SetImages(p, f) ==
  /\ spaces' = [spaces EXCEPT ![Owner(p, "images")].images = f]
  /\ UNCHANGED <<uses, projects, storage>>

aliasOwner(sp, alias) == {f \in DOMAIN sp.images : alias \in sp.images[f]}

Free(p, alias) == alias = None \/ aliasOwner(ImageSpace(p), alias) = {}

Tags(alias) == {alias} \ {None}

\* There is, or there may be by the bound of the model, such an image.
ImageRoom(p, f) ==
  \/ f \in DOMAIN ImageSpace(p).images
  \/ Cardinality({x \in Projects \X AllFingerprints : x[2] \in DOMAIN spaces[x[1]].images}) < MaxImages

\* The fingerprint is the instance's name and the second; it is new, because the
\* backend's clock advances by a second on every reading (now).
PublishImage(p, i, second, alias) ==
  /\ <<i, second>> \notin DOMAIN ImageSpace(p).images
  /\ HasInstance(p, i) /\ spaces[p].instances[i].status # "Running"
  /\ Free(p, alias)
  /\ ImageRoom(p, <<i, second>>)
  /\ SetImages(p, With(ImageSpace(p).images, <<i, second>>, Tags(alias)))

\* A catalog image, here named by its alias, which nobody checks to be free.
CopyImage(p, alias) ==
  /\ alias \in Catalog \ DOMAIN ImageSpace(p).images
  /\ ImageRoom(p, alias)
  /\ SetImages(p, With(ImageSpace(p).images, alias, {alias}))

ImportImage(p, f, alias) ==
  /\ f \notin DOMAIN ImageSpace(p).images
  /\ Free(p, alias)
  /\ ImageRoom(p, f)
  /\ SetImages(p, With(ImageSpace(p).images, f, Tags(alias)))

DeleteImage(p, f) ==
  /\ f \in DOMAIN ImageSpace(p).images
  /\ SetImages(p, Without(ImageSpace(p).images, f))

AddImageAlias(p, f, alias) ==
  /\ f \in DOMAIN ImageSpace(p).images
  /\ Free(p, alias)
  /\ SetImages(p, [ImageSpace(p).images EXCEPT ![f] = @ \cup {alias}])

RemoveImageAlias(p, alias) ==
  \E f \in aliasOwner(ImageSpace(p), alias) :
    SetImages(p, [ImageSpace(p).images EXCEPT ![f] = @ \ {alias}])

ImageStep ==
  \E p \in Callers :
    \/ \E alias \in Aliases \cup {None} :
         \/ \E i \in Instances, t \in Seconds : PublishImage(p, i, t, alias)
         \/ \E f \in Fingerprints : ImportImage(p, f, alias)
    \/ \E f \in AllFingerprints :
         DeleteImage(p, f) \/ \E alias \in Aliases : AddImageAlias(p, f, alias)
    \/ \E alias \in Aliases : CopyImage(p, alias) \/ RemoveImageAlias(p, alias)
=============================================================================

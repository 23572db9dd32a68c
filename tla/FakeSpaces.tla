----------------------------- MODULE FakeSpaces -----------------------------
(***************************************************************************)
(* The state of the in-memory backend (fake/fake.go) and its operations on *)
(* projects, instances and profiles (fake/{projects,instances,config,      *)
(* profiles,move,remotes,backup}.go).  Every method holds one mutex from   *)
(* its first to its last access, so every successful call is one action;   *)
(* a refused call changes nothing.                                         *)
(*                                                                         *)
(* A call's context names a project, which need not exist (any more): the  *)
(* code makes a space for it.  A kind of resource that the project does    *)
(* not own is found in the default project's space.                        *)
(*                                                                         *)
(* Data abstraction: one remote; the others are where MigrateInstance      *)
(* sends instances to and takes them from.  A resource is its references   *)
(* to others.  Configurations have at most one device, named the same      *)
(* everywhere, so that an instance's shadows its profiles'.  Names that    *)
(* validation refuses are left out; version counters are in FakeVersions,  *)
(* snapshots, files and backups in FakeContents.                           *)
(***************************************************************************)
EXTENDS Integers, Sequences, FiniteSets

CONSTANTS
  default,       \* name of the default project and of the default profiles
  None,          \* an absent name
  Others,        \* names of other projects
  Instances,     \* names of instances
  Profiles,      \* names of profiles besides default
  Networks, ACLs, Zones, Records,
  Pools, Volumes, Buckets,
  Fingerprints,  \* of images from files
  Seconds,       \* times at which instances are published
  Aliases,       \* aliases of images
  Catalog,       \* the aliases that the image catalog offers
  Statuses,      \* instance states: "Running", "Stopped", "Frozen"
  Clients,       \* bound of the model: sets of groups of operations, one of
                 \* which the clients of a behaviour use
  AttachedACLs,  \* bound of the model: ACLs that configurations name
  MaxInstances,  \* bound of the model: instances at a time
  MaxImages      \* bound of the model: images at a time

AllFingerprints == Fingerprints \cup Catalog \cup (Instances \X Seconds)

Groups == {"projects", "instances", "power", "profiles", "devices", "networks",
           "zones", "pools", "volumes", "buckets", "images"}

ASSUME SpacesAssumption ==
  /\ default \notin Others \cup Profiles
  /\ None \notin Networks \cup Pools \cup Volumes \cup Aliases
  /\ Catalog \subseteq Aliases
  /\ AttachedACLs \subseteq ACLs
  /\ "Stopped" \in Statuses
  /\ Clients \subseteq SUBSET Groups
  /\ MaxInstances \in Nat
  /\ MaxImages \in Nat

\* The program's maps are finite: the names are those that a behaviour uses.
ASSUME NamesAreFinite ==
  /\ IsFiniteSet(Others) /\ IsFiniteSet(Instances) /\ IsFiniteSet(Profiles)
  /\ IsFiniteSet(Networks) /\ IsFiniteSet(ACLs) /\ IsFiniteSet(Pools) /\ IsFiniteSet(Volumes)
  /\ IsFiniteSet(Fingerprints) /\ IsFiniteSet(Seconds) /\ IsFiniteSet(Catalog)

Projects == Others \cup {default}
ProfileNames == Profiles \cup {default}

Features == {"profiles", "networks", "zones", "volumes", "buckets", "images"}

\* A device: a nic with its network and security.acls, a disk with its pool and
\* source, or none at all.
Device == [network : Networks \cup {None}, acls : SUBSET ACLs,
           pool : Pools \cup {None}, source : Volumes \cup {None}]
NoDevice == [network |-> None, acls |-> {}, pool |-> None, source |-> None]
Nic(n, a) == [NoDevice EXCEPT !.network = n, !.acls = a]
Disk(p, v) == [NoDevice EXCEPT !.pool = p, !.source = v]

\* A network's security.acls and dns.zone.* keys.
NetworkConfig == [acls : SUBSET ACLs, zones : SUBSET Zones]

Instance == [status : Statuses, profiles : Seq(ProfileNames), device : Device]

\* A partial function from S to T.
IsMap(f, S, T) == DOMAIN f \subseteq S /\ \A x \in DOMAIN f : f[x] \in T

VARIABLES
  uses,      \* the groups of operations in use
  projects,  \* the projects there are, with the features each has enabled
  spaces,    \* per project name: its space; an absent one is an empty one
  pools,     \* the storage pools
  volumes,   \* pools' custom volumes: <<pool, project, name>>
  buckets    \* pools' buckets: <<pool, project, name>>

vars == <<uses, projects, spaces, pools, volumes, buckets>>
storage == <<pools, volumes, buckets>>

newSpace ==
  [instances |-> <<>>, profiles |-> <<>>, networks |-> <<>>, acls |-> {},
   zones |-> {}, records |-> {}, images |-> <<>>]

\* Fields of a space that map names to resources.
Only(x, v) == [y \in {x} |-> v]
With(f, x, v) == [y \in DOMAIN f \cup {x} |-> IF y = x THEN v ELSE f[y]]
Without(f, x) == [y \in DOMAIN f \ {x} |-> f[y]]

On(group) == group \in uses

\* The projects that requests name: the server has looked them up, so that only
\* one that goes away meanwhile can be missing.
Callers == IF On("projects") THEN Projects ELSE DOMAIN projects

-----------------------------------------------------------------------------
(* Routing                                                                 *)

\* featureProjectName: the project whose space holds p's resources of a kind.
Owner(p, feature) ==
  IF p \in DOMAIN projects /\ feature \in projects[p] THEN p ELSE default

Sharers(owner, feature) == {p \in Projects : Owner(p, feature) = owner}

\* The profiles an instance of project p names, as p sees them.
ProfilesSeen(p) == spaces[Owner(p, "profiles")].profiles

\* expandedDevices: the instance's own device, or else that of the last of its
\* profiles that has one.
Expanded(p, i) ==
  LET in == spaces[p].instances[i]
      seen == ProfilesSeen(p)
      having == {k \in DOMAIN in.profiles :
                   /\ in.profiles[k] \in DOMAIN seen
                   /\ seen[in.profiles[k]] # NoDevice}
  IN IF in.device # NoDevice THEN in.device
     ELSE IF having = {} THEN NoDevice
     ELSE seen[in.profiles[CHOOSE k \in having : \A j \in having : j <= k]]

-----------------------------------------------------------------------------
(* Plausible bugs, substituted for the definitions below by the mutants.   *)

UsedByIgnoringVolumes(p) ==
  {<<"instance", i>> : i \in DOMAIN spaces[p].instances}
  \cup {<<"profile", n>> : n \in DOMAIN spaces[p].profiles}
  \cup {<<"image", f>> : f \in DOMAIN spaces[p].images}
  \cup {<<"network", n>> : n \in DOMAIN spaces[p].networks}
  \cup {<<"acl", a>> : a \in spaces[p].acls}
RequestersInstances(p) == {{<<p, i>> : i \in DOMAIN spaces[p].instances}}

-----------------------------------------------------------------------------
(* Projects                                                                *)

\* projectUsedBy: what lives in the project's own namespaces; buckets and zones
\* are not counted.
UsedBy(p) ==
  LET sp == spaces[p] IN
  {<<"instance", i>> : i \in DOMAIN sp.instances}
  \cup {<<"profile", n>> : n \in DOMAIN sp.profiles}
  \cup {<<"image", f>> : f \in DOMAIN sp.images}
  \cup (IF Owner(p, "networks") = p
        THEN {<<"network", n>> : n \in DOMAIN sp.networks}
             \cup {<<"acl", a>> : a \in sp.acls}
        ELSE {})
  \cup {<<"volume", v>> : v \in {w \in volumes : w[2] = p}}

IsEmpty(p) == UsedBy(p) \subseteq {<<"profile", default>>}

\* Bound of the model: only features of the kinds in use vary.
FeatureSets ==
  {(({"profiles", "volumes", "images"} \ uses) \cup s) : s \in SUBSET (Features \cap uses)}

\* A project with profiles of its own has a default one from the start; what a
\* request to a project of the name has left in its space stays.
CreatedSpace(features) ==
  IF "profiles" \in features THEN [newSpace EXCEPT !.profiles = Only(default, NoDevice)] ELSE newSpace

CreateProject(p, features) ==
  /\ p \in Others \ DOMAIN projects
  /\ projects' = With(projects, p, features)
  /\ spaces' = [spaces EXCEPT ![p].profiles =
                  IF "profiles" \in features THEN With(@, default, NoDevice) ELSE @]
  /\ UNCHANGED <<uses, storage>>

\* Enabling zones is the one change of features a project with resources may see.
FeatureChanged(p, features) ==
  (projects[p] \ features) \cup (features \ (projects[p] \cup {"zones"})) # {}

\* The default project's features decide nothing, so that their change is left out.
UpdateProject(p, features) ==
  /\ p \in DOMAIN projects \ {default}
  /\ FeatureChanged(p, features) => IsEmpty(p)
  /\ projects' = [projects EXCEPT ![p] = features]
  /\ UNCHANGED <<uses, spaces, storage>>

\* The space and the volumes follow; the buckets stay under the old name.
RenameProject(p, q) ==
  /\ p \in DOMAIN projects \ {default}
  /\ q \in Others \ DOMAIN projects
  /\ projects' = With(Without(projects, p), q, projects[p])
  /\ spaces' = [spaces EXCEPT ![q] = spaces[p], ![p] = newSpace]
  /\ volumes' = {IF v[2] = p THEN <<v[1], q, v[3]>> ELSE v : v \in volumes}
  /\ UNCHANGED <<uses, pools, buckets>>

DeleteProject(p) ==
  /\ p \in DOMAIN projects \ {default}
  /\ IsEmpty(p)
  /\ projects' = Without(projects, p)
  /\ spaces' = [spaces EXCEPT ![p] = newSpace]
  /\ volumes' = {v \in volumes : v[2] # p}
  /\ UNCHANGED <<uses, pools, buckets>>

ProjectStep ==
  \E p \in Others :
    \/ \E fs \in FeatureSets : CreateProject(p, fs) \/ UpdateProject(p, fs)
    \/ \E q \in Others : RenameProject(p, q)
    \/ DeleteProject(p)

-----------------------------------------------------------------------------
(* Instances                                                               *)

SetInstances(p, f) ==
  /\ spaces' = [spaces EXCEPT ![p].instances = f]
  /\ UNCHANGED <<uses, projects, storage>>

HasInstance(p, i) == i \in DOMAIN spaces[p].instances

Room == Cardinality({x \in Projects \X Instances : HasInstance(x[1], x[2])}) < MaxInstances

\* The options name a network or a pool, or neither; profiles are looked up in
\* the request's own space.
CreateInstance(p, i, profiles, device, status) ==
  /\ ~HasInstance(p, i) /\ Room
  /\ \A k \in DOMAIN profiles : profiles[k] \in DOMAIN spaces[p].profiles
  /\ device.pool # None => device.pool \in pools /\ device.source = None
  /\ device.network # None =>
       /\ device.network \in DOMAIN spaces[Owner(p, "networks")].networks
       /\ device.acls = {}
  /\ status \in {"Running", "Stopped"}
  /\ SetInstances(p, With(spaces[p].instances, i,
       [status |-> status, device |-> device,
        profiles |-> IF profiles = <<>> THEN <<default>> ELSE profiles]))

\* Start, stop, restart, pause and resume.
setStatus(p, i, status) ==
  /\ HasInstance(p, i)
  /\ SetInstances(p, [spaces[p].instances EXCEPT ![i].status = status])

\* Deletion; or, of a stopped instance, migration to another remote.
DeleteInstance(p, i) ==
  /\ HasInstance(p, i)
  /\ SetInstances(p, Without(spaces[p].instances, i))

\* An instance arrives from another remote, with the profiles and the device
\* it had there.
MigrateInstance(i, profiles, device) ==
  /\ ~HasInstance(default, i) /\ Room
  /\ SetInstances(default, With(spaces[default].instances, i,
       [status |-> "Stopped", profiles |-> profiles, device |-> device]))

\* The remote that is migrated to may be the one migrated from.
MigrateWithin(p, i, j) ==
  /\ HasInstance(p, i) /\ spaces[p].instances[i].status = "Stopped"
  /\ ~HasInstance(default, j)
  /\ LET left == [spaces EXCEPT ![p].instances = Without(@, i)] IN
     spaces' = [left EXCEPT ![default].instances = With(@, j, spaces[p].instances[i])]
  /\ UNCHANGED <<uses, projects, storage>>

CloneInstance(p, i, j) ==
  /\ HasInstance(p, i) /\ ~HasInstance(p, j) /\ Room
  /\ SetInstances(p, With(spaces[p].instances, j,
       [spaces[p].instances[i] EXCEPT !.status = "Stopped"]))

RenameInstance(p, i, j) ==
  /\ HasInstance(p, i) /\ ~HasInstance(p, j)
  /\ SetInstances(p, With(Without(spaces[p].instances, i), j, spaces[p].instances[i]))

\* From an export or a stored backup, which keep neither profiles nor devices.
ImportInstance(p, i) ==
  /\ ~HasInstance(p, i) /\ Room
  /\ SetInstances(p, With(spaces[p].instances, i,
       [status |-> "Stopped", profiles |-> <<>>, device |-> NoDevice]))

\* Adding replaces a device of that name; updating needs one.
AddDevice(p, i, device) ==
  /\ HasInstance(p, i)
  /\ SetInstances(p, [spaces[p].instances EXCEPT ![i].device = device])

UpdateDevice(p, i, device) ==
  /\ HasInstance(p, i) /\ spaces[p].instances[i].device # NoDevice
  /\ SetInstances(p, [spaces[p].instances EXCEPT ![i].device = device])

RemoveDevice(p, i) ==
  /\ HasInstance(p, i) /\ spaces[p].instances[i].device # NoDevice
  /\ SetInstances(p, [spaces[p].instances EXCEPT ![i].device = NoDevice])

SetInstanceProfiles(p, i, profiles) ==
  /\ HasInstance(p, i)
  /\ \A k \in DOMAIN profiles : profiles[k] \in DOMAIN ProfilesSeen(p)
  /\ SetInstances(p, [spaces[p].instances EXCEPT ![i].profiles = profiles])

\* Bound of the model: lists of at most one profile.
ProfileLists == IF On("profiles") THEN {<<>>} \cup {<<n>> : n \in ProfileNames} ELSE {<<default>>}

\* Bound of the model: devices of the kinds in use, security.acls of at most one.
ACLLists == {{}} \cup {{a} : a \in AttachedACLs}

Devices ==
  {NoDevice} \cup (IF On("networks") THEN {Nic(n, a) : n \in Networks, a \in ACLLists} ELSE {})
             \cup (IF On("pools") THEN {Disk(p, None) : p \in Pools} ELSE {})
             \cup (IF On("volumes") THEN {Disk(p, v) : p \in Pools, v \in Volumes} ELSE {})

\* Bound of the model: unless power is in use, everything is stopped.
States == IF On("power") THEN Statuses ELSE {"Stopped"}

InstanceStep ==
  \/ \E p \in Callers, i \in Instances :
       \/ \E ps \in ProfileLists, d \in Devices, s \in States : CreateInstance(p, i, ps, d, s)
       \/ \E s \in States : setStatus(p, i, s)
       \/ DeleteInstance(p, i)
       \/ \E j \in Instances : CloneInstance(p, i, j) \/ RenameInstance(p, i, j)
                               \/ MigrateWithin(p, i, j)
       \/ ImportInstance(p, i)
  \/ \E i \in Instances, ps \in ProfileLists, d \in Devices : MigrateInstance(i, ps, d)

DeviceStep ==
  \E p \in Callers, i \in Instances :
    \/ \E d \in Devices \ {NoDevice} : AddDevice(p, i, d) \/ UpdateDevice(p, i, d)
    \/ RemoveDevice(p, i)

-----------------------------------------------------------------------------
(* Profiles                                                                *)

SetProfiles(p, f) ==
  /\ spaces' = [spaces EXCEPT ![Owner(p, "profiles")].profiles = f]
  /\ UNCHANGED <<uses, projects, storage>>

\* The instances of every project that shares p's namespace for a feature, as
\* profileUsers and networkUsers collect them: by name, so that of instances of
\* one name in several projects one is kept, whichever is met last.
UsersByName(p, feature) ==
  LET all == {x \in Sharers(Owner(p, feature), feature) \X Instances :
                HasInstance(x[1], x[2])}
  IN {S \in SUBSET all :
        /\ \A x \in all : \E y \in S : y[2] = x[2]
        /\ \A x, y \in S : x[2] = y[2] => x = y}

profileUsers(p) == UsersByName(p, "profiles")

NamesProfile(x, n) ==
  \E k \in DOMAIN spaces[x[1]].instances[x[2]].profiles :
    spaces[x[1]].instances[x[2]].profiles[k] = n

CreateProfile(p, n) ==
  /\ n \notin DOMAIN ProfilesSeen(p)
  /\ SetProfiles(p, With(ProfilesSeen(p), n, NoDevice))

DeleteProfile(p, n) ==
  /\ n \in DOMAIN ProfilesSeen(p) \ {default}
  /\ \E users \in profileUsers(p) : \A x \in users : ~NamesProfile(x, n)
  /\ SetProfiles(p, Without(ProfilesSeen(p), n))

\* A project's instances, those of the users with the new name in their lists.
Renamed(instances, q, users, n, m) ==
  [i \in DOMAIN instances |->
     IF <<q, i>> \notin users THEN instances[i]
     ELSE [instances[i] EXCEPT !.profiles =
             [k \in DOMAIN @ |-> IF @[k] = n THEN m ELSE @[k]]]]

RenameProfile(p, n, m) ==
  /\ n \in DOMAIN ProfilesSeen(p) \ {default}
  /\ m \notin DOMAIN ProfilesSeen(p)
  /\ \E users \in profileUsers(p) :
       LET renamed == With(Without(ProfilesSeen(p), n), m, ProfilesSeen(p)[n])
           moved == [spaces EXCEPT ![Owner(p, "profiles")].profiles = renamed]
       IN spaces' = [q \in Projects |->
            [moved[q] EXCEPT !.instances = Renamed(@, q, users, n, m)]]
  /\ UNCHANGED <<uses, projects, storage>>

\* A profile's device is added, replaced or removed.
SetProfileDevice(p, n, device) ==
  /\ n \in DOMAIN ProfilesSeen(p)
  /\ device = NoDevice => ProfilesSeen(p)[n] # NoDevice
  /\ SetProfiles(p, [ProfilesSeen(p) EXCEPT ![n] = device])

ProfileStep ==
  \E p \in Callers :
    \/ \E i \in Instances, ps \in ProfileLists : SetInstanceProfiles(p, i, ps)
    \/ \E n \in Profiles :
         \/ CreateProfile(p, n) \/ DeleteProfile(p, n)
         \/ \E m \in Profiles : RenameProfile(p, n, m)

ProfileDeviceStep ==
  \E p \in Callers, n \in ProfileNames, d \in Devices : SetProfileDevice(p, n, d)
=============================================================================

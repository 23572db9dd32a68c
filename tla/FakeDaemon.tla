----------------------------- MODULE FakeDaemon -----------------------------
(***************************************************************************)
(* The in-memory backend as its clients see it: any sequence of successful *)
(* calls.  Tests and the development server rely on it to refuse what the  *)
(* real daemon refuses.  What can go wrong is not in one call but in what  *)
(* a call on one resource, made from one project, does to the references   *)
(* that others hold, in other projects.                                    *)
(***************************************************************************)
EXTENDS FakeNetworks, FakeStorage

\* The default project with the resources it is seeded with, of the kinds in
\* use; its default profile may have been given a device before, and when the
\* clients do not use projects, a new one may have been created.
Init ==
  /\ uses \in Clients
  /\ \/ projects = Only(default, Features)
     \/ /\ ~On("projects")
        /\ \E p \in Others, fs \in FeatureSets : projects = With(Only(default, Features), p, fs)
  /\ \E d \in {NoDevice} \cup {Nic(n, {}) : n \in IF On("networks") THEN Networks ELSE {}}
               \cup {Disk(p, None) : p \in IF On("pools") THEN Pools ELSE {}} :
     \E nets \in SUBSET (IF On("networks") THEN Networks ELSE {}) :
       /\ d.network # None => d.network \in nets
       /\ spaces = [p \in Projects |->
            IF p \notin DOMAIN projects THEN newSpace
            ELSE IF p # default THEN CreatedSpace(projects[p])
            ELSE [newSpace EXCEPT
                    !.profiles = Only(default, d),
                    !.networks = [n \in nets |-> [acls |-> {}, zones |-> {}]],
                    !.images = [a \in IF On("images") THEN Catalog ELSE {} |-> {a}]]]
  /\ pools = Pools
  /\ volumes = {}
  /\ buckets = {}

Next ==
  \/ On("projects") /\ ProjectStep
  \/ On("instances") /\ InstanceStep
  \/ On("instances") /\ On("devices") /\ DeviceStep
  \/ On("profiles") /\ ProfileStep
  \/ On("devices") /\ ProfileDeviceStep
  \/ On("networks") /\ NetworkStep
  \/ On("zones") /\ ZoneStep
  \/ On("pools") /\ PoolStep
  \/ On("volumes") /\ VolumeStep
  \/ On("buckets") /\ BucketStep
  \/ On("images") /\ ImageStep

Spec == Init /\ [][Next]_vars

-----------------------------------------------------------------------------
(* Properties                                                              *)

\* Type invariant; a volume or bucket is in a pool that exists, a volume in a
\* project that exists, a record in a zone that exists, and an alias names one
\* image of a space (only copying from the catalog gives one away twice).
TypeOK ==
  /\ uses \in Clients
  /\ IsMap(projects, Projects, SUBSET Features) /\ default \in DOMAIN projects
  /\ \A p \in Projects :
       LET sp == spaces[p] IN
       /\ IsMap(sp.instances, Instances, Instance)
       /\ IsMap(sp.profiles, ProfileNames, Device)
       /\ IsMap(sp.networks, Networks, NetworkConfig)
       /\ sp.acls \subseteq ACLs
       /\ sp.zones \subseteq Zones
       /\ sp.records \subseteq sp.zones \X Records
       /\ IsMap(sp.images, AllFingerprints, SUBSET Aliases)
       /\ \A a \in Aliases \ Catalog : Cardinality(aliasOwner(sp, a)) <= 1
  /\ pools \subseteq Pools
  /\ volumes \subseteq pools \X (DOMAIN projects) \X Volumes
  /\ buckets \subseteq pools \X Projects \X Buckets

\* What the existing projects own and show.
Things ==
  LET Own(p, feature, S) == IF Owner(p, feature) = p THEN S ELSE {}
      ThingsOf(p) ==
        LET sp == spaces[p] IN
          {<<"instance", i>> : i \in DOMAIN sp.instances}
          \cup Own(p, "profiles", {<<"profile", n>> : n \in DOMAIN sp.profiles \ {default}})
          \cup Own(p, "images", {<<"image", f>> : f \in DOMAIN sp.images})
          \cup Own(p, "networks", {<<"network", n>> : n \in DOMAIN sp.networks})
          \cup Own(p, "networks", {<<"acl", a>> : a \in sp.acls})
          \cup Own(p, "volumes", {<<"volume", v>> : v \in {w \in volumes : w[2] = p}})
  IN UNION {{<<p, t>> : t \in ThingsOf(p)} : p \in DOMAIN projects}

\* No call makes anything disappear that it does not name: creating, changing,
\* renaming or deleting a project loses none of the instances, profiles,
\* images, networks, ACLs and volumes that any project shows, and no other call
\* loses more than one (the emptiness checks of fake/projects.go and
\* fake/storage.go).
LosesNothing ==
  Cardinality(Things)' >= Cardinality(Things) - IF projects' = projects THEN 1 ELSE 0

\* The ACLs that an instance's effective nic, or a network, names and that exist.
ACLsOf(p, i) ==
  IF Expanded(p, i).network = None THEN {}
  ELSE Expanded(p, i).acls \cap spaces[Owner(p, "networks")].acls
ACLsOn(p, n) == spaces[p].networks[n].acls \cap spaces[p].acls

\* What names an ACL that exists and is not itself changed goes on naming one
\* that exists.
ACLsKept ==
  /\ \A p \in DOMAIN projects, i \in Instances :
       (HasInstance(p, i) /\ HasInstance(p, i)' /\ Expanded(p, i)' = Expanded(p, i))
         => ACLsOf(p, i) \subseteq ACLsOf(p, i)'
  /\ \A p \in DOMAIN projects, n \in Networks :
       (/\ n \in DOMAIN spaces[p].networks \cap DOMAIN spaces'[p].networks
        /\ spaces[p].networks[n] = spaces'[p].networks[n])
         => ACLsOn(p, n) \subseteq ACLsOn(p, n)'

\* No other project that shares p's namespace for the feature has an instance
\* of this name.
Unambiguous(p, i, feature) ==
  \A q \in Sharers(Owner(p, feature), feature) : HasInstance(q, i) => q = p

\* The pool of p's instance's disk, if there is one, stays; the network of its
\* nic too, unless another sharing project uses the instance's name:
\* networkUsers keeps one instance per name.
StaysConnected(p, i) ==
  LET d == spaces[p].instances[i].device IN
  /\ d.pool \in pools => d.pool \in pools'
  /\ Unambiguous(p, i, "networks") /\ d.network \in DOMAIN spaces[Owner(p, "networks")].networks
       => d.network \in DOMAIN spaces'[Owner(p, "networks")].networks

\* The volume of an instance's disk exists.
HasVolume(p, i) ==
  LET d == spaces[p].instances[i].device IN <<d.pool, Owner(p, "volumes"), d.source>> \in volumes

\* A renamed volume is detached from no instance, of whatever project, and an
\* instance that runs is not touched (RenameVolume).
VolumesFollow ==
  \A p \in DOMAIN projects : \A i \in DOMAIN spaces[p].instances :
    /\ HasVolume(p, i) => HasVolume(p, i)'
    /\ spaces[p].instances[i].status = "Running"
         => spaces'[p].instances[i] = spaces[p].instances[i]

\* Every profile that the instance names exists.
Resolved(p, i) ==
  \A k \in DOMAIN spaces[p].instances[i].profiles :
    spaces[p].instances[i].profiles[k] \in DOMAIN ProfilesSeen(p)

ProfilesChange ==
  \E p \in Projects : DOMAIN spaces[p].profiles # DOMAIN spaces'[p].profiles

Follows(p, i) ==
  (HasInstance(p, i) /\ HasInstance(p, i)' /\ Resolved(p, i)) => Resolved(p, i)'

\* An ACL that a nic or a network names is refused to be deleted or renamed
\* (aclUsedBy).
ACLsStay ==
  (\E p \in Projects : ~(spaces[p].acls \subseteq spaces'[p].acls)) => ACLsKept

\* The network of an instance's own nic and the pool of its disk are refused to
\* be deleted (networkUsers, poolUsedBy).
InstancesStayConnected ==
  \A p \in DOMAIN projects : \A i \in DOMAIN spaces[p].instances :
    (HasInstance(p, i)' /\ spaces[p].instances[i] = spaces'[p].instances[i])
      => StaysConnected(p, i)

\* A renamed volume is followed by the devices of every project that shares it
\* (RenameVolume).
RenamedVolumesAreFollowed ==
  (volumes' # volumes /\ Cardinality(volumes') = Cardinality(volumes)) => VolumesFollow

\* A renamed profile is followed by the instances, and one that an instance names
\* not deleted, as long as those of different projects have different names
\* (profileUsers).
ProfilesAreFollowed ==
  ProfilesChange =>
    \A p \in DOMAIN projects, i \in Instances : Unambiguous(p, i, "profiles") => Follows(p, i)

\* What refers to another resource goes on doing so, whatever project the call
\* is made from: what is attached is refused to be taken away, and what is
\* renamed is followed (fake/{acls,networks,storage,profiles}.go).
NothingDangles ==
  [][projects' = projects =>
       ACLsStay /\ InstancesStayConnected /\ RenamedVolumesAreFollowed /\ ProfilesAreFollowed]_vars

\* For renaming, without the proviso: "Assigned instances follow the rename ...
\* across every project sharing this profile namespace" (fake/profiles.go).
InstancesFollowRename ==
  [][(/\ projects' = projects /\ ProfilesChange
      /\ \A p \in Projects :
           Cardinality(DOMAIN spaces[p].profiles) = Cardinality(DOMAIN spaces'[p].profiles)) =>
       \A p \in DOMAIN projects, i \in Instances : Follows(p, i)]_vars

=============================================================================

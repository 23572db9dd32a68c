---------------------------- MODULE FakeNetworks ----------------------------
(* The in-memory backend's managed networks, ACLs, DNS zones and their     *)
(* records (fake/{networks,acls,zones}.go).  The unmanaged networks are    *)
(* read-only and left out.                                                 *)
EXTENDS FakeSpaces

\* The networks as p sees them, and the space that holds its ACLs with them.
NetworkSpace(p) == spaces[Owner(p, "networks")]
ZoneSpace(p) == spaces[Owner(p, "zones")]

SetNetworkSpace(p, sp) ==
  /\ spaces' = [spaces EXCEPT ![Owner(p, "networks")] = sp]
  /\ UNCHANGED <<uses, projects, storage>>

SetZoneSpace(p, sp) ==
  /\ spaces' = [spaces EXCEPT ![Owner(p, "zones")] = sp]
  /\ UNCHANGED <<uses, projects, storage>>

-----------------------------------------------------------------------------
(* Plausible bugs, substituted for the definitions below by the mutants.   *)

NetworksOnly(p, a) ==
  {n \in DOMAIN NetworkSpace(p).networks : a \in NetworkSpace(p).networks[n].acls}
KeepRecords(sp, z) == sp.records

-----------------------------------------------------------------------------
(* Networks                                                                *)

CreateNetwork(p, n, config) ==
  /\ n \notin DOMAIN NetworkSpace(p).networks
  /\ SetNetworkSpace(p, [NetworkSpace(p) EXCEPT !.networks = With(@, n, config)])

UpdateNetwork(p, n, config) ==
  /\ n \in DOMAIN NetworkSpace(p).networks
  /\ SetNetworkSpace(p, [NetworkSpace(p) EXCEPT !.networks[n] = config])

\* instanceUsesNetwork: the networks of its own nic and of its profiles' nics,
\* those that are shadowed included.
NetworksUsed(in, seen) ==
  {in.device.network}
  \cup {seen[in.profiles[k]].network : k \in {j \in DOMAIN in.profiles : in.profiles[j] \in DOMAIN seen}}

\* The profiles of every instance are looked up as the request sees them,
\* whatever project the instance is in.
DeleteNetwork(p, n) ==
  /\ n \in DOMAIN NetworkSpace(p).networks
  /\ \E users \in UsersByName(p, "networks") : \A x \in users :
       n \notin NetworksUsed(spaces[x[1]].instances[x[2]], ProfilesSeen(p))
  /\ SetNetworkSpace(p, [NetworkSpace(p) EXCEPT !.networks = Without(@, n)])

-----------------------------------------------------------------------------
(* ACLs                                                                    *)

\* aclNICMatches: a nic without a network does not count.
NicNames(device, a) == device.network # None /\ a \in device.acls

\* aclUsedBy: networks of the same space; instances and profiles of every
\* project that shares it.
ACLUsers(p, a) ==
  LET sharers == Sharers(Owner(p, "networks"), "networks") IN
  {n \in DOMAIN NetworkSpace(p).networks : a \in NetworkSpace(p).networks[n].acls}
  \cup {x \in sharers \X Instances :
          HasInstance(x[1], x[2]) /\ NicNames(Expanded(x[1], x[2]), a)}
  \cup {x \in sharers \X ProfileNames :
          /\ x[2] \in DOMAIN spaces[x[1]].profiles
          /\ NicNames(spaces[x[1]].profiles[x[2]], a)}

CreateNetworkACL(p, a) ==
  /\ a \notin NetworkSpace(p).acls
  /\ SetNetworkSpace(p, [NetworkSpace(p) EXCEPT !.acls = @ \cup {a}])

RenameNetworkACL(p, a, b) ==
  /\ a \in NetworkSpace(p).acls /\ ACLUsers(p, a) = {}
  /\ b \notin NetworkSpace(p).acls
  /\ SetNetworkSpace(p, [NetworkSpace(p) EXCEPT !.acls = (@ \ {a}) \cup {b}])

DeleteNetworkACL(p, a) ==
  /\ a \in NetworkSpace(p).acls /\ ACLUsers(p, a) = {}
  /\ SetNetworkSpace(p, [NetworkSpace(p) EXCEPT !.acls = @ \ {a}])

\* Bound of the model: references of the kinds in use; either networks or nics
\* have ACLs attached.
NetworkConfigs ==
  {[acls |-> a, zones |-> z] : a \in IF On("devices") THEN {{}} ELSE ACLLists,
                               z \in IF On("zones") THEN SUBSET Zones ELSE {{}}}

NetworkStep ==
  \E p \in Callers :
    \/ \E n \in Networks :
         \/ \E c \in NetworkConfigs : CreateNetwork(p, n, c) \/ UpdateNetwork(p, n, c)
         \/ DeleteNetwork(p, n)
    \/ \E a \in ACLs :
         \/ CreateNetworkACL(p, a) \/ DeleteNetworkACL(p, a)
         \/ \E b \in ACLs : RenameNetworkACL(p, a, b)

-----------------------------------------------------------------------------
(* Zones                                                                   *)

CreateNetworkZone(p, z) ==
  /\ z \notin ZoneSpace(p).zones
  /\ SetZoneSpace(p, [ZoneSpace(p) EXCEPT !.zones = @ \cup {z}])

\* zoneUsedBy: the networks that the request sees, not those of every project
\* that sees the zone.
ZoneUsers(p, z) ==
  {n \in DOMAIN NetworkSpace(p).networks : z \in NetworkSpace(p).networks[n].zones}

\* The records that a deleted zone leaves.
RecordsLeft(sp, z) == {r \in sp.records : r[1] # z}

DeleteNetworkZone(p, z) ==
  /\ z \in ZoneSpace(p).zones /\ ZoneUsers(p, z) = {}
  /\ SetZoneSpace(p, [ZoneSpace(p) EXCEPT
       !.zones = @ \ {z}, !.records = RecordsLeft(ZoneSpace(p), z)])

CreateZoneRecord(p, z, r) ==
  /\ z \in ZoneSpace(p).zones /\ <<z, r>> \notin ZoneSpace(p).records
  /\ SetZoneSpace(p, [ZoneSpace(p) EXCEPT !.records = @ \cup {<<z, r>>}])

DeleteZoneRecord(p, z, r) ==
  /\ <<z, r>> \in ZoneSpace(p).records
  /\ SetZoneSpace(p, [ZoneSpace(p) EXCEPT !.records = @ \ {<<z, r>>}])

ZoneStep ==
  \E p \in Callers, z \in Zones :
    \/ CreateNetworkZone(p, z) \/ DeleteNetworkZone(p, z)
    \/ \E r \in Records : CreateZoneRecord(p, z, r) \/ DeleteZoneRecord(p, z, r)
=============================================================================

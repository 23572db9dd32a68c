---------------------------- MODULE FakeVersions ----------------------------
(***************************************************************************)
(* The version tokens of the in-memory backend: a counter per resource,    *)
(* kept inside it (instances, pools, volumes, the server's config) or in a *)
(* map of its space by name (profiles, networks, ACLs, zones, projects), a *)
(* missing key being 0.  A page is rendered from a Get and carries the     *)
(* token; saving it is refused when the counter has moved on.              *)
(*                                                                         *)
(* Data abstraction: a resource is what its edit page shows.  What pages   *)
(* do not show and saves preserve (SetSnapshotSchedule's keys) is left     *)
(* out, and so is a volume's description, which tokens do not cover.       *)
(***************************************************************************)
EXTENDS Naturals

CONSTANTS
  Kinds,   \* of resources; a behaviour is about one of them
  Names,   \* of the resources of the kind
  Tabs,
  Values,  \* what an edit page may show
  MaxVersion, MaxBorn  \* bounds of the model: updates, and creations

AllKinds == {"instance", "pool", "volume", "server",
             "profile", "network", "acl", "zone", "project"}

VARIABLES
  kind,
  docs,   \* per name of a resource that exists: [shown, version, born, uncounted]
  pages,  \* per tab: what it was rendered from, [name, born, shown, token, uncounted]
  born    \* ghost: how many have been created, which tells namesakes apart

vars == <<kind, docs, pages, born>>

With(f, x, v) == [y \in DOMAIN f \cup {x} |-> IF y = x THEN v ELSE f[y]]
Without(f, x) == [y \in DOMAIN f \ {x} |-> f[y]]

NoPage == [open |-> FALSE]

-----------------------------------------------------------------------------
(* Plausible bugs, substituted for the definitions below by the mutants.   *)

NewCounter(version) == 0

-----------------------------------------------------------------------------
\* A renamed profile, ACL or project takes its counter along, one further.
Carried(version) == version + 1

\* Updates of a volume count when they change its config; any other's always.
Counted(d, shown) ==
  IF kind = "volume" /\ d.shown = shown THEN d.version ELSE d.version + 1

Put(n, shown) ==
  /\ docs[n].version < MaxVersion
  /\ docs' = [docs EXCEPT ![n].shown = shown, ![n].version = Counted(docs[n], shown)]

Create(n, shown) ==
  /\ kind # "server"
  /\ n \notin DOMAIN docs /\ born < MaxBorn
  /\ docs' = With(docs, n, [shown |-> shown, version |-> 0, born |-> born,
                            uncounted |-> FALSE])
  /\ born' = born + 1
  /\ UNCHANGED <<kind, pages>>

\* GetInstanceConfig, GetProfile, GetNetwork, ...
Get(t, n) ==
  /\ n \in DOMAIN docs
  /\ pages' = [pages EXCEPT ![t] = [open |-> TRUE, name |-> n, born |-> docs[n].born,
                                    shown |-> docs[n].shown, token |-> docs[n].version,
                                    uncounted |-> docs[n].uncounted]]
  /\ UNCHANGED <<kind, docs, born>>

Accepted(page) ==
  page.open /\ page.name \in DOMAIN docs /\ page.token = docs[page.name].version

\* UpdateInstanceConfig, UpdateDevice, UpdateProfile, ..., with a token.
Update(t, shown) ==
  /\ Accepted(pages[t])
  /\ Put(pages[t].name, shown)
  /\ pages' = [pages EXCEPT ![t] = NoPage]
  /\ UNCHANGED <<kind, born>>

\* The same without a token.
UpdateBlindly(n, shown) ==
  /\ n \in DOMAIN docs
  /\ Put(n, shown)
  /\ UNCHANGED <<kind, pages, born>>

\* AddDevice, RemoveDevice, AddProfileDevice, RemoveProfileDevice.
ChangeDevices(n, shown) == kind \in {"instance", "profile"} /\ UpdateBlindly(n, shown)

\* UpdateLimits and SetInstanceProfiles change what the config page does not show.
UpdateLimits(n) == kind = "instance" /\ n \in DOMAIN docs /\ UpdateBlindly(n, docs[n].shown)

\* RenameVolume carries the devices of instances along and counts nothing, once
\* in the model.
FollowVolume(n, shown) ==
  /\ kind = "instance"
  /\ n \in DOMAIN docs /\ ~docs[n].uncounted
  /\ docs' = [docs EXCEPT ![n].shown = shown, ![n].uncounted = TRUE]
  /\ UNCHANGED <<kind, pages, born>>

Rename(n, m) ==
  /\ kind \in {"profile", "acl", "project", "instance", "volume"}
  /\ n \in DOMAIN docs /\ m \notin DOMAIN docs
  /\ docs[n].version < MaxVersion
  /\ docs' = With(Without(docs, n), m,
       IF kind \in {"instance", "volume"} THEN docs[n]
       ELSE [docs[n] EXCEPT !.version = Carried(@)])
  /\ UNCHANGED <<kind, pages, born>>

\* The counter goes too, so that a namesake starts from 0 again.
Delete(n) ==
  /\ kind # "server"
  /\ n \in DOMAIN docs
  /\ docs' = Without(docs, n)
  /\ UNCHANGED <<kind, pages, born>>

FirstVersion == IF kind = "server" THEN 1 ELSE 0

Init ==
  /\ kind \in Kinds
  /\ \E n \in Names, v \in Values :
       docs = With(<<>>, n, [shown |-> v, version |-> FirstVersion, born |-> 0,
                             uncounted |-> FALSE])
  /\ pages = [t \in Tabs |-> NoPage]
  /\ born = 1

Next ==
  \/ \E n \in Names :
       \/ \E v \in Values : Create(n, v) \/ UpdateBlindly(n, v) \/ ChangeDevices(n, v)
                          \/ FollowVolume(n, v)
       \/ UpdateLimits(n)
       \/ \E t \in Tabs : Get(t, n)
       \/ \E m \in Names : Rename(n, m)
       \/ Delete(n)
  \/ \E t \in Tabs, v \in Values : Update(t, v)

Spec == Init /\ [][Next]_vars

-----------------------------------------------------------------------------
(* Properties                                                              *)

\* Type invariant.
TypeOK ==
  /\ kind \in AllKinds
  /\ DOMAIN docs \subseteq Names
  /\ \A n \in DOMAIN docs :
       /\ docs[n].shown \in Values
       /\ docs[n].version \in 0 .. MaxVersion
       /\ docs[n].born < born
  /\ \A t \in Tabs : pages[t].open => pages[t].token \in 0 .. MaxVersion
  /\ born \in 0 .. MaxBorn

\* "A concurrent change since the Get fails with ErrConflict" (backend.Version):
\* while its token would be accepted, a page still shows what the resource is,
\* through any updates, renames and changes from elsewhere.  The exceptions are
\* a namesake created after a deletion or a rename, which counts from 0 again,
\* and an instance whose device followed the renaming of its volume.
Same(doc, page) == doc.born = page.born /\ doc.uncounted = page.uncounted
TokensHold ==
  \A t \in Tabs :
    Accepted(pages[t]) /\ Same(docs[pages[t].name], pages[t])
      => docs[pages[t].name].shown = pages[t].shown
=============================================================================

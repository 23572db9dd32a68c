----------------------------- MODULE EditForms ------------------------------
(***************************************************************************)
(* The edit forms of the web UI over one resource of the daemon            *)
(* (server/{config,limits,profiles,projects,networks,storage,zones,acls,   *)
(* admin}.go over incus/{config,instances,profiles,projects,...}.go).      *)
(*                                                                         *)
(* A page is rendered from a Get and may carry the version it was rendered *)
(* from in a hidden field.  Its handler may read the resource again to     *)
(* merge the submitted fields into it; the driver reads it once more to    *)
(* start from its current writable state; then one conditional PUT goes to *)
(* the daemon.  Between any two of these, other tabs, other clients and    *)
(* the daemon itself may write the resource.                               *)
(*                                                                         *)
(* Data abstraction: a resource is five groups of fields, with few values, *)
(* 0 standing for an absent one.                                           *)
(***************************************************************************)
EXTENDS Naturals

CONSTANTS
  Tabs,         \* browser tabs
  Resources,    \* the kinds of resource
  Values,       \* values of a field group
  BlankTokens,  \* the kinds of hidden version field that requests may omit
  MaxRev        \* bound of the model: writes of each kind of resource

\* config: what a key/value editor shows; option: the keys of it a typed form
\* edits; device: a device's typed fields; devkeys: the device's other keys;
\* own: what no token guards (limits, profiles, volatile and other managed keys,
\* the fields no page shows, the description of a volume).
Fields == {"config", "option", "device", "devkeys", "own"}

Val == [Fields -> Values]
Doc == [exists : BOOLEAN, val : Val, rev : Nat]
Read == [val : Val, rev : Nat]

\* A driver method: whether it GETs before the PUT, whether it falls back to
\* the etag of that GET when given no version, whether it insists on the device.
Method == [reads : BOOLEAN, fallback : BOOLEAN, device : BOOLEAN]

\* A form and its handler: the fields the user replaces, those the handler reads
\* itself, to send them back or to merge the user's into, and the version it hands to the driver:
\* the hidden field, insisted on (required) or not (passed), that of the
\* handler's own read, or none at all.
Form == [writes : SUBSET Fields, fills : SUBSET Fields,
         version : {"required", "passed", "read", "none"}, driver : Method]

\* A kind of resource: its edit forms, the fields its version covers, and
\* whether the version identifies the content, as the daemon's etags do, or the
\* revision, as the fake's counters do.
Resource == [forms : SUBSET Form, covers : SUBSET Fields, content : BOOLEAN]

Forms == UNION {r.forms : r \in Resources}

ASSUME EditAssumption ==
  /\ Resources \subseteq Resource
  /\ Forms # {}
  /\ {0, 1} \subseteq Values
  /\ BlankTokens \subseteq {"required", "passed"}
  /\ MaxRev \in [Resources -> Nat]

VARIABLES
  resource,  \* the kind of resource at hand
  doc,       \* the resource on the daemon
  tab        \* per tab: the page, and the request that saves it

vars == <<resource, doc, tab>>

-----------------------------------------------------------------------------
(* The driver's methods (incus/).                                          *)

UpdateInstanceConfig == [reads |-> TRUE, fallback |-> TRUE, device |-> FALSE]
UpdateDevice         == [reads |-> TRUE, fallback |-> TRUE, device |-> TRUE]
RemoveDevice         == [reads |-> TRUE, fallback |-> TRUE, device |-> TRUE]
mutateInstance       == [reads |-> TRUE, fallback |-> TRUE, device |-> FALSE]
mutateProfile        == [reads |-> TRUE, fallback |-> TRUE, device |-> FALSE]
UpdateProfileDevice  == [reads |-> TRUE, fallback |-> TRUE, device |-> TRUE]
UpdateProfile        == [reads |-> TRUE, fallback |-> FALSE, device |-> FALSE]
UpdateNetwork        == UpdateProfile
UpdateStoragePool    == UpdateProfile
UpdateVolume         == UpdateProfile
UpdateServerConfig   == UpdateProfile
UpdateNetworkACL     == UpdateProfile
UpdateProject        == [reads |-> FALSE, fallback |-> FALSE, device |-> FALSE]
UpdateNetworkZone    == UpdateProject

(* The handlers (server/).                                                 *)

updateConfig  == [writes |-> {"config", "option"}, fills |-> {},
                  version |-> "required", driver |-> UpdateInstanceConfig]
updateOptions == [writes |-> {"option"}, fills |-> {"config"},
                  version |-> "required", driver |-> UpdateInstanceConfig]
updateDevice  == [writes |-> {"device"}, fills |-> {"devkeys"},
                  version |-> "required", driver |-> UpdateDevice]
addDevice     == [writes |-> {"device", "devkeys"}, fills |-> {},
                  version |-> "none", driver |-> mutateInstance]
removeDevice  == [writes |-> {"device", "devkeys"}, fills |-> {},
                  version |-> "none", driver |-> RemoveDevice]
updateLimits  == [writes |-> {"own"}, fills |-> {},
                  version |-> "none", driver |-> mutateInstance]
setInstanceProfiles == [updateLimits EXCEPT !.fills = {"own"}]

updateProfile == [writes |-> {"config", "option"}, fills |-> {},
                  version |-> "passed", driver |-> UpdateProfile]
updateProfileDevice == [writes |-> {"device"}, fills |-> {"devkeys"},
                        version |-> "required", driver |-> UpdateProfileDevice]
addProfileDevice    == [addDevice EXCEPT !.driver = mutateProfile]
removeProfileDevice == [removeDevice EXCEPT !.driver = UpdateProfileDevice]

updateNetworkACL == [writes |-> {"option"}, fills |-> {"config"},
                     version |-> "passed", driver |-> UpdateNetworkACL]
addNetworkACLRule    == [writes |-> {"config"}, fills |-> {"option"},
                         version |-> "required", driver |-> UpdateNetworkACL]
deleteNetworkACLRule == addNetworkACLRule

\* Whole-config editors of resources without devices.
Editor(driver) == [writes |-> {"config", "option"}, fills |-> {},
                   version |-> "passed", driver |-> driver]

updateNetwork      == Editor(UpdateNetwork)
updatePool         == Editor(UpdateStoragePool)
updateVolume       == [Editor(UpdateVolume) EXCEPT !.writes = @ \cup {"own"}]
updateServerConfig == Editor(UpdateServerConfig)
updateNetworkZone  == Editor(UpdateNetworkZone)

updateProject       == [writes |-> {"config", "option"}, fills |-> {},
                        version |-> "passed", driver |-> UpdateProject]
updateProjectLimits == [writes |-> {"option"}, fills |-> {"config"},
                        version |-> "read", driver |-> UpdateProject]

\* The forms by resource, and what its version covers: all of it, but for a
\* volume, whose etag leaves out the description.  The last resources have one
\* editor each, and only the driver's method tells them apart.
Covering(covers, pages) == {<<forms, covers>> : forms \in pages}
Pages ==
  Covering(Fields,
    {{updateConfig, updateOptions, updateDevice, addDevice, removeDevice,
      updateLimits, setInstanceProfiles},
     {updateProfile, updateProfileDevice, addProfileDevice, removeProfileDevice},
     {updateProject, updateProjectLimits},
     {updateNetworkACL, addNetworkACLRule, deleteNetworkACLRule},
     {updateNetwork}, {updatePool}, {updateServerConfig}, {updateNetworkZone}})
  \cup Covering(Fields \ {"own"}, {{updateVolume}})

Versioned(content, pages) ==
  {[forms |-> p[1], covers |-> p[2], content |-> content] : p \in pages}
AllResources == Versioned(FALSE, Pages) \cup Versioned(TRUE, Pages)

HandlerReads(f) == f.fills # {}

\* The page carries the version it was rendered from in a hidden field.
Carries(f) == f.version \in {"required", "passed"}

\* What a user can enter: a device form names a device, a removal clears it.
Edits(f) ==
  {e \in Val :
     /\ \A x \in Fields \ f.writes : e[x] = 0
     /\ f.writes = {"device"} => e["device"] # 0
     /\ f.writes = {"device", "devkeys"} =>
          IF f.driver.device THEN e["device"] = 0 /\ e["devkeys"] = 0
                             ELSE e["device"] # 0}

-----------------------------------------------------------------------------
Tab == [pc : {"closed", "open", "handling", "driving", "putting"},
        form : Forms, sent : BOOLEAN, edits : Val,
        shown : Read, handler : Read, driver : Read]

Zero == [x \in Fields |-> 0]
NoRead == [val |-> Zero, rev |-> 0]

Page(f, read) == [pc |-> "open", form |-> f, sent |-> FALSE, edits |-> Zero,
                  shown |-> read, handler |-> NoRead, driver |-> NoRead]

Closed == [pc |-> "closed", form |-> CHOOSE f \in Forms : TRUE, sent |-> FALSE,
           edits |-> Zero, shown |-> NoRead, handler |-> NoRead, driver |-> NoRead]

Init ==
  /\ resource \in Resources
  /\ doc = [exists |-> TRUE, val |-> [Zero EXCEPT !["device"] = 1], rev |-> 0]
  /\ tab = [t \in Tabs |-> Closed]

\* A GET of the resource: its fields and its version.
Get == [val |-> doc.val, rev |-> doc.rev]

(* Plausible bugs, substituted for the definitions below by the mutants.   *)

BodyOfEdits(t) == [x \in tab[t].form.writes |-> tab[t].edits[x]]
BodyFromPage(t) ==
  [x \in Fields |-> IF x \in tab[t].form.writes THEN tab[t].edits[x]
                    ELSE tab[t].shown.val[x]]

-----------------------------------------------------------------------------
\* If-Match: does the version of this read still name the resource?
Matches(read) ==
  IF resource.content THEN \A x \in resource.covers : read.val[x] = doc.val[x]
                      ELSE read.rev = doc.rev

\* The resource with v written to it.  It keeps its revision only if its version
\* does not cover all of it, and nothing that it covers changed.
Written(v) ==
  [exists |-> TRUE, val |-> v,
   rev |-> IF resource.covers = Fields \/ \E x \in resource.covers : v[x] # doc.val[x]
           THEN doc.rev + 1 ELSE doc.rev]

\* The device form's and the device methods' lookup in what was read.
DeviceFound(read) == read.val["device"] # 0

\* Every error answer: the request ends, the page is rendered anew or left.
Refuse(t) == tab' = [tab EXCEPT ![t] = Closed]

(* The page *)

Open(t, f) ==
  /\ tab[t].pc = "closed"
  /\ f \in resource.forms
  /\ doc.exists
  /\ f.driver.device => DeviceFound(Get)   \* the form is rendered per device
  /\ tab' = [tab EXCEPT ![t] = Page(f, Get)]
  /\ UNCHANGED doc

\* requireVersion refuses a request without the token.
Demanded(f, sent) == f.version = "required" => sent

AfterHandler(f) == IF f.driver.reads THEN "driving" ELSE "putting"

Submit(t) ==
  LET f == tab[t].form IN
  /\ tab[t].pc = "open"
  /\ UNCHANGED doc
  /\ \E e \in Edits(f), sent \in BOOLEAN :
       /\ sent => Carries(f)
       /\ ~sent /\ Carries(f) => f.version \in BlankTokens
       /\ IF Demanded(f, sent)
          THEN tab' = [tab EXCEPT ![t] =
                 [@ EXCEPT !.edits = e, !.sent = sent,
                    !.pc = IF HandlerReads(f) THEN "handling" ELSE AfterHandler(f)]]
          ELSE Refuse(t)

\* The handler's own Get, whose fields it merges the form into.
HandlerGet(t) ==
  LET f == tab[t].form IN
  /\ tab[t].pc = "handling"
  /\ IF doc.exists /\ (f.driver.device => DeviceFound(Get))
     THEN tab' = [tab EXCEPT ![t] = [@ EXCEPT !.handler = Get, !.pc = AfterHandler(f)]]
     ELSE Refuse(t)
  /\ UNCHANGED doc

\* The driver's Get, whose writable state the PUT starts from.
DriverGet(t) ==
  /\ tab[t].pc = "driving"
  /\ IF doc.exists /\ (tab[t].form.driver.device => DeviceFound(Get))
     THEN tab' = [tab EXCEPT ![t] = [@ EXCEPT !.driver = Get, !.pc = "putting"]]
     ELSE Refuse(t)
  /\ UNCHANGED doc

\* The version the PUT is conditional on, if any.
Admits(t) ==
  LET f == tab[t].form IN
  \/ tab[t].sent /\ Matches(tab[t].shown)
  \/ f.version = "read" /\ Matches(tab[t].handler)
  \/ /\ ~tab[t].sent /\ f.version # "read"
     /\ f.driver.fallback => Matches(tab[t].driver)

\* What the PUT puts in the resource's place.
Body(t) ==
  LET f == tab[t].form IN
  [x \in Fields |-> IF x \in f.writes THEN tab[t].edits[x]
                    ELSE IF x \in f.fills THEN tab[t].handler.val[x]
                    ELSE IF f.driver.reads THEN tab[t].driver.val[x]
                    ELSE doc.val[x]]

Put(t) ==
  /\ tab[t].pc = "putting"
  /\ doc.exists
  /\ Admits(t)
  /\ doc.rev < MaxRev[resource]
  /\ doc' = Written(Body(t))
  /\ tab' = [tab EXCEPT ![t] = Closed]

\* 412 or 404 from the daemon.
PutRefused(t) ==
  /\ tab[t].pc = "putting"
  /\ ~(doc.exists /\ Admits(t))
  /\ Refuse(t)
  /\ UNCHANGED doc

(* The daemon and its other clients *)

Change(x, v) ==
  /\ doc.exists
  /\ doc.rev < MaxRev[resource]
  /\ doc.val[x] # v
  /\ doc' = Written([doc.val EXCEPT ![x] = v])
  /\ UNCHANGED tab

Delete ==
  /\ doc.exists
  /\ doc.rev < MaxRev[resource]
  /\ doc' = [exists |-> FALSE, val |-> doc.val, rev |-> doc.rev + 1]
  /\ UNCHANGED tab

Recreate ==
  /\ ~doc.exists
  /\ doc.rev < MaxRev[resource]
  /\ doc' = [exists |-> TRUE, val |-> Zero, rev |-> doc.rev + 1]
  /\ UNCHANGED tab

Step ==
  \/ \E t \in Tabs :
       \/ \E f \in Forms : Open(t, f)
       \/ Submit(t)
       \/ HandlerGet(t)
       \/ DriverGet(t)
       \/ Put(t)
       \/ PutRefused(t)
  \/ \E x \in Fields, v \in Values : Change(x, v)
  \/ Delete
  \/ Recreate

Next == Step /\ UNCHANGED resource

Spec == Init /\ [][Next]_vars

-----------------------------------------------------------------------------
(* Properties                                                              *)

\* Type invariant.
TypeOK ==
  /\ resource \in Resources
  /\ doc \in Doc
  /\ tab \in [Tabs -> Tab]

\* What makes form f of resource r safe to save: without a version of its own it
\* relies on the etag of the driver's read and keeps nothing older; with the
\* version of the handler's read, that is the only read it keeps anything of; and
\* what the version does not cover, it replaces.
Sound(r, f) ==
  /\ f.version = "none" => /\ f.driver.reads /\ f.driver.fallback
                           /\ f.fills \subseteq f.writes
  /\ f.version = "read" => HandlerReads(f) /\ ~f.driver.reads
  /\ Fields \ r.covers \subseteq f.writes

\* What a page of the contract is here.
pageOf ==
  [t \in Tabs |->
     IF tab[t].pc = "closed"
     THEN [open |-> FALSE, writes |-> {}, versioned |-> FALSE, shown |-> NoRead]
     ELSE [open |-> TRUE, writes |-> tab[t].form.writes,
           versioned |-> Carries(tab[t].form), shown |-> tab[t].shown]]

Contract == INSTANCE OptimisticEdit
              WITH page <- pageOf, covers <- resource.covers, content <- resource.content

\* Every save is atomic and optimistic: it replaces only the fields of its
\* form, whatever was written between the handler's read, the driver's read and
\* the PUT, and when its page carries a version nothing that the version covers
\* was written since the page was rendered (the comment on backend.Version, with
\* the caveat on backend.UpdateVolume).
SavesAreAtomic == Contract!Spec

\* A save of a page that was rendered from a Get is never unconditional: what
\* it replaces is what the page showed ("the HTTP layer requires the token on
\* every form that was rendered from a Get").
FormsAreConditional ==
  [][\A t \in Tabs :
       tab[t].pc = "putting" /\ doc'.exists /\ doc' # doc /\ tab'[t].pc = "closed"
         => doc.rev = tab[t].shown.rev]_vars
=============================================================================

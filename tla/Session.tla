------------------------------ MODULE Session ------------------------------
(***************************************************************************)
(* A browser's scope: the remote and the project its two cookies select    *)
(* (server/remotes.go, server/projects.go).  All tabs share the cookies; a *)
(* request carries them as they are when it is sent, withRemote and        *)
(* withProject turn them into the scope its handler runs in, and what the  *)
(* response sets is applied when it arrives, in no particular order among  *)
(* the tabs.  The server keeps nothing between requests but the remotes it *)
(* reached when it started, which it does not dial again.                  *)
(*                                                                         *)
(* Data abstraction: a tab always shows some page, and an action is a      *)
(* mutation of the resource the page shows, which may have been rendered   *)
(* long before; what counts is the scope it runs in.  None stands for no   *)
(* cookie and for the default project, which always exists, Keep for a     *)
(* response that does not set the cookie.                                  *)
(***************************************************************************)
EXTENDS FiniteSets, Naturals

CONSTANTS
  Tabs,         \* tabs of one browser
  Left,         \* those left alone on a page that refreshes itself
  Remotes,      \* the remotes of the configuration
  Default,      \* the default remote, without which the server does not start
  Projects,     \* project names, besides the default one
  AtFirst,      \* the projects every remote has at first
  None, Keep,
  MaxRestarts,  \* bound of the model: restarts of the server
  MaxChanges    \* bound of the model: projects renamed, made or removed

ASSUME SessionAssumption ==
  /\ Left \subseteq Tabs
  /\ Default \in Remotes
  /\ AtFirst \subseteq Projects
  /\ {None, Keep} \cap (Remotes \cup Projects) = {}
  /\ None # Keep
  /\ MaxRestarts \in Nat
  /\ MaxChanges \in Nat

VARIABLES
  reachable,  \* the remotes the server reached when it started
  projects,   \* per remote: its projects
  jar,        \* the browser's cookies
  req,        \* per tab: its request
  pick,       \* ghost: the remote the user selected last
  expired,    \* ghost: the remote cookie was expired since
  restarts, changes

daemonVars == <<reachable, projects, restarts, changes>>
browserVars == <<jar, pick, expired>>
vars == <<daemonVars, browserVars, req>>

Cookies == [remote : Remotes \cup {None}, project : Projects \cup {None}]
Scope == [remote : Remotes, project : Projects \cup {None}]

NoCookies == [remote |-> None, project |-> None]
NoChange == [remote |-> Keep, project |-> Keep]
DefaultScope == [remote |-> Default, project |-> None]

\* page: a navigation; poll: a fragment the page loads; act: a mutation of the
\* page's resource; the rest are the selections and the projects' own forms.
Gets == {"page", "poll"}
Mutations == {"act", "selectRemote", "selectProject", "renameProject", "deleteProject"}

Idle == [stage |-> "idle", kind |-> "page", arg |-> None, new |-> None,
         sent |-> NoCookies, scope |-> DefaultScope, set |-> NoChange,
         status |-> "none", pick |-> Default, expired |-> FALSE]

Request ==
  [stage : {"idle", "sent", "routed", "answered"},
   kind : Gets \cup Mutations,
   arg : Remotes \cup Projects \cup {None}, new : Projects \cup {None},
   sent : Cookies,                             \* the cookies it carries
   scope : Scope,                              \* the scope of its context
   set : [remote : Remotes \cup {None, Keep},   \* its Set-Cookie headers
          project : Projects \cup {None, Keep}],
   status : {"none", "ok", "bounced", "conflict", "error"},
   pick : Remotes, expired : BOOLEAN]          \* ghosts of an action: as it was sent

Init ==
  /\ reachable \in {s \in SUBSET Remotes : Default \in s}
  /\ projects = [r \in Remotes |-> AtFirst]
  /\ jar = NoCookies
  /\ req = [t \in Tabs |-> Idle]
  /\ pick = Default
  /\ expired = FALSE
  /\ restarts = 0
  /\ changes = 0

-----------------------------------------------------------------------------
(* Plausible bugs, substituted for the definitions below by the mutants.   *)

NoHeader == NoChange
NamesDefault == [remote |-> Keep, project |-> "default"]
RemoteOrDefault(cookies) == IF cookies.remote \in reachable THEN cookies.remote ELSE Default

-----------------------------------------------------------------------------
(* The browser                                                             *)

Send(t, kind, arg, new) ==
  /\ req[t].stage = "idle"
  /\ req' = [req EXCEPT ![t] =
       [Idle EXCEPT !.stage = "sent", !.kind = kind, !.arg = arg, !.new = new, !.sent = jar,
          !.pick = IF kind = "act" THEN pick ELSE Default,
          !.expired = kind = "act" /\ expired]]
  /\ UNCHANGED <<daemonVars, browserVars>>

Navigate(t) == t \notin Left /\ Send(t, "page", None, None)

Poll(t) == Send(t, "poll", None, None)

\* What a page offers: its actions, the switchers and the projects' forms.
Use(t) ==
  /\ t \notin Left
  /\ \/ Send(t, "act", None, None)
     \/ \E r \in Remotes : Send(t, "selectRemote", r, None)
     \/ \E p \in Projects \cup {None} : Send(t, "selectProject", p, None)
     \/ \E p, q \in Projects : p # q /\ Send(t, "renameProject", p, q)
     \/ \E p \in Projects : Send(t, "deleteProject", p, None)

\* The response arrives: its cookies are stored, and a redirect is followed
\* with the cookies of then.
Stored(set) ==
  [remote  |-> IF set.remote = Keep THEN jar.remote ELSE set.remote,
   project |-> IF set.project = Keep THEN jar.project ELSE set.project]

Follow(kind) == [Idle EXCEPT !.stage = "sent", !.kind = kind, !.sent = jar']

Arrive(t) ==
  LET r == req[t]
      selects == r.kind = "selectRemote" /\ r.status = "ok"
  IN
  /\ r.stage = "answered"
  /\ jar' = Stored(r.set)
  /\ pick' = IF selects THEN r.arg ELSE pick
  /\ expired' = IF selects THEN FALSE ELSE expired \/ r.status \in {"bounced", "conflict"}
  /\ req' = [req EXCEPT ![t] =
       CASE r.status = "bounced" -> Follow(r.kind)
         [] r.status = "ok" /\ r.kind \in Mutations \ {"act"} -> Follow("page")
         [] OTHER -> Idle]
  /\ UNCHANGED daemonVars

-----------------------------------------------------------------------------
(* The server                                                              *)

remoteKnown(name) == name \in reachable

\* caps.Remotes: there is somewhere to switch to.
multi == Cardinality(reachable) > 1

\* The remote a request is for.  Without the capability the cookie is ignored.
Wanted(cookies) == IF ~multi \/ cookies.remote = None THEN Default ELSE cookies.remote

\* The Set-Cookie headers of a bounced request and of one whose project is gone.
ExpireRemote == [NoChange EXCEPT !.remote = None]
ExpireProject == [NoChange EXCEPT !.project = None]

Exists(scope) == scope.project \in projects[scope.remote] \cup {None}

\* withRemote, then withProject: the scope of the request's context, or the
\* bounce of a stale remote.  A stale project is expired and the request goes
\* on without it.  Its redirect or its error leaves the page with the answer.
Route(t) ==
  LET r == [req[t] EXCEPT !.sent = NoCookies]
      cookies == req[t].sent
      remote == Wanted(cookies)
      wanted == [remote |-> remote, project |-> cookies.project]
  IN
  /\ req[t].stage = "sent"
  /\ req' = [req EXCEPT ![t] =
       IF ~remoteKnown(remote)
       THEN [r EXCEPT !.stage = "answered", !.set = ExpireRemote,
               !.status = IF r.kind \in Gets THEN "bounced" ELSE "conflict"]
       ELSE IF Exists(wanted)
       THEN [r EXCEPT !.stage = "routed", !.scope = wanted]
       ELSE [r EXCEPT !.stage = "routed", !.scope.remote = remote, !.set = ExpireProject]]
  /\ UNCHANGED <<daemonVars, browserVars>>

\* GetProject of withProject fails.
RouteFails(t) ==
  /\ req[t].stage = "sent"
  /\ req[t].sent.project # None
  /\ req' = [req EXCEPT ![t] = [@ EXCEPT !.stage = "answered", !.sent = NoCookies, !.status = "error"]]
  /\ UNCHANGED <<daemonVars, browserVars>>

\* Of the request, its response depends on no more than this.
Answer(t, status, set) ==
  LET r == req[t] IN
  /\ r.stage = "routed"
  /\ req' = [req EXCEPT ![t] =
       [r EXCEPT !.stage = "answered", !.status = status, !.set = set, !.new = None,
          !.arg = IF r.kind = "selectRemote" THEN r.arg ELSE None,
          !.scope = IF r.kind = "act" THEN r.scope ELSE DefaultScope]]
  /\ UNCHANGED browserVars

\* A page, a fragment or an action in the scope of its context, which the
\* daemon refuses once the project is gone.
Plain(t) ==
  /\ req[t].kind \in {"page", "poll", "act"}
  /\ Answer(t, IF Exists(req[t].scope) THEN "ok" ELSE "error", req[t].set)
  /\ UNCHANGED daemonVars

selectRemote(t) ==
  /\ req[t].kind = "selectRemote"
  /\ IF remoteKnown(req[t].arg)
     THEN Answer(t, "ok", [remote |-> req[t].arg, project |-> None])
     ELSE Answer(t, "error", req[t].set)
  /\ UNCHANGED daemonVars

selectProject(t) ==
  LET chosen == [remote |-> req[t].scope.remote, project |-> req[t].arg] IN
  /\ req[t].kind = "selectProject"
  /\ IF Exists(chosen)
     THEN Answer(t, "ok", [req[t].set EXCEPT !.project = chosen.project])
     ELSE Answer(t, "error", req[t].set)
  /\ UNCHANGED daemonVars

\* Set-Cookie once project p of the request's remote is called q, or is gone.
FollowProject(t, p, q) ==
  IF req[t].scope.project = p THEN [req[t].set EXCEPT !.project = q] ELSE req[t].set

\* renameProject and deleteProject: only the scope's own project moves the cookie.
changeProject(t) ==
  LET r == req[t].scope.remote
      p == req[t].arg
      q == req[t].new
      refused == p \notin projects[r] \/ q \in projects[r]
  IN
  /\ req[t].kind \in {"renameProject", "deleteProject"}
  /\ \/ /\ Answer(t, "error", req[t].set)
        /\ UNCHANGED daemonVars
     \/ /\ ~refused /\ changes < MaxChanges
        /\ changes' = changes + 1
        /\ projects' = [projects EXCEPT ![r] = (@ \ {p}) \cup ({q} \ {None})]
        /\ Answer(t, "ok", FollowProject(t, p, q))
        /\ UNCHANGED <<reachable, restarts>>

Handle(t) == Plain(t) \/ selectRemote(t) \/ selectProject(t) \/ changeProject(t)

-----------------------------------------------------------------------------
(* The environment                                                         *)

\* The server starts anew and finds other remotes up; every request it had is
\* lost.
Restart ==
  /\ restarts < MaxRestarts
  /\ restarts' = restarts + 1
  /\ reachable' \in {s \in SUBSET Remotes : Default \in s}
  /\ req' = [t \in Tabs |-> Idle]
  /\ UNCHANGED <<projects, changes, browserVars>>

\* Another client makes or removes a project.
ProjectChanges ==
  /\ changes < MaxChanges
  /\ changes' = changes + 1
  /\ \E r \in Remotes, p \in Projects :
       projects' = [projects EXCEPT ![r] = IF p \in @ THEN @ \ {p} ELSE @ \cup {p}]
  /\ UNCHANGED <<reachable, restarts, browserVars, req>>

Next ==
  \/ \E t \in Tabs : Navigate(t) \/ Poll(t) \/ Use(t) \/ Route(t) \/ RouteFails(t)
                   \/ Handle(t) \/ Arrive(t)
  \/ Restart
  \/ ProjectChanges

\* The server answers and the browser takes what arrives; the user and the
\* daemons owe nothing.
Fairness == \A t \in Tabs : WF_vars(Route(t)) /\ WF_vars(Handle(t)) /\ WF_vars(Arrive(t))

Spec == Init /\ [][Next]_vars /\ Fairness

-----------------------------------------------------------------------------
(* Properties                                                              *)

\* Type invariant.
TypeOK ==
  /\ reachable \subseteq Remotes
  /\ projects \in [Remotes -> SUBSET Projects]
  /\ jar \in Cookies
  /\ req \in [Tabs -> Request]
  /\ pick \in Remotes
  /\ expired \in BOOLEAN
  /\ restarts \in 0 .. MaxRestarts
  /\ changes \in 0 .. MaxChanges

Acted(t) == req[t].kind = "act" /\ req[t].status = "ok"

\* As long as the server reaches a second remote, an action runs on the remote
\* that was selected last when it was sent, whatever the order in which the
\* tabs' responses arrived, unless that selection was expired since
\* (withRemote).
RemoteHonoured ==
  \A t \in Tabs :
    Acted(t) /\ multi => req[t].scope.remote = req[t].pick \/ req[t].expired

\* Every request ends: the redirect of a bounced GET, sent with the cookies it
\* finds, is not bounced for ever, and the redirect of a selection is answered.
NavigationEnds ==
  \A t \in Tabs : (req[t].stage # "idle") ~> (req[t].stage = "idle")

Missing == jar.project # None /\
           ~Exists([remote |-> Wanted(jar), project |-> jar.project])

\* The UI can never be trapped in a nonexistent project (withProject): as long
\* as its requests are served, it gets out.
NeverTrapped ==
  []<>(\E t \in Tabs : req[t].status = "ok") => []<>(~Missing)

\* A stale remote's requests are bounced "rather than silently retargeted at
\* the default remote": an action never runs on a remote other than the one
\* selected last.
NoSilentRetarget ==
  \A t \in Tabs : Acted(t) => req[t].scope.remote = req[t].pick
=============================================================================

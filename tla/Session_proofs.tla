--------------------------- MODULE Session_proofs ---------------------------
(***************************************************************************)
(* Proofs about Session: an action runs on the remote that was selected    *)
(* last when it was sent.  The cookie is tied to the last selection, the   *)
(* request to the cookie it was sent with, and its scope to both.          *)
(***************************************************************************)
EXTENDS Session, TLAPS

\* What a cookie says, if anything, is the remote picked; no cookie says that
\* none was picked yet.
Says(cookies, remote) ==
  cookies.remote = remote \/ (cookies.remote = None /\ remote = Default)

\* A response sets the remote cookie to what its request selected, or expires
\* it, which the browser notes.
SetsRightly(r) ==
  \/ r.set.remote = Keep /\ ~(r.kind = "selectRemote" /\ r.status = "ok")
  \/ r.set.remote = r.arg /\ r.kind = "selectRemote" /\ r.status = "ok"
  \/ r.set.remote = None /\ r.status \in {"bounced", "conflict"}

\* A request that is not answered yet has set nothing but its project.
Ordered(r) ==
  /\ r.kind = "selectRemote" => r.arg \in Remotes
  /\ r.stage # "answered" => r.status = "none" /\ r.set.remote = Keep
  /\ r.status = "bounced" => r.kind \in Gets
  /\ SetsRightly(r)

\* An action is on its way to the remote that was selected when it was sent.
Directed(r) ==
  r.kind = "act" /\ ~r.expired =>
    /\ r.stage = "sent" => Says(r.sent, r.pick)
    /\ multi /\ (r.stage = "routed" \/ r.status = "ok") => r.scope.remote = r.pick

SessionInv ==
  /\ TypeOK
  /\ ~expired => Says(jar, pick)
  /\ \A t \in Tabs : Ordered(req[t]) /\ Directed(req[t])

-----------------------------------------------------------------------------
\* No change, and the scope of no selection.
LEMMA NeutralsAre ==
  /\ DefaultScope \in Scope
  /\ NoChange \in [remote : Remotes \cup {None, Keep}, project : Projects \cup {None, Keep}]
BY SessionAssumption DEF DefaultScope, Scope, NoChange

\* A request with another value in one of its fields.
LEMMA RequestWith ==
  ASSUME NEW r \in Request
  PROVE  /\ \A x \in {"idle", "sent", "routed", "answered"} : [r EXCEPT !.stage = x] \in Request
         /\ \A x \in Gets \cup Mutations : [r EXCEPT !.kind = x] \in Request
         /\ \A x \in Remotes \cup Projects \cup {None} : [r EXCEPT !.arg = x] \in Request
         /\ \A x \in Projects \cup {None} : [r EXCEPT !.new = x] \in Request
         /\ \A x \in Cookies : [r EXCEPT !.sent = x] \in Request
         /\ \A x \in Scope : [r EXCEPT !.scope = x] \in Request
         /\ \A x \in [remote : Remotes \cup {None, Keep}, project : Projects \cup {None, Keep}] :
              [r EXCEPT !.set = x] \in Request
         /\ \A x \in {"none", "ok", "bounced", "conflict", "error"} :
              [r EXCEPT !.status = x] \in Request
         /\ \A x \in Remotes : [r EXCEPT !.pick = x] \in Request
         /\ \A x \in BOOLEAN : [r EXCEPT !.expired = x] \in Request
BY DEF Request

\* A tab without a request.
LEMMA IdleFits == Idle \in Request /\ Ordered(Idle) /\ Directed(Idle)
<1>. USE SessionAssumption
<1>1. Idle \in Request /\ Idle.set.remote = Keep /\ Idle.status = "none" /\ Idle.kind = "page"
  BY DEF Idle, Request, Gets, Mutations, NoCookies, NoChange, DefaultScope, Cookies, Scope
<1>. QED
  BY <1>1 DEF Ordered, Directed, SetsRightly

\* The initial state.
LEMMA SessionStarts == Init => SessionInv
<1> SUFFICES ASSUME Init
             PROVE  SessionInv
  OBVIOUS
<1>. USE SessionAssumption
<1>1. reachable \subseteq Remotes /\ projects \in [Remotes -> SUBSET Projects]
  BY DEF Init
<1>2. jar \in Cookies /\ Says(jar, pick)
  BY DEF Init, NoCookies, Cookies, Says
<1>3. req \in [Tabs -> Request]
  BY IdleFits DEF Init
<1>4. pick \in Remotes /\ expired \in BOOLEAN
  BY DEF Init
<1>5. restarts \in 0 .. MaxRestarts /\ changes \in 0 .. MaxChanges
  <2>1. restarts = 0 /\ changes = 0
    BY DEF Init
  <2>. QED
    BY <2>1
<1>6. \A t \in Tabs : req[t] = Idle
  BY DEF Init
<1>. QED
  BY <1>1, <1>2, <1>3, <1>4, <1>5, <1>6, IdleFits DEF SessionInv, TypeOK

\* A step of one tab's request leaves the others as they are.
LEMMA OneRequest ==
  ASSUME SessionInv, NEW t \in Tabs, NEW n \in Request,
         req' = [req EXCEPT ![t] = n], Ordered(n), Directed(n),
         UNCHANGED reachable,
         projects' \in [Remotes -> SUBSET Projects], jar' \in Cookies, pick' \in Remotes,
         expired' \in BOOLEAN, restarts' \in 0 .. MaxRestarts, changes' \in 0 .. MaxChanges,
         ~expired' => Says(jar', pick')
  PROVE  SessionInv'
<1>1. req \in [Tabs -> Request]
  BY DEF SessionInv, TypeOK
<1>2. req' \in [Tabs -> Request] /\ \A u \in Tabs : req'[u] = IF u = t THEN n ELSE req[u]
  BY <1>1
<1>3. TypeOK'
  BY <1>2 DEF SessionInv, TypeOK
<1>4. multi' <=> multi
  BY DEF multi
<1>5. ASSUME NEW u \in Tabs
      PROVE  Ordered(req'[u]) /\ Directed(req[u])' 
  <2>1. Ordered(req'[u]) /\ Directed(req'[u])
    BY <1>2 DEF SessionInv
  <2>. QED
    BY <1>4, <2>1 DEF Directed
<1>. QED
  BY <1>3, <1>5 DEF SessionInv, Ordered, SetsRightly, Says

\* A step that changes nothing but one tab's request.
LEMMA OnlyRequest ==
  ASSUME SessionInv, NEW t \in Tabs, NEW n \in Request,
         req' = [req EXCEPT ![t] = n], Ordered(n), Directed(n),
         UNCHANGED <<daemonVars, browserVars>>
  PROVE  SessionInv'
<1>1. UNCHANGED <<reachable, projects, restarts, changes, jar, pick, expired>>
  BY DEF daemonVars, browserVars
<1>. QED
  BY <1>1, OneRequest DEF SessionInv, TypeOK, Says

\* A request takes the cookies of now, and an action remembers the selection.
LEMMA SendInv ==
  ASSUME SessionInv, NEW t \in Tabs, NEW kind \in Gets \cup Mutations,
         NEW arg \in Remotes \cup Projects \cup {None}, NEW new \in Projects \cup {None},
         kind = "selectRemote" => arg \in Remotes,
         Send(t, kind, arg, new)
  PROVE  SessionInv'
<1> DEFINE n == [Idle EXCEPT !.stage = "sent", !.kind = kind, !.arg = arg, !.new = new,
                   !.sent = jar, !.pick = IF kind = "act" THEN pick ELSE Default,
                   !.expired = kind = "act" /\ expired]
<1>. USE SessionAssumption
<1>1. jar \in Cookies /\ pick \in Remotes /\ expired \in BOOLEAN /\ (~expired => Says(jar, pick))
  BY DEF SessionInv, TypeOK
<1>2. /\ n.stage = "sent" /\ n.kind = kind /\ n.arg = arg /\ n.sent = jar
      /\ n.set = NoChange /\ n.status = "none"
      /\ kind = "act" => n.pick = pick /\ (n.expired <=> expired)
  BY DEF Idle
<1>3. n \in Request
  <2> DEFINE pickThen == IF kind = "act" THEN pick ELSE Default
             expiredThen == kind = "act" /\ expired
             n1 == [Idle EXCEPT !.stage = "sent"]
             n2 == [n1 EXCEPT !.kind = kind]
             n3 == [n2 EXCEPT !.arg = arg]
             n4 == [n3 EXCEPT !.new = new]
             n5 == [n4 EXCEPT !.sent = jar]
             n6 == [n5 EXCEPT !.pick = pickThen]
  <2>1. pickThen \in Remotes /\ expiredThen \in BOOLEAN
    BY <1>1
  <2>2. n = [n6 EXCEPT !.expired = expiredThen]
    OBVIOUS
  <2>. HIDE DEF n, n6, pickThen, expiredThen
  <2>3. n1 \in Request
    BY IdleFits, RequestWith
  <2>. HIDE DEF n1
  <2>4. n2 \in Request
    BY <2>3, RequestWith
  <2>. HIDE DEF n2
  <2>5. n3 \in Request
    BY <2>4, RequestWith
  <2>. HIDE DEF n3
  <2>6. n4 \in Request
    BY <2>5, RequestWith
  <2>. HIDE DEF n4
  <2>7. n5 \in Request
    BY <1>1, <2>6, RequestWith
  <2>. HIDE DEF n5
  <2>8. n6 \in Request
    BY <2>1, <2>7, RequestWith DEF n6
  <2>. QED
    BY <2>1, <2>2, <2>8, RequestWith
<1>4. Ordered(n)
  BY <1>2 DEF Ordered, SetsRightly, NoChange
<1>5. Directed(n)
  BY <1>1, <1>2 DEF Directed
<1>6. req' = [req EXCEPT ![t] = n] /\ UNCHANGED <<daemonVars, browserVars>>
  BY DEF Send
<1>. QED
  BY <1>3, <1>4, <1>5, <1>6, OnlyRequest

\* Whatever the user does, and whatever a page loads by itself.
LEMMA BrowserSends ==
  ASSUME SessionInv, NEW t \in Tabs, Navigate(t) \/ Poll(t) \/ Use(t)
  PROVE  SessionInv'
<1>. USE DEF Gets, Mutations
<1>1. CASE Send(t, "page", None, None)
  BY <1>1, SendInv
<1>2. CASE Send(t, "poll", None, None)
  BY <1>2, SendInv
<1>3. CASE Send(t, "act", None, None)
  BY <1>3, SendInv
<1>4. CASE \E r \in Remotes : Send(t, "selectRemote", r, None)
  BY <1>4, SendInv
<1>5. CASE \E p \in Projects \cup {None} : Send(t, "selectProject", p, None)
  BY <1>5, SendInv
<1>6. CASE \E p, q \in Projects : p # q /\ Send(t, "renameProject", p, q)
  BY <1>6, SendInv
<1>7. CASE \E p \in Projects : Send(t, "deleteProject", p, None)
  BY <1>7, SendInv
<1>. QED
  BY <1>1, <1>2, <1>3, <1>4, <1>5, <1>6, <1>7 DEF Navigate, Poll, Use

\* The response's cookies: a selection or an expiry is noted as it is stored.
LEMMA ArriveInv ==
  ASSUME SessionInv, NEW t \in Tabs, Arrive(t)
  PROVE  SessionInv'
<1> DEFINE r == req[t]
           selects == r.kind = "selectRemote" /\ r.status = "ok"
           n == CASE r.status = "bounced" -> Follow(r.kind)
                  [] r.status = "ok" /\ r.kind \in Mutations \ {"act"} -> Follow("page")
                  [] OTHER -> Idle
<1>. USE SessionAssumption
<1>1. /\ r \in Request /\ Ordered(r) /\ jar \in Cookies /\ pick \in Remotes /\ expired \in BOOLEAN
      /\ ~expired => Says(jar, pick)
  BY DEF SessionInv, TypeOK
<1>2. /\ jar' = Stored(r.set)
      /\ pick' = IF selects THEN r.arg ELSE pick
      /\ expired' = IF selects THEN FALSE ELSE expired \/ r.status \in {"bounced", "conflict"}
      /\ req' = [req EXCEPT ![t] = n]
      /\ UNCHANGED <<reachable, projects, restarts, changes>>
  BY DEF Arrive, daemonVars
<1>3. jar' \in Cookies
  BY <1>1, <1>2 DEF Stored, Cookies, Request
<1>4. pick' \in Remotes /\ expired' \in BOOLEAN
  BY <1>1, <1>2 DEF Ordered
<1>5. ~expired' => Says(jar', pick')
  <2>1. CASE selects
    <3>1. r.set.remote = r.arg /\ r.arg \in Remotes
      BY <1>1, <2>1 DEF Ordered, SetsRightly
    <3>. QED
      BY <1>2, <2>1, <3>1 DEF Stored, Says
  <2>2. CASE ~selects /\ r.set.remote = Keep
    BY <1>1, <1>2, <2>2 DEF Stored, Says
  <2>3. CASE ~selects /\ r.status \in {"bounced", "conflict"}
    BY <1>2, <2>3
  <2>. QED
    BY <1>1, <2>1, <2>2, <2>3 DEF Ordered, SetsRightly
<1>6. ASSUME NEW kind \in Gets
      PROVE  Follow(kind) \in Request /\ Ordered(Follow(kind)) /\ Directed(Follow(kind))
  <2> DEFINE f == Follow(kind)
  <2>1. /\ f.kind = kind /\ f.stage = "sent" /\ f.status = "none" /\ f.set = NoChange
        /\ kind # "act" /\ kind # "selectRemote"
    BY DEF Follow, Idle, Gets
  <2>2. f \in Request
    BY <1>3, IdleFits DEF Follow, Request
  <2>. QED
    BY <2>1, <2>2 DEF Ordered, Directed, SetsRightly, NoChange
<1>7. n \in Request /\ Ordered(n) /\ Directed(n)
  <2>1. r.status = "bounced" => r.kind \in Gets
    BY <1>1 DEF Ordered
  <2>2. "page" \in Gets
    BY DEF Gets
  <2>. QED
    BY <1>6, <2>1, <2>2, IdleFits
<1>8. restarts' \in 0 .. MaxRestarts /\ changes' \in 0 .. MaxChanges
      /\ projects' \in [Remotes -> SUBSET Projects]
  BY <1>2 DEF SessionInv, TypeOK
<1>. HIDE DEF n, r, selects
<1>9. reachable' = reachable /\ req' = [req EXCEPT ![t] = n]
  BY <1>2
<1>. QED
  BY <1>3, <1>4, <1>5, <1>7, <1>8, <1>9, OneRequest

\* withRemote and withProject: the scope is the cookie's remote, as long as
\* there is somewhere to switch to.
LEMMA RouteInv ==
  ASSUME SessionInv, NEW t \in Tabs, Route(t)
  PROVE  SessionInv'
<1> DEFINE r == [req[t] EXCEPT !.sent = NoCookies]
           cookies == req[t].sent
           remote == Wanted(cookies)
           wanted == [remote |-> remote, project |-> cookies.project]
           bounced == [r EXCEPT !.stage = "answered", !.set = ExpireRemote,
                         !.status = IF r.kind \in Gets THEN "bounced" ELSE "conflict"]
           scoped == [r EXCEPT !.stage = "routed", !.scope = wanted]
           reset == [r EXCEPT !.stage = "routed", !.scope.remote = remote, !.set = ExpireProject]
           n == IF ~remoteKnown(remote) THEN bounced ELSE IF Exists(wanted) THEN scoped ELSE reset
<1>. USE SessionAssumption
<1>1. req[t] \in Request /\ Ordered(req[t]) /\ Directed(req[t]) /\ reachable \subseteq Remotes
  BY DEF SessionInv, TypeOK
<1>2. req[t].stage = "sent" /\ req' = [req EXCEPT ![t] = n] /\ UNCHANGED <<daemonVars, browserVars>>
  BY DEF Route
<1>3. /\ r \in Request /\ r.kind = req[t].kind /\ r.arg = req[t].arg /\ r.status = "none"
      /\ r.set = req[t].set /\ r.pick = req[t].pick /\ (r.expired <=> req[t].expired)
  BY <1>1, <1>2 DEF Request, NoCookies, Cookies, Ordered
<1>4. cookies \in Cookies /\ remote \in Remotes \cup {None}
  BY <1>1 DEF Request, Cookies, Wanted
<1>5. remoteKnown(remote) => remote \in Remotes
  BY <1>1 DEF remoteKnown
<1>6. r.set.remote = Keep /\ (r.kind = "selectRemote" => r.arg \in Remotes)
  BY <1>1, <1>2, <1>3 DEF Ordered
<1>7. req[t].kind = "act" /\ ~req[t].expired /\ multi => remote = req[t].pick
  <2>1. req[t].pick \in Remotes /\ req[t].pick # None
    BY <1>1 DEF Request
  <2>. QED
    BY <1>1, <1>2, <2>1 DEF Directed, Says, Wanted
<1>. HIDE DEF r, remote
<1>8. /\ bounced.stage = "answered" /\ bounced.set = ExpireRemote /\ bounced.kind = r.kind
      /\ bounced.arg = r.arg /\ bounced.pick = r.pick
      /\ bounced.status = IF r.kind \in Gets THEN "bounced" ELSE "conflict"
  BY <1>3 DEF Request
<1>9. /\ scoped.stage = "routed" /\ scoped.set = r.set /\ scoped.kind = r.kind /\ scoped.arg = r.arg
      /\ scoped.status = "none" /\ scoped.scope.remote = remote /\ scoped.pick = r.pick
      /\ scoped.expired <=> r.expired
  BY <1>3 DEF Request
<1>10. /\ reset.stage = "routed" /\ reset.set = ExpireProject /\ reset.kind = r.kind /\ reset.arg = r.arg
       /\ reset.status = "none" /\ reset.scope.remote = remote /\ reset.pick = r.pick
       /\ reset.expired <=> r.expired
  BY <1>3 DEF Request, Scope
<1>11. bounced \in Request /\ Ordered(bounced) /\ Directed(bounced)
  <2>1. bounced \in Request
    <3> DEFINE status == IF r.kind \in Gets THEN "bounced" ELSE "conflict"
               n1 == [r EXCEPT !.stage = "answered"]
               n2 == [n1 EXCEPT !.set = ExpireRemote]
    <3>1. bounced = [n2 EXCEPT !.status = status]
      OBVIOUS
    <3>2. status \in {"bounced", "conflict"}
      OBVIOUS
    <3>3. ExpireRemote \in [remote : Remotes \cup {None, Keep}, project : Projects \cup {None, Keep}]
      BY DEF ExpireRemote, NoChange
    <3>. HIDE DEF status, bounced, n2
    <3>4. n1 \in Request
      BY <1>3, RequestWith
    <3>. HIDE DEF n1
    <3>5. n2 \in Request
      BY <3>3, <3>4, RequestWith DEF n2
    <3>. QED
      BY <3>1, <3>2, <3>5, RequestWith
  <2>2. bounced.set.remote = None
    BY <1>8 DEF ExpireRemote, NoChange
  <2>. QED
    BY <1>6, <1>8, <2>1, <2>2 DEF Ordered, Directed, SetsRightly
<1>12. remoteKnown(remote) => scoped \in Request /\ Ordered(scoped) /\ Directed(scoped)
  <2>1. remoteKnown(remote) => scoped \in Request
    BY <1>3, <1>4, <1>5 DEF Request, Scope, Cookies
  <2>. QED
    BY <1>3, <1>6, <1>7, <1>9, <2>1 DEF Ordered, Directed, SetsRightly
<1>13. remoteKnown(remote) => reset \in Request /\ Ordered(reset) /\ Directed(reset)
  <2>1. remoteKnown(remote) => reset \in Request
    BY <1>3, <1>4, <1>5 DEF Request, Scope, ExpireProject, NoChange
  <2>2. reset.set.remote = Keep
    BY <1>10 DEF ExpireProject, NoChange
  <2>. QED
    BY <1>3, <1>6, <1>7, <1>10, <2>1, <2>2 DEF Ordered, Directed, SetsRightly
<1>14. n \in Request /\ Ordered(n) /\ Directed(n)
  BY <1>11, <1>12, <1>13
<1>. HIDE DEF n
<1>. QED
  BY <1>2, <1>14, OnlyRequest

\* The failure of withProject's look.
LEMMA RouteFailsInv ==
  ASSUME SessionInv, NEW t \in Tabs, RouteFails(t)
  PROVE  SessionInv'
<1> DEFINE n == [req[t] EXCEPT !.stage = "answered", !.sent = NoCookies, !.status = "error"]
<1>1. req[t] \in Request /\ Ordered(req[t]) /\ req[t].stage = "sent"
  BY DEF SessionInv, TypeOK, RouteFails
<1>2. /\ n \in Request /\ n.kind = req[t].kind /\ n.arg = req[t].arg /\ n.set = req[t].set
      /\ n.status = "error" /\ n.stage = "answered"
  BY <1>1 DEF Request, NoCookies, Cookies
<1>3. Ordered(n) /\ Directed(n)
  BY <1>1, <1>2 DEF Ordered, Directed, SetsRightly
<1>4. req' = [req EXCEPT ![t] = n] /\ UNCHANGED <<daemonVars, browserVars>>
  BY DEF RouteFails
<1>. HIDE DEF n
<1>. QED
  BY <1>2, <1>3, <1>4, OnlyRequest

\* What an answer may set: the selection of a remote, or a project only.
LEMMA AnswerInv ==
  ASSUME SessionInv, NEW t \in Tabs, NEW status \in {"ok", "error"},
         NEW set \in [remote : Remotes \cup {None, Keep}, project : Projects \cup {None, Keep}],
         Answer(t, status, set),
         IF req[t].kind = "selectRemote" /\ status = "ok"
           THEN set.remote = req[t].arg ELSE set.remote = Keep,
         UNCHANGED reachable, projects' \in [Remotes -> SUBSET Projects],
         restarts' \in 0 .. MaxRestarts, changes' \in 0 .. MaxChanges
  PROVE  SessionInv'
<1> DEFINE r == req[t]
           n == [r EXCEPT !.stage = "answered", !.status = status, !.set = set, !.new = None,
                   !.arg = IF r.kind = "selectRemote" THEN r.arg ELSE None,
                   !.scope = IF r.kind = "act" THEN r.scope ELSE DefaultScope]
<1>. USE SessionAssumption
<1>1. r \in Request /\ Ordered(r) /\ Directed(r) /\ r.stage = "routed"
  BY DEF SessionInv, TypeOK, Answer
<1>2. /\ req' = [req EXCEPT ![t] = n] /\ UNCHANGED <<jar, pick, expired>>
  BY DEF Answer, browserVars
<1>. HIDE DEF r
<1>3. n \in Request
  <2> DEFINE arg == IF r.kind = "selectRemote" THEN r.arg ELSE None
             scope == IF r.kind = "act" THEN r.scope ELSE DefaultScope
             n1 == [r EXCEPT !.stage = "answered"]
             n2 == [n1 EXCEPT !.status = status]
             n3 == [n2 EXCEPT !.set = set]
             n4 == [n3 EXCEPT !.new = None]
             n5 == [n4 EXCEPT !.arg = arg]
  <2>1. n = [n5 EXCEPT !.scope = scope]
    OBVIOUS
  <2>2. r.arg \in Remotes \cup Projects \cup {None} /\ r.scope \in Scope
    BY <1>1 DEF Request
  <2>3. arg \in Remotes \cup Projects \cup {None} /\ scope \in Scope
    BY <2>2, NeutralsAre
  <2>. HIDE DEF n, n5, arg, scope
  <2>4. n1 \in Request
    BY <1>1, RequestWith
  <2>. HIDE DEF n1
  <2>5. n2 \in Request
    BY <2>4, RequestWith
  <2>. HIDE DEF n2
  <2>6. n3 \in Request
    BY <2>5, RequestWith
  <2>. HIDE DEF n3
  <2>7. n4 \in Request
    BY <2>6, RequestWith
  <2>. HIDE DEF n4
  <2>8. n5 \in Request
    BY <2>3, <2>7, RequestWith DEF n5
  <2>. QED
    BY <2>1, <2>3, <2>8, RequestWith
<1>4. /\ n.stage = "answered" /\ n.status = status /\ n.set = set /\ n.kind = r.kind
      /\ n.kind = "selectRemote" => n.arg = r.arg
      /\ n.kind = "act" => n.scope = r.scope
      /\ n.pick = r.pick /\ (n.expired <=> r.expired)
  BY <1>1 DEF Request
<1>5. Ordered(n)
  BY <1>1, <1>4 DEF Ordered, SetsRightly, r
<1>6. Directed(n)
  BY <1>1, <1>4 DEF Directed
<1>7. jar' \in Cookies /\ pick' \in Remotes /\ expired' \in BOOLEAN /\ (~expired' => Says(jar', pick'))
  BY <1>2 DEF SessionInv, TypeOK, Says
<1>. HIDE DEF n
<1>. QED
  BY <1>2, <1>3, <1>5, <1>6, <1>7, OneRequest

\* The handlers: pages, actions, the selections and the projects' forms.
LEMMA HandleInv ==
  ASSUME SessionInv, NEW t \in Tabs, Handle(t)
  PROVE  SessionInv'
<1> DEFINE r == req[t]
<1>. USE SessionAssumption
<1>1. /\ r \in Request /\ Ordered(r)
      /\ r.set \in [remote : Remotes \cup {None, Keep}, project : Projects \cup {None, Keep}]
      /\ r.stage = "routed" => r.set.remote = Keep
  BY DEF SessionInv, TypeOK, Request, Ordered
<1>2. /\ projects \in [Remotes -> SUBSET Projects] /\ restarts \in 0 .. MaxRestarts
      /\ changes \in 0 .. MaxChanges
  BY DEF SessionInv, TypeOK
<1>3. UNCHANGED daemonVars => /\ UNCHANGED reachable /\ projects' \in [Remotes -> SUBSET Projects]
                              /\ restarts' \in 0 .. MaxRestarts /\ changes' \in 0 .. MaxChanges
  BY <1>2 DEF daemonVars
<1>4. ASSUME NEW status \in {"ok", "error"}, NEW set, Answer(t, status, set)
      PROVE  r.stage = "routed" /\ r.set.remote = Keep
  BY <1>1, <1>4 DEF Answer
<1>5. CASE Plain(t)
  <2>1. PICK status \in {"ok", "error"} : Answer(t, status, r.set)
    BY <1>5 DEF Plain
  <2>2. r.set.remote = Keep /\ r.kind # "selectRemote" /\ UNCHANGED daemonVars
    BY <1>4, <1>5, <2>1 DEF Plain
  <2>. QED
    BY <1>1, <1>3, <2>1, <2>2, AnswerInv
<1>6. CASE selectRemote(t)
  <2> DEFINE set == [remote |-> r.arg, project |-> None]
  <2>1. r.kind = "selectRemote" /\ r.arg \in Remotes /\ UNCHANGED daemonVars
    BY <1>1, <1>6 DEF selectRemote, Ordered
  <2>2. set \in [remote : Remotes \cup {None, Keep}, project : Projects \cup {None, Keep}]
    BY <2>1
  <2>3. set.remote = r.arg
    OBVIOUS
  <2>. HIDE DEF set
  <2>4. CASE Answer(t, "ok", set)
    BY <1>3, <2>1, <2>2, <2>3, <2>4, AnswerInv
  <2>5. CASE Answer(t, "error", r.set)
    BY <1>1, <1>3, <1>4, <2>1, <2>5, AnswerInv
  <2>. QED
    BY <1>6, <2>4, <2>5 DEF selectRemote, set
<1>7. CASE selectProject(t)
  <2> DEFINE set == [r.set EXCEPT !.project = r.arg]
  <2>1. r.kind = "selectProject" /\ UNCHANGED daemonVars
    BY <1>7 DEF selectProject
  <2>2. CASE Answer(t, "error", r.set)
    BY <1>1, <1>3, <1>4, <2>1, <2>2, AnswerInv
  <2>3. CASE Answer(t, "ok", set) /\ Exists([remote |-> r.scope.remote, project |-> r.arg])
    <3>1. r.scope.remote \in Remotes
      BY <1>1 DEF Request, Scope
    <3>2. r.arg \in Projects \cup {None}
      BY <1>2, <2>3, <3>1 DEF Exists
    <3>3. set \in [remote : Remotes \cup {None, Keep}, project : Projects \cup {None, Keep}]
          /\ set.remote = r.set.remote
      BY <1>1, <3>2
    <3>4. set.remote = Keep
      BY <1>4, <2>3, <3>3
    <3>. HIDE DEF set
    <3>. QED
      BY <1>3, <2>1, <2>3, <3>3, <3>4, AnswerInv
  <2>. QED
    BY <1>7, <2>2, <2>3 DEF selectProject
<1>8. CASE changeProject(t)
  <2> DEFINE q == r.new
             p == r.arg
             h == r.scope.remote
             set == FollowProject(t, p, q)
  <2>1. r.kind \in {"renameProject", "deleteProject"}
    BY <1>8 DEF changeProject
  <2>2. CASE Answer(t, "error", r.set) /\ UNCHANGED daemonVars
    BY <1>1, <1>3, <1>4, <2>1, <2>2, AnswerInv
  <2>3. CASE /\ changes < MaxChanges /\ changes' = changes + 1
             /\ projects' = [projects EXCEPT ![h] = (@ \ {p}) \cup ({q} \ {None})]
             /\ Answer(t, "ok", set)
             /\ UNCHANGED <<reachable, restarts>>
    <3>1. q \in Projects \cup {None} /\ h \in Remotes
      BY <1>1 DEF Request, Scope
    <3>2. projects' \in [Remotes -> SUBSET Projects] /\ changes' \in 0 .. MaxChanges
          /\ restarts' \in 0 .. MaxRestarts
      BY <1>2, <2>3, <3>1
    <3>3. set \in [remote : Remotes \cup {None, Keep}, project : Projects \cup {None, Keep}]
          /\ set.remote = r.set.remote
      BY <1>1, <3>1 DEF FollowProject
    <3>. HIDE DEF set
    <3>4. set.remote = Keep
      BY <1>4, <2>3, <3>3
    <3>. QED
      BY <2>1, <2>3, <3>2, <3>3, <3>4, AnswerInv
  <2>. QED
    BY <1>8, <2>2, <2>3 DEF changeProject
<1>. QED
  BY <1>5, <1>6, <1>7, <1>8 DEF Handle

\* The server starts anew: no request is left whose scope was another's.
LEMMA SurroundingsInv ==
  ASSUME SessionInv, Restart \/ ProjectChanges
  PROVE  SessionInv'
<1>. USE SessionAssumption
<1>1. TypeOK /\ (~expired => Says(jar, pick))
  BY DEF SessionInv
<1>2. CASE Restart
  <2>1. /\ reachable' \subseteq Remotes /\ req' = [t \in Tabs |-> Idle]
        /\ UNCHANGED <<projects, changes, jar, pick, expired>>
        /\ restarts < MaxRestarts /\ restarts' = restarts + 1
    BY <1>2 DEF Restart, browserVars
  <2>2. restarts' \in 0 .. MaxRestarts
    BY <1>1, <2>1 DEF TypeOK
  <2>3. TypeOK'
    BY <1>1, <2>1, <2>2, IdleFits DEF TypeOK
  <2>4. ASSUME NEW t \in Tabs
        PROVE  (Ordered(req[t]) /\ Directed(req[t]))'
    <3>1. req'[t] = Idle
      BY <2>1
    <3>2. Idle.kind = "page"
      BY DEF Idle
    <3>. QED
      BY <3>1, <3>2, IdleFits DEF Ordered, SetsRightly, Directed
  <2>. QED
    BY <1>1, <2>1, <2>3, <2>4 DEF SessionInv, Says
<1>3. CASE ProjectChanges
  <2>1. /\ UNCHANGED <<reachable, restarts, jar, pick, expired, req>>
        /\ changes < MaxChanges /\ changes' = changes + 1
    BY <1>3 DEF ProjectChanges, browserVars
  <2>2. changes' \in 0 .. MaxChanges
    BY <1>1, <2>1 DEF TypeOK
  <2>3. projects' \in [Remotes -> SUBSET Projects]
    BY <1>1, <1>3 DEF ProjectChanges, TypeOK
  <2>4. TypeOK'
    BY <1>1, <2>1, <2>2, <2>3 DEF TypeOK
  <2>5. multi' <=> multi
    BY <2>1 DEF multi
  <2>. QED
    BY <2>1, <2>4, <2>5 DEF SessionInv, Says, Ordered, SetsRightly, Directed
<1>. QED
  BY <1>2, <1>3

LEMMA SessionSteps == SessionInv /\ [Next]_vars => SessionInv'
<1>1. SessionInv /\ Next => SessionInv'
  BY BrowserSends, RouteInv, RouteFailsInv, HandleInv, ArriveInv, SurroundingsInv DEF Next
<1>2. SessionInv /\ UNCHANGED vars => SessionInv'
  <2>1. UNCHANGED vars => UNCHANGED <<reachable, projects, restarts, changes, jar, pick, expired, req>>
    BY DEF vars, daemonVars, browserVars
  <2>2. UNCHANGED reachable => (multi' <=> multi)
    BY DEF multi
  <2>. QED
    BY <2>1, <2>2 DEF SessionInv, TypeOK, Says, Ordered, SetsRightly, Directed
<1>. QED
  BY <1>1, <1>2

\* Requests, cookies and scopes are well typed for any remotes and projects.
THEOREM SessionTyped == Spec => []TypeOK
<1>1. SessionInv => TypeOK
  BY DEF SessionInv
<1>. QED
  BY <1>1, SessionStarts, SessionSteps, PTL DEF Spec

\* As long as there is a second remote, withRemote runs an action on the remote
\* selected last when it was sent, or that selection was expired since.
THEOREM SelectionHonoured == Spec => []RemoteHonoured
<1>1. SessionInv => RemoteHonoured
  BY DEF SessionInv, Directed, RemoteHonoured, Acted
<1>. QED
  BY <1>1, SessionStarts, SessionSteps, PTL DEF Spec
=============================================================================

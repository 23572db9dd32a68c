-------------------------- MODULE EditForms_proofs --------------------------
(***************************************************************************)
(* The edit forms keep the contract of OptimisticEdit, for every set of    *)
(* tabs and values, whether versions identify revisions or contents, as    *)
(* long as every page that carries a version sends it back or has its      *)
(* handler insist on it.                                                   *)
(*                                                                         *)
(* The argument: the page, the handler's read and the driver's read are    *)
(* taken in this order, each agrees with the resource, on what its version *)
(* covers, as long as the resource has the revision it was read at, and so *)
(* do the later ones when the earliest does.                               *)
(***************************************************************************)
EXTENDS EditForms, TLAPS

\* Every page of the UI that carries a version sends it back, or its handler
\* refuses the request.
TokensInsisted == \A f \in Forms : f.version = "passed" => "passed" \notin BlankTokens

\* Of the covered fields, both values hold the same.
Same(covers, u, v) == \A x \in covers : u[x] = v[x]

\* A read agrees with the resource d until the resource gets another revision.
Current(covers, d, read) ==
  read.rev <= d.rev /\ (read.rev = d.rev => Same(covers, read.val, d.val))

\* What a write may make of the resource d.
Follows(covers, d, e) ==
  \/ e.rev = d.rev + 1
  \/ e.rev = d.rev /\ covers # Fields /\ e.exists = d.exists /\ Same(covers, e.val, d.val)

InOrder(covers, d, c) ==
  /\ c.pc # "closed" => Current(covers, d, c.shown)
  /\ c.pc \in {"driving", "putting"} /\ HandlerReads(c.form)
       => Current(covers, d, c.handler) /\ c.shown.rev <= c.handler.rev
  /\ c.pc = "putting" /\ c.form.driver.reads
       => /\ Current(covers, d, c.driver)
          /\ c.shown.rev <= c.driver.rev
          /\ HandlerReads(c.form) => c.handler.rev <= c.driver.rev

\* A page shows one of the resource's forms, and its request has the token.
Asked(forms, c) ==
  /\ c.pc # "closed" => c.form \in forms
  /\ c.pc \in {"handling", "driving", "putting"} => c.sent = Carries(c.form)

Inv ==
  /\ TypeOK
  /\ \A t \in Tabs : InOrder(resource.covers, doc, tab[t]) /\ Asked(resource.forms, tab[t])

-----------------------------------------------------------------------------
\* Some form is there for a closed tab to name.
LEMMA ClosedType == Closed \in Tab
<1>1. (CHOOSE f \in Forms : TRUE) \in Forms
  BY EditAssumption
<1>2. Zero \in Val
  BY EditAssumption DEF Zero, Val
<1>3. NoRead \in Read
  BY <1>2 DEF NoRead, Read
<1> QED
  BY <1>1, <1>2, <1>3 DEF Closed, Tab

\* The value of a resource that was just created or read.
LEMMA GetType == doc \in Doc => Get \in Read
BY DEF Doc, Get, Read

\* A tab's form, and what its resource is.
LEMMA KindType ==
  ASSUME TypeOK
  PROVE  /\ resource \in Resource
         /\ resource.covers \subseteq Fields /\ resource.content \in BOOLEAN
         /\ Forms \subseteq Form
BY EditAssumption DEF TypeOK, Resource, Forms

\* A written resource is one, of the next revision or of the same.
LEMMA WrittenType ==
  ASSUME TypeOK, NEW v \in Val
  PROVE  /\ Written(v) \in Doc /\ Written(v).exists /\ Written(v).val = v
         /\ doc.exists => Follows(resource.covers, doc, Written(v))
<1>1. doc \in Doc /\ doc.rev \in Nat
  BY DEF TypeOK, Doc
<1>2. Written(v) \in Doc /\ Written(v).exists /\ Written(v).val = v
  BY <1>1 DEF Written, Doc
<1>3. CASE resource.covers = Fields \/ \E x \in resource.covers : v[x] # doc.val[x]
  <2>1. Written(v).rev = doc.rev + 1
    BY <1>3 DEF Written
  <2> QED
    BY <1>2, <2>1 DEF Follows
<1>4. CASE ~(resource.covers = Fields \/ \E x \in resource.covers : v[x] # doc.val[x])
  <2>1. Written(v).rev = doc.rev
    BY <1>4 DEF Written
  <2> QED
    BY <1>2, <1>4, <2>1 DEF Follows, Same
<1> QED
  BY <1>3, <1>4

\* Another writer's change of a field.
LEMMA ChangeFollows ==
  ASSUME TypeOK, NEW x \in Fields, NEW v \in Values, Change(x, v)
  PROVE  Follows(resource.covers, doc, doc') /\ doc' \in Doc
<1>1. [doc.val EXCEPT ![x] = v] \in Val
  BY DEF TypeOK, Doc, Val
<1> QED
  BY <1>1, WrittenType DEF Change

\* What a PUT sends is a value of the resource.
LEMMA BodyType ==
  ASSUME TypeOK, NEW t \in Tabs
  PROVE  Body(t) \in Val
<1>1. tab[t] \in Tab /\ doc \in Doc
  BY DEF TypeOK
<1>2. /\ tab[t].edits \in Val /\ tab[t].handler.val \in Val
      /\ tab[t].driver.val \in Val /\ doc.val \in Val
  BY <1>1 DEF Tab, Read, Doc
<1>3. SUFFICES ASSUME NEW x \in Fields PROVE Body(t)[x] \in Values
  BY DEF Body, Val
<1>4. /\ tab[t].edits[x] \in Values /\ tab[t].handler.val[x] \in Values
      /\ tab[t].driver.val[x] \in Values /\ doc.val[x] \in Values
  BY <1>2 DEF Val
<1> QED
  BY <1>4 DEF Body

-----------------------------------------------------------------------------
\* The type invariant is inductive.
LEMMA TypeStep == TypeOK /\ [Next]_vars => TypeOK'
<1> SUFFICES ASSUME TypeOK, [Next]_vars PROVE TypeOK'
  OBVIOUS
<1>c. Closed \in Tab
  BY ClosedType
<1>g. Get \in Read
  BY GetType DEF TypeOK
<1>k. resource' \in Resources
  BY DEF Next, vars, TypeOK
<1>r. ASSUME NEW t \in Tabs, Refuse(t), UNCHANGED doc PROVE TypeOK'
  BY <1>k, <1>r, <1>c DEF Refuse, TypeOK
<1>1. ASSUME NEW t \in Tabs, NEW f \in Forms, Open(t, f) PROVE TypeOK'
  <2>1. Page(f, Get) \in Tab
    <3>1. Zero \in Val
      BY EditAssumption DEF Zero, Val
    <3>2. NoRead \in Read
      BY <3>1 DEF NoRead, Read
    <3> QED
      BY <1>g, <3>1, <3>2 DEF Page, Tab
  <2> QED
    BY <1>k, <1>1, <2>1 DEF Open, TypeOK
<1>2. ASSUME NEW t \in Tabs, Submit(t) PROVE TypeOK'
  <2> DEFINE f == tab[t].form
  <2>1. PICK e \in Edits(f), sent \in BOOLEAN :
          IF Demanded(f, sent)
          THEN tab' = [tab EXCEPT ![t] =
                 [@ EXCEPT !.edits = e, !.sent = sent,
                    !.pc = IF HandlerReads(f) THEN "handling" ELSE AfterHandler(f)]]
          ELSE Refuse(t)
    BY <1>2 DEF Submit
  <2>2. UNCHANGED doc
    BY <1>2 DEF Submit
  <2>3. CASE ~Demanded(f, sent)
    BY <1>r, <2>1, <2>2, <2>3
  <2>4. CASE Demanded(f, sent)
    <3> DEFINE c == [tab[t] EXCEPT !.edits = e, !.sent = sent,
                    !.pc = IF HandlerReads(f) THEN "handling" ELSE AfterHandler(f)]
    <3>1. tab[t] \in Tab /\ e \in Val
      BY DEF TypeOK, Edits
    <3>2. (IF HandlerReads(f) THEN "handling" ELSE AfterHandler(f))
             \in {"closed", "open", "handling", "driving", "putting"}
      BY DEF AfterHandler
    <3>3. c \in Tab
      BY <3>1, <3>2 DEF Tab
    <3> HIDE DEF c
    <3>4. tab' = [tab EXCEPT ![t] = c]
      BY <2>1, <2>4 DEF c
    <3> QED
      BY <1>k, <2>2, <3>3, <3>4 DEF TypeOK
  <2> QED
    BY <2>3, <2>4
<1>3. ASSUME NEW t \in Tabs, HandlerGet(t) PROVE TypeOK'
  <2>1. CASE Refuse(t)
    BY <1>3, <1>r, <2>1 DEF HandlerGet
  <2>2. CASE tab' = [tab EXCEPT ![t] =
               [@ EXCEPT !.handler = Get, !.pc = AfterHandler(tab[t].form)]]
    <3>1. tab[t] \in Tab
      BY DEF TypeOK
    <3>2. [tab[t] EXCEPT !.handler = Get, !.pc = AfterHandler(tab[t].form)] \in Tab
      BY <3>1, <1>g DEF Tab, AfterHandler
    <3> QED
      BY <1>k, <1>3, <2>2, <3>2 DEF HandlerGet, TypeOK
  <2> QED
    BY <1>3, <2>1, <2>2 DEF HandlerGet
<1>4. ASSUME NEW t \in Tabs, DriverGet(t) PROVE TypeOK'
  <2>1. CASE Refuse(t)
    BY <1>4, <1>r, <2>1 DEF DriverGet
  <2>2. CASE tab' = [tab EXCEPT ![t] = [@ EXCEPT !.driver = Get, !.pc = "putting"]]
    <3>1. tab[t] \in Tab
      BY DEF TypeOK
    <3>2. [tab[t] EXCEPT !.driver = Get, !.pc = "putting"] \in Tab
      BY <3>1, <1>g DEF Tab
    <3> QED
      BY <1>k, <1>4, <2>2, <3>2 DEF DriverGet, TypeOK
  <2> QED
    BY <1>4, <2>1, <2>2 DEF DriverGet
<1>5. ASSUME NEW t \in Tabs, Put(t) PROVE TypeOK'
  <2>1. Body(t) \in Val
    BY BodyType
  <2>2. doc' \in Doc
    BY <1>5, <2>1, WrittenType DEF Put
  <2> QED
    BY <1>k, <1>5, <2>2, <1>c DEF Put, TypeOK
<1>6. ASSUME NEW t \in Tabs, PutRefused(t) PROVE TypeOK'
  BY <1>6, <1>r DEF PutRefused
<1>7. ASSUME NEW x \in Fields, NEW v \in Values, Change(x, v) PROVE TypeOK'
  BY <1>k, <1>7, ChangeFollows DEF Change, TypeOK
<1>8. CASE Delete
  BY <1>k, <1>8 DEF Delete, TypeOK, Doc
<1>9. CASE Recreate
  <2>1. Zero \in Val
    BY EditAssumption DEF Zero, Val
  <2> QED
    BY <1>k, <1>9, <2>1 DEF Recreate, TypeOK, Doc
<1>10. CASE UNCHANGED vars
  BY <1>10 DEF vars, TypeOK
<1> QED
  BY <1>1, <1>2, <1>3, <1>4, <1>5, <1>6, <1>7, <1>8, <1>9, <1>10 DEF Next, Step

\* The edit pages and the requests they send keep their types.
THEOREM TypeCorrect == Spec => []TypeOK
<1>1. Init => TypeOK
  <2> SUFFICES ASSUME Init PROVE TypeOK
    OBVIOUS
  <2>1. Zero \in Val
    BY EditAssumption DEF Zero, Val
  <2>2. [Zero EXCEPT !["device"] = 1] \in Val
    BY <2>1, EditAssumption DEF Val
  <2> QED
    BY <2>2, ClosedType DEF Init, TypeOK, Doc
<1> QED
  BY <1>1, TypeStep, PTL DEF Spec

-----------------------------------------------------------------------------
\* A write that changes what a read saw makes it old, and keeps their order.
LEMMA OrderKept ==
  ASSUME NEW covers, NEW d \in Doc, NEW e \in Doc, NEW c \in Tab, InOrder(covers, d, c),
         e = d \/ Follows(covers, d, e)
  PROVE  InOrder(covers, e, c)
<1>1. /\ d.rev \in Nat /\ e.rev \in Nat /\ c.shown.rev \in Nat
      /\ c.handler.rev \in Nat /\ c.driver.rev \in Nat
  BY DEF Doc, Tab, Read
<1>2. ASSUME NEW r, r.rev \in Nat, Current(covers, d, r) PROVE Current(covers, e, r)
  <2>1. CASE e = d
    BY <1>2, <2>1
  <2>2. CASE e.rev = d.rev + 1
    BY <1>1, <1>2, <2>2 DEF Current
  <2>3. CASE e.rev = d.rev /\ Same(covers, e.val, d.val)
    BY <1>2, <2>3 DEF Current, Same
  <2> QED
    BY <2>1, <2>2, <2>3 DEF Follows
<1> QED
  BY <1>1, <1>2 DEF InOrder

\* A step that does not move tab t keeps what the invariant says of it.
LEMMA TabKept ==
  ASSUME Inv, TypeOK', NEW t \in Tabs, tab'[t] = tab[t],
         doc' = doc \/ Follows(resource.covers, doc, doc')
  PROVE  InOrder(resource.covers, doc', tab'[t]) /\ Asked(resource.forms, tab'[t])
<1>1. doc \in Doc /\ doc' \in Doc /\ tab[t] \in Tab
  BY DEF Inv, TypeOK
<1>2. InOrder(resource.covers, doc, tab[t]) /\ Asked(resource.forms, tab[t])
  BY DEF Inv
<1>3. InOrder(resource.covers, doc', tab[t])
  BY <1>1, <1>2, OrderKept
<1> QED
  BY <1>2, <1>3

\* A closed tab is subject to nothing.
LEMMA ClosedFine ==
  ASSUME NEW covers, NEW forms, NEW d PROVE InOrder(covers, d, Closed) /\ Asked(forms, Closed)
BY DEF Closed, InOrder, Asked

\* Only the tab that takes a step changes.
LEMMA OneTab ==
  ASSUME Inv, TypeOK', UNCHANGED resource,
         NEW t \in Tabs, NEW c, tab' = [tab EXCEPT ![t] = c],
         doc' = doc \/ Follows(resource.covers, doc, doc'),
         InOrder(resource.covers, doc', c), Asked(resource.forms, c)
  PROVE  Inv'
<1>1. tab'[t] = c /\ \A s \in Tabs \ {t} : tab'[s] = tab[s]
  BY DEF Inv, TypeOK
<1>2. ASSUME NEW s \in Tabs PROVE InOrder(resource.covers, doc', tab'[s]) /\ Asked(resource.forms, tab'[s])
  <2>1. CASE s = t
    BY <1>1, <2>1
  <2>2. CASE s # t
    BY <1>1, <2>2, TabKept
  <2> QED
    BY <2>1, <2>2
<1> QED
  BY <1>2 DEF Inv

\* A read of the resource is current.
LEMMA GetCurrent == doc \in Doc => Current(resource.covers, doc, Get)
BY DEF Doc, Get, Current, Same

\* The order of the reads is kept by every step.
LEMMA InvStep == TokensInsisted /\ Inv /\ [Next]_vars => Inv'
<1> SUFFICES ASSUME TokensInsisted, Inv, [Next]_vars PROVE Inv'
  OBVIOUS
<1>t. TypeOK'
  BY TypeStep DEF Inv
<1>u. UNCHANGED resource
  BY DEF Next, vars
<1>d. doc \in Doc /\ doc.rev \in Nat
  BY DEF Inv, TypeOK, Doc
<1>g. Current(resource.covers, doc, Get) /\ Get.rev = doc.rev
  BY <1>d, GetCurrent DEF Get
<1>r. ASSUME NEW t \in Tabs, Refuse(t), UNCHANGED doc PROVE Inv'
  BY <1>r, <1>t, <1>u, ClosedFine, OneTab DEF Refuse
<1>1. ASSUME NEW t \in Tabs, NEW f \in Forms, Open(t, f) PROVE Inv'
  <2>1. InOrder(resource.covers, doc, Page(f, Get)) /\ Asked(resource.forms, Page(f, Get))
    BY <1>1, <1>g DEF Open, Page, InOrder, Asked
  <2> QED
    BY <1>1, <1>t, <1>u, <2>1, OneTab DEF Open
<1>2. ASSUME NEW t \in Tabs, Submit(t) PROVE Inv'
  <2> DEFINE f == tab[t].form
  <2>1. PICK e \in Edits(f), sent \in BOOLEAN :
          /\ sent => Carries(f)
          /\ ~sent /\ Carries(f) => f.version \in BlankTokens
          /\ IF Demanded(f, sent)
             THEN tab' = [tab EXCEPT ![t] =
                 [@ EXCEPT !.edits = e, !.sent = sent,
                    !.pc = IF HandlerReads(f) THEN "handling" ELSE AfterHandler(f)]]
             ELSE Refuse(t)
    BY <1>2 DEF Submit
  <2>2. UNCHANGED doc /\ tab[t].pc = "open"
    BY <1>2 DEF Submit
  <2>3. CASE ~Demanded(f, sent)
    BY <1>r, <2>1, <2>2, <2>3
  <2>4. CASE Demanded(f, sent)
    <3> DEFINE c == [tab[t] EXCEPT !.edits = e, !.sent = sent,
                    !.pc = IF HandlerReads(f) THEN "handling" ELSE AfterHandler(f)]
    <3>1. tab[t] \in Tab /\ f \in Forms
      BY DEF Inv, TypeOK, Tab
    <3>2. /\ c.sent = sent /\ c.form = f /\ c.shown = tab[t].shown
          /\ c.pc = (IF HandlerReads(f) THEN "handling" ELSE AfterHandler(f))
      BY <3>1 DEF Tab
    <3>3. sent = Carries(f)
      <4>1. Carries(f) => sent
        BY <2>1, <2>4, <3>1 DEF TokensInsisted, Demanded, Carries
      <4>2. sent => Carries(f)
        BY <2>1
      <4>3. Carries(f) \in BOOLEAN
        BY DEF Carries
      <4> QED
        BY <4>1, <4>2, <4>3
    <3>4. Asked(resource.forms, c)
      BY <2>2, <3>2, <3>3 DEF Asked, Inv
    <3>5. Current(resource.covers, doc, tab[t].shown)
      BY <2>2 DEF Inv, InOrder
    <3>6. InOrder(resource.covers, doc, c)
      BY <3>2, <3>5 DEF InOrder, AfterHandler
    <3> HIDE DEF c
    <3>7. tab' = [tab EXCEPT ![t] = c]
      BY <2>1, <2>4 DEF c
    <3> QED
      BY <1>t, <1>u, <2>2, <3>4, <3>6, <3>7, OneTab
  <2> QED
    BY <2>3, <2>4
<1>3. ASSUME NEW t \in Tabs, HandlerGet(t) PROVE Inv'
  <2>1. CASE Refuse(t)
    BY <1>3, <1>r, <2>1 DEF HandlerGet
  <2>2. CASE tab' = [tab EXCEPT ![t] =
               [@ EXCEPT !.handler = Get, !.pc = AfterHandler(tab[t].form)]]
    <3> DEFINE c == [tab[t] EXCEPT !.handler = Get, !.pc = AfterHandler(tab[t].form)]
    <3>1. tab[t] \in Tab /\ InOrder(resource.covers, doc, tab[t]) /\ Asked(resource.forms, tab[t])
      BY DEF Inv, TypeOK
    <3>2. tab[t].pc = "handling" /\ UNCHANGED doc
      BY <1>3 DEF HandlerGet
    <3>3. /\ c.form = tab[t].form /\ c.sent = tab[t].sent /\ c.shown = tab[t].shown
          /\ c.handler = Get /\ c.pc = AfterHandler(tab[t].form)
      BY <3>1 DEF Tab
    <3>4. c.pc = "putting" => ~c.form.driver.reads
      BY <3>3 DEF AfterHandler
    <3>5. Asked(resource.forms, c)
      BY <3>1, <3>2, <3>3 DEF Asked
    <3>6. Current(resource.covers, doc, tab[t].shown)
      BY <3>1, <3>2 DEF InOrder
    <3>7. InOrder(resource.covers, doc, c)
      BY <1>g, <3>3, <3>4, <3>6 DEF InOrder, Current
    <3> HIDE DEF c
    <3>8. tab' = [tab EXCEPT ![t] = c]
      BY <2>2 DEF c
    <3> QED
      BY <1>t, <1>u, <3>2, <3>5, <3>7, <3>8, OneTab
  <2> QED
    BY <1>3, <2>1, <2>2 DEF HandlerGet
<1>4. ASSUME NEW t \in Tabs, DriverGet(t) PROVE Inv'
  <2>1. CASE Refuse(t)
    BY <1>4, <1>r, <2>1 DEF DriverGet
  <2>2. CASE tab' = [tab EXCEPT ![t] = [@ EXCEPT !.driver = Get, !.pc = "putting"]]
    <3> DEFINE c == [tab[t] EXCEPT !.driver = Get, !.pc = "putting"]
    <3>1. tab[t] \in Tab /\ InOrder(resource.covers, doc, tab[t]) /\ Asked(resource.forms, tab[t])
      BY DEF Inv, TypeOK
    <3>2. tab[t].pc = "driving" /\ UNCHANGED doc
      BY <1>4 DEF DriverGet
    <3>3. /\ c.form = tab[t].form /\ c.sent = tab[t].sent /\ c.shown = tab[t].shown
          /\ c.handler = tab[t].handler /\ c.driver = Get /\ c.pc = "putting"
      BY <3>1 DEF Tab
    <3>4. Asked(resource.forms, c)
      BY <3>1, <3>2, <3>3 DEF Asked
    <3>5. InOrder(resource.covers, doc, c)
      BY <1>g, <3>1, <3>2, <3>3 DEF InOrder, Current
    <3> HIDE DEF c
    <3>6. tab' = [tab EXCEPT ![t] = c]
      BY <2>2 DEF c
    <3> QED
      BY <1>t, <1>u, <3>2, <3>4, <3>5, <3>6, OneTab
  <2> QED
    BY <1>4, <2>1, <2>2 DEF DriverGet
<1>5. ASSUME NEW t \in Tabs, Put(t) PROVE Inv'
  <2>1. Body(t) \in Val /\ doc.exists
    BY <1>5, BodyType DEF Inv, Put
  <2>2. Follows(resource.covers, doc, doc')
    BY <1>5, <2>1, WrittenType DEF Inv, Put
  <2> QED
    BY <1>5, <1>t, <1>u, <2>2, ClosedFine, OneTab DEF Put
<1>6. ASSUME NEW t \in Tabs, PutRefused(t) PROVE Inv'
  BY <1>6, <1>r DEF PutRefused
<1>w. ASSUME UNCHANGED tab, doc' = doc \/ Follows(resource.covers, doc, doc') PROVE Inv'
  BY <1>t, <1>u, <1>w, TabKept DEF Inv
<1>7. ASSUME NEW x \in Fields, NEW v \in Values, Change(x, v) PROVE Inv'
  BY <1>7, <1>w, ChangeFollows DEF Inv, Change
<1>8. CASE Delete
  BY <1>8, <1>w, <1>d DEF Delete, Follows
<1>9. CASE Recreate
  BY <1>9, <1>w, <1>d DEF Recreate, Follows
<1>10. CASE UNCHANGED vars
  BY <1>10, <1>w DEF vars
<1> QED
  BY <1>1, <1>2, <1>3, <1>4, <1>5, <1>6, <1>7, <1>8, <1>9, <1>10 DEF Next, Step

-----------------------------------------------------------------------------
(* The contract.                                                           *)

\* A page of the contract, for tab record c.
PageOf(c) ==
  IF c.pc = "closed"
  THEN [open |-> FALSE, writes |-> {}, versioned |-> FALSE, shown |-> NoRead]
  ELSE [open |-> TRUE, writes |-> c.form.writes,
        versioned |-> Carries(c.form), shown |-> c.shown]

\* A tab that moves changes the contract's page of that tab only.
LEMMA PageMoves ==
  ASSUME TypeOK, NEW t \in Tabs, NEW c, tab' = [tab EXCEPT ![t] = c]
  PROVE  pageOf' = [pageOf EXCEPT ![t] = PageOf(c)]
<1>1. tab'[t] = c /\ \A s \in Tabs \ {t} : tab'[s] = tab[s]
  BY DEF TypeOK
<1>2. pageOf' = [s \in Tabs |-> PageOf(tab'[s])]
  BY DEF pageOf, PageOf
<1>3. pageOf = [s \in Tabs |-> PageOf(tab[s])]
  BY DEF pageOf, PageOf
<1> HIDE DEF PageOf
<1> QED
  BY <1>1, <1>2, <1>3

\* A refused request discards its page.
LEMMA RefuseDiscards ==
  ASSUME TypeOK, NEW t \in Tabs, Refuse(t), UNCHANGED doc
  PROVE  Contract!Discard(t)
<1>1. pageOf' = [pageOf EXCEPT ![t] = PageOf(Closed)]
  BY PageMoves DEF Refuse
<1>2. PageOf(Closed) = Contract!NoPage
  BY DEF PageOf, Closed, NoRead, Zero, Contract!NoPage
<1> QED
  BY <1>1, <1>2 DEF Contract!Discard

\* A step of a request that leaves the page as it is changes nothing there.
LEMMA PageStays ==
  ASSUME TypeOK, NEW t \in Tabs, NEW c, tab' = [tab EXCEPT ![t] = c], UNCHANGED doc,
         tab[t].pc # "closed", c.pc # "closed", c.form = tab[t].form,
         c.shown = tab[t].shown
  PROVE  UNCHANGED <<doc, pageOf>>
<1>1. PageOf(c) = PageOf(tab[t])
  BY DEF PageOf
<1>2. pageOf = [s \in Tabs |-> PageOf(tab[s])]
  BY DEF pageOf, PageOf
<1>3. pageOf' = [pageOf EXCEPT ![t] = PageOf(c)]
  BY PageMoves
<1> HIDE DEF PageOf
<1> QED
  BY <1>1, <1>2, <1>3

\* What was read at the resource's own revision is what it holds; and a page
\* whose PUT goes through showed what it holds.
LEMMA BodyKeepsOthers ==
  ASSUME Inv, NEW t \in Tabs, tab[t].pc = "putting", Admits(t),
         Sound(resource, tab[t].form)
  PROVE  /\ Carries(tab[t].form) =>
              /\ Same(resource.covers, doc.val, tab[t].shown.val)
              /\ ~resource.content => doc.rev = tab[t].shown.rev
         /\ (Carries(tab[t].form) => doc.rev = tab[t].shown.rev)
              => \A x \in Fields \ tab[t].form.writes : Body(t)[x] = doc.val[x]
<1> DEFINE c == tab[t]  f == c.form
<1>1. /\ c \in Tab /\ f \in Form /\ doc.rev \in Nat /\ c.shown.rev \in Nat
      /\ c.handler.rev \in Nat /\ c.driver.rev \in Nat
  BY KindType DEF Inv, TypeOK, Tab, Doc, Read
<1>2. InOrder(resource.covers, doc, c) /\ c.sent = Carries(f)
  BY DEF Inv, Asked
<1>3. \/ c.sent /\ Matches(c.shown)
      \/ f.version = "read" /\ Matches(c.handler)
      \/ /\ ~c.sent /\ f.version # "read"
         /\ f.driver.fallback => Matches(c.driver)
  BY DEF Admits
<1>4. f.version \in {"none", "read"} <=> ~Carries(f)
  BY <1>1 DEF Form, Carries
<1>m. ASSUME NEW r, Current(resource.covers, doc, r), Matches(r)
      PROVE  Same(resource.covers, doc.val, r.val)
  BY <1>m DEF Matches, Current, Same
<1>5. ASSUME Carries(f)
      PROVE  /\ Same(resource.covers, doc.val, c.shown.val)
             /\ ~resource.content => doc.rev = c.shown.rev
  <2>1. Matches(c.shown)
    BY <1>2, <1>3, <1>4, <1>5
  <2> QED
    BY <1>2, <1>m, <2>1 DEF InOrder, Matches
<1>6. SUFFICES ASSUME Carries(f) => doc.rev = c.shown.rev,
                      NEW x \in Fields \ f.writes
               PROVE  Body(t)[x] = doc.val[x]
  BY <1>5
<1>x. x \in resource.covers
  BY DEF Sound
<1>7. x \in f.fills => c.handler.val[x] = doc.val[x]
  <2> SUFFICES ASSUME x \in f.fills PROVE c.handler.val[x] = doc.val[x]
    OBVIOUS
  <2>0. HandlerReads(f) /\ f.version # "none"
    BY DEF HandlerReads, Sound
  <2>1. Current(resource.covers, doc, c.handler) /\ c.shown.rev <= c.handler.rev
    BY <1>2, <2>0 DEF InOrder
  <2>2. CASE Carries(f)
    <3>1. c.handler.rev = doc.rev
      BY <1>1, <1>6, <2>1, <2>2 DEF Current
    <3> QED
      BY <1>x, <2>1, <3>1 DEF Current, Same
  <2>3. CASE f.version = "read"
    <3>1. Matches(c.handler)
      BY <1>2, <1>3, <1>4, <2>3
    <3> QED
      BY <1>m, <1>x, <2>1, <3>1 DEF Same
  <2> QED
    BY <1>4, <2>0, <2>2, <2>3
<1>8. f.driver.reads => c.driver.val[x] = doc.val[x]
  <2> SUFFICES ASSUME f.driver.reads PROVE c.driver.val[x] = doc.val[x]
    OBVIOUS
  <2>0. f.version # "read"
    BY DEF Sound
  <2>1. Current(resource.covers, doc, c.driver) /\ c.shown.rev <= c.driver.rev
    BY <1>2 DEF InOrder
  <2>2. CASE Carries(f)
    <3>1. c.driver.rev = doc.rev
      BY <1>1, <1>6, <2>1, <2>2 DEF Current
    <3> QED
      BY <1>x, <2>1, <3>1 DEF Current, Same
  <2>3. CASE f.version = "none"
    <3>1. f.driver.fallback /\ ~c.sent
      BY <1>2, <1>4, <2>3 DEF Sound
    <3>2. Matches(c.driver)
      BY <1>3, <2>0, <3>1
    <3> QED
      BY <1>m, <1>x, <2>1, <3>2 DEF Same
  <2> QED
    BY <1>4, <2>0, <2>2, <2>3
<1> QED
  BY <1>7, <1>8 DEF Body

\* A write of the resource is one of the contract.
LEMMA WriteRefines ==
  ASSUME Follows(resource.covers, doc, doc'), doc' \in Doc
  PROVE  Contract!Write
BY DEF Follows, Same, Doc, Val, Contract!Doc, Contract!Write, Contract!SameCovered

\* A PUT that goes through is a save of the contract.
LEMMA PutSaves ==
  ASSUME Inv, NEW t \in Tabs, Put(t), Sound(resource, tab[t].form)
  PROVE  Contract!Save(t)
<1>1. pageOf' = [pageOf EXCEPT ![t] = PageOf(Closed)]
  BY PageMoves DEF Put, Inv
<1>2. PageOf(Closed) = Contract!NoPage
  BY DEF PageOf, Closed, NoRead, Zero, Contract!NoPage
<1>3. /\ pageOf[t].open /\ pageOf[t].writes = tab[t].form.writes
      /\ pageOf[t].versioned = Carries(tab[t].form)
      /\ pageOf[t].shown = tab[t].shown
  BY DEF pageOf, Put
<1>4. /\ Carries(tab[t].form) =>
           /\ Same(resource.covers, doc.val, tab[t].shown.val)
           /\ ~resource.content => doc.rev = tab[t].shown.rev
      /\ (Carries(tab[t].form) => doc.rev = tab[t].shown.rev)
           => \A x \in Fields \ tab[t].form.writes : Body(t)[x] = doc.val[x]
  BY BodyKeepsOthers DEF Put
<1>5. Body(t) \in Val
  BY BodyType DEF Inv
<1>6. doc' = Written(Body(t)) /\ doc.exists
  BY DEF Put
<1>7. /\ doc'.exists /\ doc'.val = Body(t)
      /\ Follows(resource.covers, doc, doc')
  BY <1>5, <1>6, WrittenType DEF Inv
<1>8. Contract!Write
  BY <1>5, <1>6, <1>7, WrittenType, WriteRefines DEF Inv
<1>9. (pageOf[t].versioned => doc.rev = pageOf[t].shown.rev)
        => \A x \in Fields \ pageOf[t].writes : doc'.val[x] = doc.val[x]
  BY <1>3, <1>4, <1>7
<1>10. pageOf[t].versioned =>
         /\ Contract!SameCovered(doc.val, pageOf[t].shown.val)
         /\ ~resource.content => doc.rev = pageOf[t].shown.rev
  BY <1>3, <1>4 DEF Same, Contract!SameCovered
<1> QED
  BY <1>1, <1>2, <1>3, <1>6, <1>7, <1>8, <1>9, <1>10 DEF Contract!Save

\* Every step of the forms is a step of the contract, or leaves it as it is.
LEMMA StepRefines ==
  ASSUME Inv, TypeOK', [Next]_vars, \A r \in Resources : \A f \in r.forms : Sound(r, f)
  PROVE  [Contract!Next]_(Contract!vars)
<1> USE DEF Contract!vars
<1>0. TypeOK
  BY DEF Inv
<1>k. UNCHANGED resource
  BY DEF Next, vars
<1>1. ASSUME NEW t \in Tabs, NEW f \in Forms, Open(t, f) PROVE Contract!Render(t)
  <2>1. pageOf' = [pageOf EXCEPT ![t] = PageOf(Page(f, Get))]
    BY <1>0, <1>1, PageMoves DEF Open
  <2>2. PageOf(Page(f, Get)) =
          [open |-> TRUE, writes |-> f.writes, versioned |-> Carries(f),
           shown |-> [val |-> doc.val, rev |-> doc.rev]]
    BY DEF PageOf, Page, Get
  <2>3. f.writes \in SUBSET Fields /\ Carries(f) \in BOOLEAN
    BY <1>0, KindType DEF Form, Carries
  <2>4. doc.exists /\ UNCHANGED doc /\ ~pageOf[t].open
    BY <1>1 DEF Open, pageOf
  <2> QED
    BY <2>1, <2>2, <2>3, <2>4 DEF Contract!Render
<1>2. ASSUME NEW t \in Tabs, Submit(t) PROVE Contract!Discard(t) \/ UNCHANGED <<doc, pageOf>>
  <2> DEFINE f == tab[t].form
  <2>1. PICK e \in Edits(f), sent \in BOOLEAN :
          \/ Refuse(t)
          \/ tab' = [tab EXCEPT ![t] =
                 [@ EXCEPT !.edits = e, !.sent = sent,
                    !.pc = IF HandlerReads(f) THEN "handling" ELSE AfterHandler(f)]]
    BY <1>2 DEF Submit
  <2>2. UNCHANGED doc /\ tab[t].pc = "open" /\ tab[t] \in Tab
    BY <1>0, <1>2 DEF Submit, TypeOK
  <2>3. CASE Refuse(t)
    BY <1>0, <2>2, <2>3, RefuseDiscards
  <2>4. CASE ~Refuse(t)
    <3> DEFINE c == [tab[t] EXCEPT !.edits = e, !.sent = sent,
                    !.pc = IF HandlerReads(f) THEN "handling" ELSE AfterHandler(f)]
    <3>1. c.form = f /\ c.shown = tab[t].shown /\ c.pc # "closed"
      BY <2>2 DEF Tab, AfterHandler
    <3> HIDE DEF c
    <3>2. tab' = [tab EXCEPT ![t] = c]
      BY <2>1, <2>4 DEF c
    <3> QED
      BY <1>0, <2>2, <3>1, <3>2, PageStays
  <2> QED
    BY <2>3, <2>4
<1>3. ASSUME NEW t \in Tabs, HandlerGet(t) PROVE Contract!Discard(t) \/ UNCHANGED <<doc, pageOf>>
  <2>1. UNCHANGED doc /\ tab[t].pc = "handling" /\ tab[t] \in Tab
    BY <1>0, <1>3 DEF HandlerGet, TypeOK
  <2>2. CASE Refuse(t)
    BY <1>0, <2>1, <2>2, RefuseDiscards
  <2>3. CASE ~Refuse(t)
    <3> DEFINE c == [tab[t] EXCEPT !.handler = Get, !.pc = AfterHandler(tab[t].form)]
    <3>1. c.form = tab[t].form /\ c.shown = tab[t].shown /\ c.pc # "closed"
      BY <2>1 DEF Tab, AfterHandler
    <3> HIDE DEF c
    <3>2. tab' = [tab EXCEPT ![t] = c]
      BY <1>3, <2>3 DEF c, HandlerGet
    <3> QED
      BY <1>0, <2>1, <3>1, <3>2, PageStays
  <2> QED
    BY <2>2, <2>3
<1>4. ASSUME NEW t \in Tabs, DriverGet(t) PROVE Contract!Discard(t) \/ UNCHANGED <<doc, pageOf>>
  <2>1. UNCHANGED doc /\ tab[t].pc = "driving" /\ tab[t] \in Tab
    BY <1>0, <1>4 DEF DriverGet, TypeOK
  <2>2. CASE Refuse(t)
    BY <1>0, <2>1, <2>2, RefuseDiscards
  <2>3. CASE ~Refuse(t)
    <3> DEFINE c == [tab[t] EXCEPT !.driver = Get, !.pc = "putting"]
    <3>1. c.form = tab[t].form /\ c.shown = tab[t].shown /\ c.pc # "closed"
      BY <2>1 DEF Tab
    <3> HIDE DEF c
    <3>2. tab' = [tab EXCEPT ![t] = c]
      BY <1>4, <2>3 DEF c, DriverGet
    <3> QED
      BY <1>0, <2>1, <3>1, <3>2, PageStays
  <2> QED
    BY <2>2, <2>3
<1>5. ASSUME NEW t \in Tabs, Put(t) PROVE Contract!Save(t)
  <2>1. tab[t].form \in resource.forms
    BY <1>5 DEF Inv, Put, Asked
  <2> QED
    BY <1>0, <1>5, <2>1, PutSaves DEF TypeOK
<1>6. ASSUME NEW t \in Tabs, PutRefused(t) PROVE Contract!Discard(t)
  BY <1>0, <1>6, RefuseDiscards DEF PutRefused
<1>w. ASSUME UNCHANGED tab, doc' \in Doc, Follows(resource.covers, doc, doc')
      PROVE  Contract!Elsewhere
  <2>1. Contract!Write
    BY <1>w, WriteRefines
  <2>2. UNCHANGED pageOf
    BY <1>w DEF pageOf
  <2>3. doc'.rev = doc.rev => doc'.exists = doc.exists
    BY <1>0, <1>w DEF Follows, TypeOK, Doc
  <2> QED
    BY <2>1, <2>2, <2>3 DEF Contract!Elsewhere
<1>7. ASSUME NEW x \in Fields, NEW v \in Values, Change(x, v) PROVE Contract!Elsewhere
  BY <1>0, <1>7, <1>w, ChangeFollows DEF Change
<1>8. ASSUME Delete PROVE Contract!Elsewhere
  <2>1. doc' \in Doc
    BY DEF TypeOK
  <2>2. doc'.rev = doc.rev + 1 /\ UNCHANGED tab
    BY <1>8 DEF Delete
  <2> QED
    BY <1>w, <2>1, <2>2 DEF Follows
<1>9. ASSUME Recreate PROVE Contract!Elsewhere
  <2>1. doc' \in Doc
    BY DEF TypeOK
  <2>2. doc'.rev = doc.rev + 1 /\ UNCHANGED tab
    BY <1>9 DEF Recreate
  <2> QED
    BY <1>w, <2>1, <2>2 DEF Follows
<1>10. CASE UNCHANGED vars
  BY <1>10 DEF vars, pageOf
<1>11. CASE Next
  BY <1>1, <1>2, <1>3, <1>4, <1>5, <1>6, <1>7, <1>8, <1>9, <1>11, <1>k
     DEF Next, Step, Contract!Next
<1> QED
  BY <1>10, <1>11

\* The initial page of every tab is the contract's.
LEMMA InitRefines == Init => Inv /\ Contract!Init
<1> SUFFICES ASSUME Init PROVE Inv /\ Contract!Init
  OBVIOUS
<1>1. Zero \in Val
  BY EditAssumption DEF Zero, Val
<1>2. [Zero EXCEPT !["device"] = 1] \in Val
  BY <1>1, EditAssumption DEF Val
<1>3. TypeOK
  BY <1>2, ClosedType DEF Init, TypeOK, Doc
<1>4. Inv
  BY <1>3, ClosedFine DEF Init, Inv
<1>5. \A t \in Tabs : tab[t].pc = "closed"
  BY DEF Init, Closed
<1>6. pageOf = [t \in Tabs |-> Contract!NoPage]
  BY <1>5 DEF pageOf, NoRead, Zero, Contract!NoPage
<1> QED
  BY <1>3, <1>4, <1>6, KindType DEF Init, Contract!Init, TypeOK, Doc, Val, Contract!Doc

\* Every form of the UI is sound: it relies on no read older than the version
\* its PUT is conditional on, and replaces what its version does not cover.
THEOREM FormsAreSound ==
  \A r \in AllResources : r \in Resource /\ \A f \in r.forms : Sound(r, f)
<1> DEFINE Fine(c, f) == f \in Form /\ Sound([covers |-> c], f)
<1> USE DEF Form, Method, Fields, Sound, HandlerReads
<1> USE DEF addDevice, removeDevice, mutateInstance, mutateProfile, RemoveDevice,
      UpdateProfileDevice, UpdateProfile, UpdateProject
<1>1. Fine(Fields, updateConfig) /\ Fine(Fields, updateOptions)
  BY DEF updateConfig, updateOptions, UpdateInstanceConfig
<1>2. Fine(Fields, updateDevice)
  BY DEF updateDevice, UpdateDevice
<1>3. Fine(Fields, addDevice) /\ Fine(Fields, removeDevice)
  OBVIOUS
<1>4. Fine(Fields, updateLimits) /\ Fine(Fields, setInstanceProfiles)
  BY DEF updateLimits, setInstanceProfiles
<1>5. Fine(Fields, addProfileDevice) /\ Fine(Fields, removeProfileDevice)
  BY DEF addProfileDevice, removeProfileDevice
<1>6. Fine(Fields, updateProfile) /\ Fine(Fields, updateProfileDevice)
  BY DEF updateProfile, updateProfileDevice
<1>7. Fine(Fields, updateNetworkACL)
  BY DEF updateNetworkACL, UpdateNetworkACL
<1>8. Fine(Fields, addNetworkACLRule) /\ Fine(Fields, deleteNetworkACLRule)
  BY DEF addNetworkACLRule, deleteNetworkACLRule, UpdateNetworkACL
<1>9. Fine(Fields, updateProject) /\ Fine(Fields, updateProjectLimits)
  BY DEF updateProject, updateProjectLimits
<1>10. Fine(Fields, updateNetwork) /\ Fine(Fields, updatePool)
  BY DEF updateNetwork, updatePool, Editor, UpdateNetwork, UpdateStoragePool
<1>11. Fine(Fields, updateServerConfig) /\ Fine(Fields, updateNetworkZone)
  BY DEF updateServerConfig, updateNetworkZone, Editor, UpdateServerConfig, UpdateNetworkZone
<1>12. Fine(Fields \ {"own"}, updateVolume)
  BY DEF updateVolume, Editor, UpdateVolume
<1> HIDE DEF Fine, Form, Method, Fields, Sound, HandlerReads, addDevice, removeDevice,
      mutateInstance, mutateProfile, RemoveDevice, UpdateProfileDevice, UpdateProfile,
      UpdateProject
<1>13. ASSUME NEW p \in Pages
       PROVE  p[2] \subseteq Fields /\ \A f \in p[1] : Fine(p[2], f)
  <2>1. ASSUME NEW f \in {updateConfig, updateOptions, updateDevice, addDevice, removeDevice,
                          updateLimits, setInstanceProfiles}
        PROVE  Fine(Fields, f)
    BY <1>1, <1>2, <1>3, <1>4
  <2>2. ASSUME NEW f \in {updateProfile, updateProfileDevice, addProfileDevice,
                          removeProfileDevice}
        PROVE  Fine(Fields, f)
    BY <1>5, <1>6
  <2>3. ASSUME NEW f \in {updateNetworkACL, addNetworkACLRule, deleteNetworkACLRule}
        PROVE  Fine(Fields, f)
    BY <1>7, <1>8
  <2> QED
    BY <1>9, <1>10, <1>11, <1>12, <2>1, <2>2, <2>3 DEF Pages, Covering
<1>14. ASSUME NEW content \in BOOLEAN, NEW r \in Versioned(content, Pages)
       PROVE  r \in Resource /\ \A f \in r.forms : Sound(r, f)
  <2>1. PICK p \in Pages : r = [forms |-> p[1], covers |-> p[2], content |-> content]
    BY <1>14 DEF Versioned
  <2>2. p[2] \subseteq Fields /\ \A f \in p[1] : f \in Form /\ Sound([covers |-> p[2]], f)
    BY <1>13 DEF Fine
  <2>3. r \in Resource
    BY <2>1, <2>2 DEF Resource
  <2>4. \A f \in r.forms : Sound(r, f)
    BY <2>1, <2>2 DEF Sound
  <2> QED
    BY <2>3, <2>4
<1> QED
  BY <1>14 DEF AllResources

\* Sound forms keep the contract, whatever their versions identify: each save
\* replaces only its own fields, and only of what its page showed.
THEOREM SavesAtomic ==
  ASSUME TokensInsisted, \A r \in Resources : \A f \in r.forms : Sound(r, f)
  PROVE  Spec => SavesAreAtomic
<1>1. Init => Inv /\ Contract!Init
  BY InitRefines
<1>2. Inv /\ [Next]_vars => Inv'
  BY InvStep
<1>3. Inv /\ [Next]_vars => [Contract!Next]_(Contract!vars)
  BY <1>2, StepRefines DEF Inv
<1> QED
  BY <1>1, <1>2, <1>3, PTL DEF Spec, SavesAreAtomic, Contract!Spec
=============================================================================

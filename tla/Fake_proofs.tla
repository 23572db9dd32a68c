----------------------------- MODULE Fake_proofs -----------------------------
(***************************************************************************)
(* Proofs about FakeVersions (an accepted token stands for what was        *)
(* shown), FakeContents (a download is of one upload, and a call changes   *)
(* one owner's contents) and FakeDaemon (nothing vanishes that no call     *)
(* names, and no reference is left dangling), as MC_Fake puts them         *)
(* together.                                                               *)
(***************************************************************************)
EXTENDS MC_Fake, FiniteSetTheorems, FunctionTheorems, SequenceTheorems, TLAPS

-----------------------------------------------------------------------------
(* The version tokens.                                                     *)

Doc == [shown : Texts, version : 0 .. MaxVersion, born : Nat, uncounted : BOOLEAN]
Rendered == [open : {TRUE}, name : Instances, born : Nat, shown : Texts,
             token : 0 .. MaxVersion, uncounted : BOOLEAN]

\* Two resources were never one, and a birth is never given twice.
DocsInv ==
  /\ DOMAIN docs \subseteq Instances
  /\ \A n \in DOMAIN docs : docs[n] \in Doc /\ docs[n].born < born
  /\ \A n, m \in DOMAIN docs : docs[n].born = docs[m].born => n = m

\* What has become of the resource a page was rendered from: its counter has
\* not gone back, and while it stands still the page shows what there is.
Traced(page, doc) ==
  doc.born = page.born =>
    /\ page.token <= doc.version
    /\ page.uncounted => doc.uncounted
    /\ page.token = doc.version /\ (page.uncounted <=> doc.uncounted) => doc.shown = page.shown

PageInv(page) ==
  \/ page = Tokens!NoPage
  \/ /\ page \in Rendered
     /\ page.born < born
     /\ \A n \in DOMAIN docs : Traced(page, docs[n])

TokenInv ==
  /\ kind \in Tokens!AllKinds
  /\ born \in 0 .. MaxBorn
  /\ DocsInv
  /\ pages = [t \in Tabs |-> pages[t]]
  /\ \A t \in Tabs : PageInv(pages[t])

\* The first resource, and its absence where a behaviour has none.
LEMMA TokensStart == Tokens!Init \/ NoVersions => TokenInv
<1>. USE FakeBounds
<1>1. \A t \in Tabs : PageInv([u \in Tabs |-> Tokens!NoPage][t])
  BY DEF PageInv
<1>2. CASE NoVersions
  <2>1. DOMAIN docs = {}
    BY <1>2 DEF NoVersions
  <2>2. born = 0 /\ kind \in Tokens!AllKinds
    BY <1>2 DEF NoVersions, Tokens!AllKinds
  <2>3. pages = [t \in Tabs |-> Tokens!NoPage]
    BY <1>2 DEF NoVersions
  <2>. QED
    BY <1>1, <2>1, <2>2, <2>3 DEF TokenInv, DocsInv
<1>3. CASE Tokens!Init
  <2>1. PICK n \in Instances, v \in Texts :
          docs = Tokens!With(<<>>, n, [shown |-> v, version |-> Tokens!FirstVersion, born |-> 0,
                                       uncounted |-> FALSE])
    BY <1>3 DEF Tokens!Init
  <2>2. Tokens!FirstVersion \in 0 .. MaxVersion
    BY DEF Tokens!FirstVersion
  <2>3. DOMAIN docs = {n} /\ docs[n] = [shown |-> v, version |-> Tokens!FirstVersion, born |-> 0,
                                        uncounted |-> FALSE]
    <3>1. DOMAIN <<>> = {}
      OBVIOUS
    <3>. QED
      BY <2>1, <3>1 DEF Tokens!With
  <2>4. born = 1 /\ kind \in Tokens!AllKinds
    BY <1>3 DEF Tokens!Init, Tokens!AllKinds
  <2>5. docs[n] \in Doc /\ docs[n].born < born
    BY <2>2, <2>3, <2>4 DEF Doc
  <2>6. pages = [t \in Tabs |-> Tokens!NoPage]
    BY <1>3 DEF Tokens!Init
  <2>7. DocsInv
    BY <2>3, <2>5 DEF DocsInv
  <2>8. born \in 0 .. MaxBorn
    BY <2>4
  <2>. QED
    BY <1>1, <2>4, <2>6, <2>7, <2>8 DEF TokenInv
<1>. QED
  BY <1>2, <1>3

\* A resource goes on: counted, followed or renamed, it is the same one, and its
\* counter tells what its page shows from what it showed.
Grown(old, new) ==
  /\ new.born = old.born
  /\ old.version <= new.version
  /\ old.uncounted => new.uncounted
  /\ old.version = new.version /\ (old.uncounted <=> new.uncounted) => new.shown = old.shown

\* What was true of a page stays true while its resource goes on.
LEMMA StillTraced ==
  ASSUME NEW page \in Rendered, NEW old \in Doc, NEW new \in Doc,
         Traced(page, old), Grown(old, new)
  PROVE  Traced(page, new)
<1>1. /\ page.token \in Nat /\ old.version \in Nat /\ new.version \in Nat
      /\ page.uncounted \in BOOLEAN /\ old.uncounted \in BOOLEAN /\ new.uncounted \in BOOLEAN
  BY DEF Rendered, Doc
<1> SUFFICES ASSUME new.born = page.born
             PROVE  /\ page.token <= new.version
                    /\ page.uncounted => new.uncounted
                    /\ page.token = new.version /\ (page.uncounted <=> new.uncounted)
                         => new.shown = page.shown
  BY DEF Traced
<1>2. page.token <= old.version /\ old.version <= new.version
  BY DEF Traced, Grown
<1>3. page.uncounted => old.uncounted
  BY DEF Traced, Grown
<1>4. old.uncounted => new.uncounted
  BY DEF Grown
<1>5. ASSUME page.token = new.version, page.uncounted <=> new.uncounted
      PROVE  new.shown = page.shown
  <2>1. page.token = old.version /\ old.version = new.version
    BY <1>1, <1>2, <1>5
  <2>2. (page.uncounted <=> old.uncounted) /\ (old.uncounted <=> new.uncounted)
    BY <1>3, <1>4, <1>5
  <2>. QED
    BY <2>1, <2>2 DEF Traced, Grown
<1>. QED
  BY <1>1, <1>2, <1>3, <1>4, <1>5

\* Every step but a Get: resources go on, end or begin, and pages are closed.
LEMMA ResourcesGoOn ==
  ASSUME TokenInv, DocsInv', kind' = kind, born' \in 0 .. MaxBorn, born <= born',
         \A m \in DOMAIN docs' : \/ docs'[m].born = born
                                 \/ \E n \in DOMAIN docs : Grown(docs[n], docs'[m]),
         pages' = [t \in Tabs |-> pages'[t]],
         \A t \in Tabs : pages'[t] = pages[t] \/ pages'[t] = Tokens!NoPage
  PROVE  TokenInv'
<1>1. born \in Nat /\ born' \in Nat
  BY FakeBounds DEF TokenInv
<1>2. ASSUME NEW t \in Tabs, pages[t] # Tokens!NoPage
      PROVE  /\ pages[t] \in Rendered /\ pages[t].born < born'
             /\ \A m \in DOMAIN docs' : Traced(pages[t], docs'[m])
  <2>1. pages[t] \in Rendered /\ pages[t].born < born /\ pages[t].born \in Nat
    BY <1>2 DEF TokenInv, PageInv, Rendered
  <2>2. ASSUME NEW m \in DOMAIN docs'
        PROVE  Traced(pages[t], docs'[m])
    <3>1. CASE docs'[m].born = born
      BY <1>1, <2>1, <3>1 DEF Traced
    <3>2. ASSUME NEW n \in DOMAIN docs, Grown(docs[n], docs'[m])
          PROVE  Traced(pages[t], docs'[m])
      <4>1. docs[n] \in Doc /\ docs'[m] \in Doc
        BY DEF TokenInv, DocsInv
      <4>2. Traced(pages[t], docs[n])
        BY <1>2 DEF TokenInv, PageInv
      <4>. QED
        BY <2>1, <3>2, <4>1, <4>2, StillTraced
    <3>. QED
      BY <3>1, <3>2
  <2>. QED
    BY <1>1, <2>1, <2>2
<1>3. ASSUME NEW t \in Tabs
      PROVE  PageInv(pages[t])'
  BY <1>2 DEF PageInv, Traced, Tokens!NoPage
<1>. QED
  BY <1>3 DEF TokenInv

\* A step that changes one resource in its place.
LEMMA OneDoc ==
  ASSUME TokenInv, NEW n \in DOMAIN docs, NEW d \in Doc, docs' = [docs EXCEPT ![n] = d],
         Grown(docs[n], d), UNCHANGED <<kind, born>>,
         pages' = [t \in Tabs |-> pages'[t]],
         \A t \in Tabs : pages'[t] = pages[t] \/ pages'[t] = Tokens!NoPage
  PROVE  TokenInv'
<1>1. DOMAIN docs' = DOMAIN docs /\ \A m \in DOMAIN docs : docs'[m] = IF m = n THEN d ELSE docs[m]
  OBVIOUS
<1>2. \A m \in DOMAIN docs : docs'[m].born = docs[m].born
  BY <1>1 DEF Grown
<1>3. DocsInv'
  BY <1>1, <1>2 DEF TokenInv, DocsInv
<1>4. \A m \in DOMAIN docs : docs[m].version <= docs[m].version
  BY DEF TokenInv, DocsInv, Doc
<1>5. \A m \in DOMAIN docs' : Grown(docs[m], docs'[m])
  BY <1>1, <1>4 DEF Grown
<1>6. born' \in 0 .. MaxBorn /\ born <= born'
  BY FakeBounds DEF TokenInv
<1>. QED
  BY <1>1, <1>3, <1>5, <1>6, ResourcesGoOn

\* Every conditional or unconditional save.
LEMMA PutInv ==
  ASSUME TokenInv, NEW n \in DOMAIN docs, NEW v \in Texts, Tokens!Put(n, v),
         UNCHANGED <<kind, born>>,
         pages' = [t \in Tabs |-> pages'[t]],
         \A t \in Tabs : pages'[t] = pages[t] \/ pages'[t] = Tokens!NoPage
  PROVE  TokenInv'
<1> DEFINE c == Tokens!Counted(docs[n], v)
           d == [docs[n] EXCEPT !.shown = v, !.version = c]
<1>1. docs[n] \in Doc /\ docs[n].version \in Nat /\ docs[n].version < MaxVersion
  BY DEF TokenInv, DocsInv, Doc, Tokens!Put
<1>2. \/ c = docs[n].version /\ v = docs[n].shown
      \/ c = docs[n].version + 1
  BY DEF Tokens!Counted
<1>3. c \in 0 .. MaxVersion /\ docs[n].version <= c /\ (c = docs[n].version => v = docs[n].shown)
  BY <1>1, <1>2, FakeBounds
<1>4. docs' = [docs EXCEPT ![n] = d]
  BY DEF Tokens!Put
<1>. HIDE DEF c
<1>5. d \in Doc /\ Grown(docs[n], d)
  BY <1>1, <1>3 DEF Doc, Grown
<1>. HIDE DEF d
<1>. QED
  BY <1>4, <1>5, OneDoc

\* RenameVolume's change of a device is the one thing not counted.
LEMMA FollowVolumeInv ==
  ASSUME TokenInv, NEW n \in Instances, NEW v \in Texts, Tokens!FollowVolume(n, v)
  PROVE  TokenInv'
<1> DEFINE d == [docs[n] EXCEPT !.shown = v, !.uncounted = TRUE]
<1>1. n \in DOMAIN docs /\ docs[n].uncounted = FALSE /\ docs' = [docs EXCEPT ![n] = d]
      /\ UNCHANGED <<kind, pages, born>>
  <2>1. n \in DOMAIN docs /\ ~docs[n].uncounted
    BY DEF Tokens!FollowVolume
  <2>2. docs[n].uncounted \in BOOLEAN
    BY <2>1 DEF TokenInv, DocsInv, Doc
  <2>. QED
    BY <2>1, <2>2 DEF Tokens!FollowVolume
<1>2. docs[n] \in Doc /\ docs[n].version \in Nat
  BY <1>1 DEF TokenInv, DocsInv, Doc
<1>3. d \in Doc
  BY <1>2 DEF Doc
<1>4. d.born = docs[n].born /\ d.version = docs[n].version /\ d.uncounted = TRUE
  BY <1>2 DEF Doc
<1>. HIDE DEF d
<1>5. Grown(docs[n], d)
  BY <1>1, <1>2, <1>4 DEF Grown
<1>6. pages' = [t \in Tabs |-> pages'[t]] /\ \A t \in Tabs : pages'[t] = pages[t]
  BY <1>1 DEF TokenInv
<1>. QED
  BY <1>1, <1>3, <1>5, <1>6, OneDoc

\* A birth is a new one, whatever had the name before.
LEMMA CreateInv ==
  ASSUME TokenInv, NEW n \in Instances, NEW v \in Texts, Tokens!Create(n, v)
  PROVE  TokenInv'
<1> DEFINE d == [shown |-> v, version |-> 0, born |-> born, uncounted |-> FALSE]
<1>. USE FakeBounds
<1>1. /\ n \notin DOMAIN docs /\ born < MaxBorn /\ born \in Nat /\ born' = born + 1
      /\ docs' = Tokens!With(docs, n, d) /\ UNCHANGED <<kind, pages>>
  BY DEF Tokens!Create, TokenInv
<1>2. DOMAIN docs' = DOMAIN docs \cup {n} /\ docs'[n] = d
      /\ \A m \in DOMAIN docs : docs'[m] = docs[m]
  BY <1>1 DEF Tokens!With
<1>3. d \in Doc /\ d.born = born
  BY <1>1 DEF Doc
<1>. HIDE DEF d
<1>4. \A m \in DOMAIN docs : docs[m] \in Doc /\ docs[m].born \in Nat /\ docs[m].born < born
  BY DEF TokenInv, DocsInv, Doc
<1>5. DocsInv'
  <2>1. \A m \in DOMAIN docs' : docs'[m] \in Doc /\ docs'[m].born < born'
    BY <1>1, <1>2, <1>3, <1>4
  <2>2. \A m, k \in DOMAIN docs' : docs'[m].born = docs'[k].born => m = k
    <3>1. \A m, k \in DOMAIN docs : docs[m].born = docs[k].born => m = k
      BY DEF TokenInv, DocsInv
    <3>2. \A m \in DOMAIN docs : docs'[m].born # born
      BY <1>1, <1>2, <1>4
    <3>. QED
      BY <1>2, <1>3, <3>1, <3>2
  <2>. QED
    BY <1>2, <2>1, <2>2 DEF TokenInv, DocsInv
<1>6. \A m \in DOMAIN docs' : docs'[m].born = born \/ \E k \in DOMAIN docs : Grown(docs[k], docs'[m])
  <2>1. \A m \in DOMAIN docs : Grown(docs[m], docs[m])
    BY DEF TokenInv, DocsInv, Doc, Grown
  <2>. QED
    BY <1>2, <1>3, <2>1
<1>7. pages' = [t \in Tabs |-> pages'[t]] /\ \A t \in Tabs : pages'[t] = pages[t]
  BY <1>1 DEF TokenInv
<1>8. born' \in 0 .. MaxBorn /\ born <= born'
  BY <1>1
<1>. QED
  BY <1>1, <1>5, <1>6, <1>7, <1>8, ResourcesGoOn

\* A renamed resource is the same one; it takes its counter along.
LEMMA RenameInv ==
  ASSUME TokenInv, NEW n \in Instances, NEW m \in Instances, Tokens!Rename(n, m)
  PROVE  TokenInv'
<1> DEFINE d == IF kind \in {"instance", "volume"} THEN docs[n]
                ELSE [docs[n] EXCEPT !.version = Tokens!Carried(@)]
<1>1. /\ n \in DOMAIN docs /\ m \notin DOMAIN docs /\ docs[n].version < MaxVersion
      /\ docs' = Tokens!With(Tokens!Without(docs, n), m, d) /\ UNCHANGED <<kind, pages, born>>
  BY DEF Tokens!Rename
<1>2. docs[n] \in Doc /\ docs[n].version \in Nat
  BY <1>1 DEF TokenInv, DocsInv, Doc
<1>3. d \in Doc /\ Grown(docs[n], d)
  <2>1. Tokens!Carried(docs[n].version) = docs[n].version + 1
    BY DEF Tokens!Carried
  <2>2. docs[n].version + 1 \in 0 .. MaxVersion
    BY <1>1, <1>2, FakeBounds
  <2>. QED
    BY <1>2, <2>1, <2>2 DEF Doc, Grown
<1>. HIDE DEF d
<1>4. /\ DOMAIN docs' = (DOMAIN docs \ {n}) \cup {m} /\ docs'[m] = d
      /\ \A k \in DOMAIN docs \ {n} : docs'[k] = docs[k]
  BY <1>1 DEF Tokens!With, Tokens!Without
<1>5. d.born = docs[n].born
  BY <1>3 DEF Grown
<1>6. DocsInv'
  <2>1. \A k \in DOMAIN docs' : docs'[k] \in Doc /\ docs'[k].born < born'
    BY <1>1, <1>3, <1>4, <1>5 DEF TokenInv, DocsInv
  <2>2. \A k, l \in DOMAIN docs' : docs'[k].born = docs'[l].born => k = l
    <3>1. \A k, l \in DOMAIN docs : docs[k].born = docs[l].born => k = l
      BY DEF TokenInv, DocsInv
    <3>2. \A k \in DOMAIN docs \ {n} : docs[k].born # d.born
      BY <1>1, <1>5, <3>1
    <3>. QED
      BY <1>4, <3>1, <3>2
  <2>. QED
    BY <1>4, <2>1, <2>2 DEF TokenInv, DocsInv
<1>7. \A k \in DOMAIN docs' : \E l \in DOMAIN docs : Grown(docs[l], docs'[k])
  <2>1. \A k \in DOMAIN docs : Grown(docs[k], docs[k])
    BY DEF TokenInv, DocsInv, Doc, Grown
  <2>. QED
    BY <1>1, <1>3, <1>4, <2>1
<1>8. pages' = [t \in Tabs |-> pages'[t]] /\ \A t \in Tabs : pages'[t] = pages[t]
  BY <1>1 DEF TokenInv
<1>9. born' \in 0 .. MaxBorn /\ born <= born'
  BY <1>1, FakeBounds DEF TokenInv
<1>. QED
  BY <1>1, <1>6, <1>7, <1>8, <1>9, ResourcesGoOn

\* With a resource its counter ends.
LEMMA DeleteInv ==
  ASSUME TokenInv, NEW n \in Instances, Tokens!Delete(n)
  PROVE  TokenInv'
<1>1. /\ DOMAIN docs' = DOMAIN docs \ {n} /\ \A k \in DOMAIN docs' : docs'[k] = docs[k]
      /\ UNCHANGED <<kind, pages, born>>
  BY DEF Tokens!Delete, Tokens!Without
<1>2. DocsInv'
  BY <1>1 DEF TokenInv, DocsInv
<1>3. \A k \in DOMAIN docs' : Grown(docs[k], docs'[k])
  BY <1>1 DEF TokenInv, DocsInv, Doc, Grown
<1>4. pages' = [t \in Tabs |-> pages'[t]] /\ \A t \in Tabs : pages'[t] = pages[t]
  BY <1>1 DEF TokenInv
<1>5. born' \in 0 .. MaxBorn /\ born <= born'
  BY <1>1, FakeBounds DEF TokenInv
<1>. QED
  BY <1>1, <1>2, <1>3, <1>4, <1>5, ResourcesGoOn

\* A page shows the resource as it is, under the token of now.
LEMMA GetInv ==
  ASSUME TokenInv, NEW t \in Tabs, NEW n \in Instances, Tokens!Get(t, n)
  PROVE  TokenInv'
<1> DEFINE page == [open |-> TRUE, name |-> n, born |-> docs[n].born,
                    shown |-> docs[n].shown, token |-> docs[n].version,
                    uncounted |-> docs[n].uncounted]
<1>1. n \in DOMAIN docs /\ pages' = [pages EXCEPT ![t] = page] /\ UNCHANGED <<kind, docs, born>>
  BY DEF Tokens!Get
<1>2. docs[n] \in Doc /\ docs[n].born < born
  BY <1>1 DEF TokenInv, DocsInv
<1>3. page \in Rendered /\ page.born = docs[n].born
  BY <1>2 DEF Rendered, Doc
<1>4. Traced(page, docs[n])
  BY <1>2 DEF Traced, Doc
<1>5. \A m \in DOMAIN docs : Traced(page, docs[m])
  <2>1. \A m \in DOMAIN docs : docs[m].born = page.born => m = n
    BY <1>1, <1>3 DEF TokenInv, DocsInv
  <2>. QED
    BY <1>4, <2>1 DEF Traced
<1>. HIDE DEF page
<1>6. pages' = [u \in Tabs |-> pages'[u]] /\ \A u \in Tabs : pages'[u] = IF u = t THEN page ELSE pages[u]
  BY <1>1 DEF TokenInv
<1>7. ASSUME NEW u \in Tabs
      PROVE  PageInv(pages[u])'
  <2>1. CASE u = t
    BY <1>1, <1>2, <1>3, <1>5, <1>6, <2>1 DEF PageInv, Traced
  <2>2. CASE u # t
    BY <1>1, <1>6, <2>2 DEF TokenInv, PageInv, Traced, Tokens!NoPage
  <2>. QED
    BY <2>1, <2>2
<1>. QED
  BY <1>1, <1>6, <1>7 DEF TokenInv, DocsInv

LEMMA TokensGoOn == TokenInv /\ Tokens!Next => TokenInv'
<1> SUFFICES ASSUME TokenInv, Tokens!Next
             PROVE  TokenInv'
  OBVIOUS
<1>1. UNCHANGED pages => /\ pages' = [t \in Tabs |-> pages'[t]]
                         /\ \A t \in Tabs : pages'[t] = pages[t]
  BY DEF TokenInv
<1>2. ASSUME NEW n \in Instances, NEW v \in Texts, Tokens!UpdateBlindly(n, v)
      PROVE  TokenInv'
  BY <1>1, <1>2, PutInv DEF Tokens!UpdateBlindly
<1>3. ASSUME NEW n \in Instances, Tokens!UpdateLimits(n)
      PROVE  TokenInv'
  <2>1. docs[n].shown \in Texts
    BY <1>3 DEF Tokens!UpdateLimits, TokenInv, DocsInv, Doc
  <2>. QED
    BY <1>2, <1>3, <2>1 DEF Tokens!UpdateLimits
<1>4. ASSUME NEW t \in Tabs, NEW v \in Texts, Tokens!Update(t, v)
      PROVE  TokenInv'
  <2>1. /\ pages[t].name \in DOMAIN docs /\ Tokens!Put(pages[t].name, v)
        /\ pages' = [pages EXCEPT ![t] = Tokens!NoPage] /\ UNCHANGED <<kind, born>>
    BY <1>4 DEF Tokens!Update, Tokens!Accepted
  <2>2. pages' = [u \in Tabs |-> pages'[u]]
        /\ \A u \in Tabs : pages'[u] = pages[u] \/ pages'[u] = Tokens!NoPage
    BY <2>1 DEF TokenInv
  <2>. QED
    BY <2>1, <2>2, PutInv
<1>. QED
  BY <1>2, <1>3, <1>4, CreateInv, FollowVolumeInv, RenameInv, DeleteInv, GetInv
     DEF Tokens!Next, Tokens!ChangeDevices

\* While its token would be accepted, a page shows what there is.
LEMMA AcceptedIsShown == TokenInv => TokensHold
<1> SUFFICES ASSUME TokenInv, NEW t \in Tabs, Tokens!Accepted(pages[t]),
                    Tokens!Same(docs[pages[t].name], pages[t])
             PROVE  docs[pages[t].name].shown = pages[t].shown
  BY DEF TokensHold, Tokens!TokensHold
<1>1. pages[t].open /\ pages[t].name \in DOMAIN docs
  BY DEF Tokens!Accepted
<1>2. pages[t] \in Rendered /\ Traced(pages[t], docs[pages[t].name])
  BY <1>1 DEF TokenInv, PageInv, Tokens!NoPage
<1>. QED
  BY <1>2 DEF Traced, Tokens!Accepted, Tokens!Same

\* The behaviours of FakeSpec: of the tokens, only the steps of their own side.
LEMMA TokensKept ==
  TokenInv /\ [FakeNext]_<<side, vars, inside, versions>> => TokenInv'
<1> SUFFICES ASSUME TokenInv, [FakeNext]_<<side, vars, inside, versions>>
             PROVE  TokenInv'
  OBVIOUS
<1>1. CASE Tokens!Next
  BY <1>1, TokensGoOn
<1>2. CASE UNCHANGED versions
  BY <1>2 DEF versions, TokenInv, DocsInv, PageInv, Traced
<1>. QED
  BY <1>1, <1>2 DEF FakeNext

\* Of the optimistic concurrency of the in-memory backend (backend.Version,
\* requireVersion): a token is accepted only while the resource is as the Get
\* that gave it showed it, whatever has been updated, renamed, deleted or created
\* again meanwhile.
THEOREM AcceptedTokensHold == FakeSpec => []TokensHold
<1>1. FakeInit => TokenInv
  BY TokensStart DEF FakeInit
<1>. QED
  BY <1>1, TokensKept, AcceptedIsShown, PTL DEF FakeSpec

-----------------------------------------------------------------------------
(* The contents of instances and volumes.                                  *)

Blobs == UNION {[S -> Texts] : S \in SUBSET Backups}
Holder == [value : Texts, tree : Nat, snapshots : [array : Nat, len : Nat], backups : Blobs]
Call == [pc : {"idle", "stream", "import"}, slice : Nat, sent : Seq(Texts), blob : Texts]

\* Two owners share neither files nor snapshots.
Alone(os) ==
  \A i, j \in DOMAIN os :
    os[i].tree = os[j].tree \/ os[i].snapshots.array = os[j].snapshots.array => i = j

\* The directory of each file is there.
Rooted(t) ==
  /\ DOMAIN t \subseteq DOMAIN Above
  /\ \A p \in DOMAIN t : Above[p] \in DOMAIN t /\ t[Above[p]] = 0

\* The names of a list of snapshots, the first of an array's cells.
Distinct(l, cells) ==
  /\ cells \in Seq(Snapshots)
  /\ l.len <= Len(cells)
  /\ \A k, m \in 1 .. l.len : cells[k] = cells[m] => k = m

\* The content of one upload.
Whole(s) == s \in Seq(Texts) /\ Len(s) = 2 /\ s[1] = s[2]

HeapOK(heap) == IsFiniteSet(DOMAIN heap) /\ DOMAIN heap \subseteq Nat \ {0}

Planted(os, ts) ==
  /\ DOMAIN ts = {os[i].tree : i \in DOMAIN os}
  /\ \A t \in DOMAIN ts : Rooted(ts[t])
Listed(os, as) ==
  /\ DOMAIN as = {os[i].snapshots.array : i \in DOMAIN os}
  /\ \A i \in DOMAIN os : Distinct(os[i].snapshots, as[os[i].snapshots.array])

\* A download holds a slice, of which it has sent the beginning.
Streaming(call, ss) ==
  /\ call.pc = "stream" => /\ call.slice # 0
                           /\ Len(call.sent) <= 2
                           /\ \A k \in 1 .. Len(call.sent) : call.sent[k] = ss[call.slice][k]
  /\ call.pc # "stream" => call.sent = <<>>

ContentsInv ==
  /\ part \in Parts
  /\ calls \in [Calls -> Call] /\ \A c \in Calls : Streaming(calls[c], slices)
  /\ DOMAIN owners \subseteq Instances /\ \A i \in DOMAIN owners : owners[i] \in Holder
  /\ Alone(owners) /\ Planted(owners, trees) /\ Listed(owners, arrays)
  /\ HeapOK(trees) /\ HeapOK(arrays) /\ HeapOK(slices)
  /\ DOMAIN slices = Contents!SliceRefs(trees, calls)
  /\ \A s \in DOMAIN slices : Whole(slices[s])

\* The slices that are referred to: by a file, or by a download.
LEMMA RefsAre ==
  ASSUME NEW ts, NEW cs, NEW x
  PROVE  x \in Contents!SliceRefs(ts, cs) <=>
           \/ x # 0 /\ \E t \in DOMAIN ts : \E p \in DOMAIN ts[t] : x = ts[t][p]
           \/ \E c \in Calls : cs[c].pc = "stream" /\ x = cs[c].slice
<1> DEFINE nodes == {{ts[t][p] : p \in DOMAIN ts[t]} : t \in DOMAIN ts}
           held == {c \in Calls : cs[c].pc = "stream"}
<1>1. x \in UNION nodes <=> \E t \in DOMAIN ts : \E p \in DOMAIN ts[t] : x = ts[t][p]
  <2>1. x \in UNION nodes <=> \E S \in nodes : x \in S
    OBVIOUS
  <2>2. (\E S \in nodes : x \in S) <=> \E t \in DOMAIN ts : x \in {ts[t][p] : p \in DOMAIN ts[t]}
    OBVIOUS
  <2>. QED
    BY <2>1, <2>2
<1>2. x \in {cs[c].slice : c \in held} <=> \E c \in Calls : cs[c].pc = "stream" /\ x = cs[c].slice
  OBVIOUS
<1>3. Contents!SliceRefs(ts, cs) = ((UNION nodes) \ {0}) \cup {cs[c].slice : c \in held}
  BY DEF Contents!SliceRefs, Contents!Held, Contents!Directory
<1> DEFINE asHeld == {cs[c].slice : c \in held}
<1>4. x \in asHeld <=> \E c \in Calls : cs[c].pc = "stream" /\ x = cs[c].slice
  BY <1>2
<1>5. Contents!SliceRefs(ts, cs) = ((UNION nodes) \ {0}) \cup asHeld
  BY <1>3
<1>. HIDE DEF nodes, held, asHeld
<1>6. x \in Contents!SliceRefs(ts, cs) <=> (x # 0 /\ x \in UNION nodes) \/ x \in asHeld
  BY <1>5
<1>. QED
  BY <1>1, <1>4, <1>6

\* Nothing yet.
LEMMA EmptyHeap == DOMAIN <<>> = {} /\ HeapOK(<<>>)
<1>1. DOMAIN <<>> = {}
  OBVIOUS
<1>. QED
  BY <1>1, FS_EmptySet DEF HeapOK

\* A request that is not in flight.
LEMMA IdleCall == Contents!Idle \in Call /\ Contents!Idle.pc = "idle" /\ Contents!Idle.sent = <<>>
<1>1. (CHOOSE v \in Texts : TRUE) \in Texts
  BY FakeBounds
<1>2. <<>> \in Seq(Texts)
  OBVIOUS
<1>. QED
  BY <1>1, <1>2 DEF Call, Contents!Idle

LEMMA ContentsStart == Contents!Init => ContentsInv
<1> SUFFICES ASSUME Contents!Init
             PROVE  ContentsInv
  OBVIOUS
<1>1. /\ part \in Parts /\ owners = <<>> /\ trees = <<>> /\ slices = <<>> /\ arrays = <<>>
      /\ calls = [c \in Calls |-> Contents!Idle]
  BY DEF Contents!Init
<1>2. calls \in [Calls -> Call] /\ \A c \in Calls : Streaming(calls[c], slices)
  BY <1>1, IdleCall DEF Streaming
<1>3. Alone(owners) /\ Planted(owners, trees) /\ Listed(owners, arrays)
  BY <1>1, EmptyHeap DEF Alone, Planted, Listed
<1>4. DOMAIN slices = Contents!SliceRefs(trees, calls)
  <2>1. ASSUME NEW x, x \in Contents!SliceRefs(trees, calls)
        PROVE  FALSE
    BY <1>1, <2>1, EmptyHeap, IdleCall, RefsAre
  <2>. QED
    BY <1>1, <2>1, EmptyHeap
<1>. QED
  BY <1>1, <1>2, <1>3, <1>4, EmptyHeap DEF ContentsInv

\* FakeContents counts with the library's operator, of its own instance.
LEMMA CountedAlike == ASSUME NEW S PROVE Contents!Cardinality(S) = Cardinality(S)
BY DEF Cardinality, Contents!Cardinality

\* There is always another key.
LEMMA FreshIsNew ==
  ASSUME NEW heap, HeapOK(heap)
  PROVE  Contents!Fresh(heap) \in Nat \ {0} /\ Contents!Fresh(heap) \notin DOMAIN heap
<1> DEFINE k == Cardinality(DOMAIN heap)
<1>1. k \in Nat
  BY FS_CardinalityType DEF HeapOK
<1>2. \E n \in 1 .. k + 1 : n \notin DOMAIN heap
  <2>1. Cardinality(1 .. k + 1) = k + 1
    BY <1>1, FS_Interval
  <2>2. ASSUME 1 .. k + 1 \subseteq DOMAIN heap
        PROVE  FALSE
    <3>1. Cardinality(1 .. k + 1) <= k
      BY <2>2, FS_Subset DEF HeapOK
    <3>. QED
      BY <1>1, <2>1, <3>1
  <2>. QED
    BY <2>2
<1>3. Contents!Fresh(heap) \in 1 .. k + 1 /\ Contents!Fresh(heap) \notin DOMAIN heap
  <2>1. \E n \in 1 .. Cardinality(DOMAIN heap) + 1 : n \notin DOMAIN heap
    BY <1>2
  <2>2. Contents!Fresh(heap) = CHOOSE n \in 1 .. Cardinality(DOMAIN heap) + 1 : n \notin DOMAIN heap
    BY CountedAlike DEF Contents!Fresh
  <2>3. /\ Contents!Fresh(heap) \in 1 .. Cardinality(DOMAIN heap) + 1
        /\ Contents!Fresh(heap) \notin DOMAIN heap
    BY <2>1, <2>2
  <2>. QED
    BY <2>3
<1>. HIDE DEF k
<1>. QED
  BY <1>1, <1>3

\* What the maps that the operations build hold.
LEMMA WithIs ==
  ASSUME NEW f, NEW x, NEW v
  PROVE  /\ DOMAIN Contents!With(f, x, v) = DOMAIN f \cup {x}
         /\ Contents!With(f, x, v)[x] = v
         /\ \A y \in DOMAIN f \ {x} : Contents!With(f, x, v)[y] = f[y]
BY DEF Contents!With, Contents!Merged, Contents!Only

LEMMA OnlyIs ==
  ASSUME NEW x, NEW v
  PROVE  DOMAIN Contents!Only(x, v) = {x} /\ Contents!Only(x, v)[x] = v
BY DEF Contents!Only

LEMMA MergedIs ==
  ASSUME NEW new, NEW old
  PROVE  /\ DOMAIN Contents!Merged(new, old) = DOMAIN new \cup DOMAIN old
         /\ \A x \in DOMAIN new : Contents!Merged(new, old)[x] = new[x]
         /\ \A x \in DOMAIN old \ DOMAIN new : Contents!Merged(new, old)[x] = old[x]
BY DEF Contents!Merged

LEMMA KeepIs ==
  ASSUME NEW heap, NEW refs
  PROVE  /\ DOMAIN Contents!Keep(heap, refs) = refs
         /\ \A r \in refs : Contents!Keep(heap, refs)[r] = heap[r]
BY DEF Contents!Keep

\* A heap of one.
LEMMA OnlyHeap ==
  ASSUME NEW x \in Nat \ {0}, NEW v
  PROVE  HeapOK(Contents!Only(x, v))
<1>1. DOMAIN Contents!Only(x, v) = {x}
  BY OnlyIs
<1>2. IsFiniteSet({x})
  BY FS_Singleton
<1>. QED
  BY <1>1, <1>2 DEF HeapOK

\* What is kept of two heaps, the new one first.
LEMMA KeptIs ==
  ASSUME NEW new, NEW old, NEW refs, refs \subseteq DOMAIN new \cup DOMAIN old,
         NEW kept, kept = Contents!Keep(Contents!Merged(new, old), refs)
  PROVE  /\ DOMAIN kept = refs
         /\ \A r \in refs : /\ r \in DOMAIN new => kept[r] = new[r]
                            /\ r \notin DOMAIN new => r \in DOMAIN old /\ kept[r] = old[r]
<1>1. kept = [r \in refs |-> [x \in DOMAIN new \cup DOMAIN old |->
                               IF x \in DOMAIN new THEN new[x] ELSE old[x]][r]]
  BY DEF Contents!Keep, Contents!Merged
<1>. QED
  BY <1>1

\* What is kept of two heaps is a heap.
LEMMA KeptHeap ==
  ASSUME NEW new, NEW old, NEW refs, HeapOK(new), HeapOK(old),
         refs \subseteq DOMAIN new \cup DOMAIN old
  PROVE  HeapOK(Contents!Keep(Contents!Merged(new, old), refs))
<1>1. IsFiniteSet(DOMAIN new \cup DOMAIN old)
  BY FS_Union DEF HeapOK
<1>2. IsFiniteSet(refs)
  BY <1>1, FS_Subset
<1>. QED
  BY <1>2, KeepIs DEF HeapOK

\* The nodes of the files that are there.
LEMMA NodesAre ==
  ASSUME ContentsInv, NEW t \in DOMAIN trees, NEW p \in DOMAIN trees[t]
  PROVE  trees[t][p] \in {0} \cup DOMAIN slices
<1>1. trees[t][p] # 0 => trees[t][p] \in Contents!SliceRefs(trees, calls)
  BY RefsAre
<1>. QED
  BY <1>1 DEF ContentsInv

\* The slice that a download holds.
LEMMA HeldIs ==
  ASSUME ContentsInv, NEW c \in Calls, calls[c].pc = "stream"
  PROVE  calls[c].slice \in DOMAIN slices
<1>1. calls[c].slice \in Contents!SliceRefs(trees, calls)
  BY RefsAre
<1>. QED
  BY <1>1 DEF ContentsInv

\* Every step that replaces the owners, with new maps, arrays and slices.
LEMMA SetAllInv ==
  ASSUME ContentsInv, NEW os, NEW nt, NEW na, NEW ns, Contents!SetAll(os, nt, na, ns),
         DOMAIN os \subseteq Instances, \A i \in DOMAIN os : os[i] \in Holder, Alone(os),
         HeapOK(nt), HeapOK(na), HeapOK(ns),
         \A i \in DOMAIN os : os[i].tree \in DOMAIN nt \cup DOMAIN trees,
         \A i \in DOMAIN os :
           /\ os[i].snapshots.array \in DOMAIN na \cup DOMAIN arrays
           /\ Distinct(os[i].snapshots, Contents!Merged(na, arrays)[os[i].snapshots.array]),
         \A t \in DOMAIN nt : /\ Rooted(nt[t])
                              /\ \A p \in DOMAIN nt[t] : nt[t][p] \in {0} \cup DOMAIN ns \cup DOMAIN slices,
         \A s \in DOMAIN ns : s \notin DOMAIN slices /\ Whole(ns[s])
  PROVE  ContentsInv'
<1>1. /\ owners' = os /\ part' = part /\ calls' = calls
      /\ trees' = Contents!Keep(Contents!Merged(nt, trees), {os[i].tree : i \in DOMAIN os})
      /\ arrays' = Contents!Keep(Contents!Merged(na, arrays), {os[i].snapshots.array : i \in DOMAIN os})
      /\ slices' = Contents!Keep(Contents!Merged(ns, slices), Contents!SliceRefs(trees', calls))
  BY DEF Contents!SetAll
<1>2. /\ DOMAIN trees' = {os[i].tree : i \in DOMAIN os}
      /\ \A t \in DOMAIN trees' : /\ t \in DOMAIN nt \cup DOMAIN trees
                                  /\ t \in DOMAIN nt => trees'[t] = nt[t]
                                  /\ t \notin DOMAIN nt => trees'[t] = trees[t]
  <2>1. {os[i].tree : i \in DOMAIN os} \subseteq DOMAIN nt \cup DOMAIN trees
    OBVIOUS
  <2>. QED
    BY <1>1, <2>1, KeptIs
<1>3. \A t \in DOMAIN trees' : /\ Rooted(trees'[t])
                               /\ \A p \in DOMAIN trees'[t] :
                                    trees'[t][p] \in {0} \cup DOMAIN ns \cup DOMAIN slices
  <2>1. \A t \in DOMAIN trees : Rooted(trees[t])
    BY DEF ContentsInv, Planted
  <2>. QED
    BY <1>2, <2>1, NodesAre
<1>4. Planted(owners, trees)' /\ HeapOK(trees)'
  <2>1. HeapOK(Contents!Keep(Contents!Merged(nt, trees), {os[i].tree : i \in DOMAIN os}))
    BY KeptHeap DEF ContentsInv
  <2>. QED
    BY <1>1, <1>2, <1>3, <2>1 DEF Planted, HeapOK
<1>5. Listed(owners, arrays)' /\ HeapOK(arrays)'
  <2>1. HeapOK(Contents!Keep(Contents!Merged(na, arrays), {os[i].snapshots.array : i \in DOMAIN os}))
    BY KeptHeap DEF ContentsInv
  <2>2. /\ DOMAIN arrays' = {os[i].snapshots.array : i \in DOMAIN os}
        /\ \A i \in DOMAIN os : arrays'[os[i].snapshots.array]
                                  = Contents!Merged(na, arrays)[os[i].snapshots.array]
    BY <1>1, KeepIs
  <2>. QED
    BY <1>1, <2>1, <2>2 DEF Listed, HeapOK
<1>6. \A x \in Contents!SliceRefs(trees', calls) : x \in DOMAIN ns \cup DOMAIN slices
  BY <1>3, RefsAre, HeldIs
<1>7. /\ DOMAIN slices' = Contents!SliceRefs(trees', calls')
      /\ \A s \in DOMAIN slices' : /\ s \in DOMAIN ns => slices'[s] = ns[s]
                                   /\ s \notin DOMAIN ns => slices'[s] = slices[s]
  <2>1. Contents!SliceRefs(trees', calls) \subseteq DOMAIN ns \cup DOMAIN slices
    BY <1>6
  <2>. QED
    BY <1>1, <2>1, KeptIs
<1>8. HeapOK(slices)'
  <2>1. HeapOK(Contents!Keep(Contents!Merged(ns, slices), Contents!SliceRefs(trees', calls)))
    BY <1>6, KeptHeap DEF ContentsInv
  <2>. QED
    BY <1>1, <2>1 DEF HeapOK
<1>9. \A s \in DOMAIN slices' : Whole(slices'[s])
  BY <1>1, <1>6, <1>7 DEF ContentsInv
<1>10. ASSUME NEW c \in Calls
       PROVE  Streaming(calls[c], slices)'
  <2>1. calls[c].pc = "stream" => slices'[calls[c].slice] = slices[calls[c].slice]
    <3>1. ASSUME calls[c].pc = "stream"
          PROVE  calls[c].slice \in DOMAIN slices /\ calls[c].slice \in DOMAIN slices'
      BY <1>1, <1>7, <3>1, HeldIs, RefsAre
    <3>. QED
      BY <1>7, <3>1
  <2>2. Streaming(calls[c], slices)
    BY DEF ContentsInv
  <2>. QED
    BY <1>1, <2>1, <2>2 DEF Streaming
<1>11. owners' = os /\ calls' \in [Calls -> Call] /\ part' \in Parts
  BY <1>1 DEF ContentsInv
<1>. QED
  BY <1>4, <1>5, <1>7, <1>8, <1>9, <1>10, <1>11 DEF ContentsInv, Alone

\* The directory that every tree begins with.
LEMMA RootIs ==
  /\ Contents!Root = "/" /\ Rooted(Contents!Only(Contents!Root, Contents!Directory))
  /\ \A p \in DOMAIN Contents!Only(Contents!Root, Contents!Directory) :
       Contents!Only(Contents!Root, Contents!Directory)[p] = 0
<1>1. Contents!Root = "/"
  <2>1. \A p \in DOMAIN Above : Above[p] = p <=> p = "/"
    BY DEF Above
  <2>2. "/" \in DOMAIN Above
    BY DEF Above
  <2>3. Contents!Root = CHOOSE p \in DOMAIN Above : Above[p] = p
    BY DEF Contents!Root, Contents!Paths
  <2>. QED
    BY <2>1, <2>2, <2>3
<1>2. "/" \in DOMAIN Above /\ Above["/"] = "/"
  BY DEF Above
<1>3. Contents!Only(Contents!Root, Contents!Directory) = [p \in {"/"} |-> 0]
  BY <1>1 DEF Contents!Only, Contents!Directory
<1>4. Rooted([p \in {"/"} |-> 0])
  BY <1>2 DEF Rooted
<1>. QED
  BY <1>1, <1>3, <1>4

\* An owner that has nothing.
LEMMA NewHolder ==
  ASSUME NEW v \in Texts, NEW t \in Nat, NEW a \in Nat
  PROVE  [value |-> v, tree |-> t, backups |-> <<>>, snapshots |-> [array |-> a, len |-> 0]] \in Holder
<1>1. <<>> \in Blobs
  <2>1. <<>> \in [{} -> Texts]
    OBVIOUS
  <2>2. {} \in SUBSET Backups
    OBVIOUS
  <2>. QED
    BY <2>1, <2>2 DEF Blobs
<1>. QED
  BY <1>1 DEF Holder

\* Another owner, with a tree and an array of its own.
LEMMA AddedIs ==
  ASSUME ContentsInv, NEW i \in Instances, i \notin DOMAIN owners, NEW h \in Holder,
         h.tree \notin DOMAIN trees, h.snapshots.array \notin DOMAIN arrays,
         NEW os, os = Contents!With(owners, i, h)
  PROVE  /\ DOMAIN os \subseteq Instances /\ \A j \in DOMAIN os : os[j] \in Holder
         /\ Alone(os)
         /\ \A j \in DOMAIN os : \/ j = i /\ os[j] = h
                                 \/ j \in DOMAIN owners /\ os[j] = owners[j]
<1>1. \A j \in DOMAIN os : \/ j = i /\ os[j] = h
                           \/ j \in DOMAIN owners /\ j # i /\ os[j] = owners[j]
  BY DEF Contents!With, Contents!Merged, Contents!Only
<1>2. \A j \in DOMAIN owners : owners[j].tree # h.tree
                               /\ owners[j].snapshots.array # h.snapshots.array
  BY DEF ContentsInv, Planted, Listed
<1>3. Alone(os)
  BY <1>1, <1>2 DEF ContentsInv, Alone
<1>4. DOMAIN os \subseteq Instances /\ \A j \in DOMAIN os : os[j] \in Holder
  BY <1>1 DEF ContentsInv
<1>. QED
  BY <1>1, <1>3, <1>4

\* What an owner refers to is there.
LEMMA OwnersAre ==
  ASSUME ContentsInv, NEW i \in DOMAIN owners
  PROVE  /\ i \in Instances /\ owners[i] \in Holder
         /\ owners[i].tree \in DOMAIN trees /\ Rooted(trees[owners[i].tree])
         /\ owners[i].snapshots.array \in DOMAIN arrays
         /\ Distinct(owners[i].snapshots, arrays[owners[i].snapshots.array])
BY DEF ContentsInv, Planted, Listed

\* The array of an owner that no other array takes the place of.
LEMMA ListStays ==
  ASSUME ContentsInv, NEW i \in DOMAIN owners, NEW na,
         owners[i].snapshots.array \notin DOMAIN na
  PROVE  /\ owners[i].snapshots.array \in DOMAIN na \cup DOMAIN arrays
         /\ Distinct(owners[i].snapshots, Contents!Merged(na, arrays)[owners[i].snapshots.array])
<1>1. owners[i].snapshots.array \in DOMAIN arrays
      /\ Distinct(owners[i].snapshots, arrays[owners[i].snapshots.array])
  BY OwnersAre
<1>2. Contents!Merged(na, arrays)[owners[i].snapshots.array] = arrays[owners[i].snapshots.array]
  BY <1>1 DEF Contents!Merged
<1>. QED
  BY <1>1, <1>2

\* An empty list is of any cells.
LEMMA NoSnapshots ==
  ASSUME NEW a
  PROVE  Distinct([array |-> a, len |-> 0], <<>>)
<1>1. <<>> \in Seq(Snapshots) /\ Len(<<>>) = 0
  OBVIOUS
<1>. QED
  BY <1>1 DEF Distinct

LEMMA CreateOwnerInv ==
  ASSUME ContentsInv, NEW i \in Instances, NEW v \in Texts, Contents!Create(i, v)
  PROVE  ContentsInv'
<1> DEFINE t == Contents!Fresh(trees)
           a == Contents!Fresh(arrays)
           h == [value |-> v, tree |-> t, backups |-> <<>>, snapshots |-> [array |-> a, len |-> 0]]
           os == Contents!With(owners, i, h)
           nt == Contents!Only(t, Contents!Only(Contents!Root, Contents!Directory))
           na == Contents!Only(a, <<>>)
<1>1. i \notin DOMAIN owners /\ Contents!SetAll(os, nt, na, <<>>)
  BY DEF Contents!Create, Contents!New, Contents!SetOwners, Contents!NewTree, Contents!NewArray
<1>2. /\ t \in Nat \ {0} /\ t \notin DOMAIN trees
      /\ a \in Nat \ {0} /\ a \notin DOMAIN arrays
  BY FreshIsNew DEF ContentsInv
<1>. HIDE DEF t, a
<1>3. h \in Holder
  BY <1>2, NewHolder
<1>4. h.tree = t /\ h.snapshots = [array |-> a, len |-> 0]
  OBVIOUS
<1>5. HeapOK(nt) /\ HeapOK(na) /\ DOMAIN nt = {t} /\ DOMAIN na = {a}
  BY <1>2, OnlyHeap, OnlyIs
<1>6. \A x \in DOMAIN nt : /\ Rooted(nt[x])
                           /\ \A p \in DOMAIN nt[x] : nt[x][p] \in {0} \cup DOMAIN <<>> \cup DOMAIN slices
  <2>1. nt[t] = Contents!Only(Contents!Root, Contents!Directory)
    BY OnlyIs
  <2>. HIDE DEF nt
  <2>2. Rooted(nt[t]) /\ \A p \in DOMAIN nt[t] : nt[t][p] = 0
    BY <2>1, RootIs
  <2>. QED
    BY <1>5, <2>2
<1>7. Contents!Merged(na, arrays)[a] = <<>>
  <2>1. na[a] = <<>>
    BY OnlyIs
  <2>. HIDE DEF na
  <2>. QED
    BY <1>5, <2>1 DEF Contents!Merged
<1>. HIDE DEF h, nt, na
<1>8. /\ DOMAIN os \subseteq Instances /\ \A j \in DOMAIN os : os[j] \in Holder
      /\ Alone(os)
      /\ \A j \in DOMAIN os : \/ j = i /\ os[j] = h
                              \/ j \in DOMAIN owners /\ os[j] = owners[j]
  BY <1>1, <1>2, <1>3, <1>4, AddedIs
<1>. HIDE DEF os
<1>9. \A j \in DOMAIN os : os[j].tree \in DOMAIN nt \cup DOMAIN trees
  BY <1>4, <1>5, <1>8, OwnersAre
<1>10. ASSUME NEW j \in DOMAIN os
       PROVE  /\ os[j].snapshots.array \in DOMAIN na \cup DOMAIN arrays
              /\ Distinct(os[j].snapshots, Contents!Merged(na, arrays)[os[j].snapshots.array])
  <2>1. CASE os[j] = h
    BY <1>4, <1>5, <1>7, <2>1, NoSnapshots
  <2>2. CASE j \in DOMAIN owners /\ os[j] = owners[j]
    <3>1. owners[j].snapshots.array \notin DOMAIN na
      BY <1>2, <1>5, <2>2, OwnersAre
    <3>. QED
      BY <2>2, <3>1, ListStays
  <2>. QED
    BY <1>8, <2>1, <2>2
<1>. QED
  BY <1>1, <1>5, <1>6, <1>8, <1>9, <1>10, EmptyHeap, SetAllInv

\* Every step that moves, ends or edits owners: each has its tree and its list
\* from one that was there, and no two from the same.
LEMMA SameTreesInv ==
  ASSUME ContentsInv, NEW os, Contents!SetOwners(os, <<>>, <<>>),
         DOMAIN os \subseteq Instances, \A j \in DOMAIN os : os[j] \in Holder,
         NEW from, \A j \in DOMAIN os : /\ from[j] \in DOMAIN owners
                                        /\ os[j].tree = owners[from[j]].tree
                                        /\ os[j].snapshots = owners[from[j]].snapshots,
         \A j, k \in DOMAIN os : from[j] = from[k] => j = k
  PROVE  ContentsInv'
<1>1. Contents!SetAll(os, <<>>, <<>>, <<>>)
  BY DEF Contents!SetOwners
<1>2. Alone(os)
  BY DEF Alone, ContentsInv
<1>3. ASSUME NEW j \in DOMAIN os
      PROVE  /\ os[j].snapshots.array \in DOMAIN <<>> \cup DOMAIN arrays
             /\ Distinct(os[j].snapshots, Contents!Merged(<<>>, arrays)[os[j].snapshots.array])
  <2>1. from[j] \in DOMAIN owners /\ os[j].snapshots = owners[from[j]].snapshots
    OBVIOUS
  <2>2. owners[from[j]].snapshots.array \notin DOMAIN <<>>
    BY EmptyHeap
  <2>. QED
    BY <2>1, <2>2, ListStays
<1>4. \A j \in DOMAIN os : os[j].tree \in DOMAIN <<>> \cup DOMAIN trees
  BY OwnersAre
<1>5. (\A t \in DOMAIN <<>> : FALSE) /\ HeapOK(<<>>)
  BY EmptyHeap
<1>. QED
  BY <1>1, <1>2, <1>3, <1>4, <1>5, SetAllInv

\* One owner is edited, and keeps its tree and its list.
LEMMA EditedInv ==
  ASSUME ContentsInv, NEW i \in DOMAIN owners, NEW h \in Holder,
         h.tree = owners[i].tree, h.snapshots = owners[i].snapshots,
         Contents!SetOwners([owners EXCEPT ![i] = h], <<>>, <<>>)
  PROVE  ContentsInv'
<1> DEFINE os == [owners EXCEPT ![i] = h]
           from == [j \in DOMAIN os |-> j]
<1>1. /\ DOMAIN os = DOMAIN owners /\ \A j \in DOMAIN owners : os[j] = IF j = i THEN h ELSE owners[j]
      /\ Contents!SetOwners(os, <<>>, <<>>)
  OBVIOUS
<1>. HIDE DEF os
<1>2. /\ \A j \in DOMAIN os : /\ from[j] \in DOMAIN owners
                              /\ os[j].tree = owners[from[j]].tree
                              /\ os[j].snapshots = owners[from[j]].snapshots
      /\ \A j, k \in DOMAIN os : from[j] = from[k] => j = k
  BY <1>1
<1>3. DOMAIN os \subseteq Instances /\ \A j \in DOMAIN os : os[j] \in Holder
  BY <1>1, OwnersAre
<1>. HIDE DEF from
<1>. QED
  BY <1>1, <1>2, <1>3, SameTreesInv

LEMMA DeleteOwnerInv ==
  ASSUME ContentsInv, NEW i \in Instances, Contents!Delete(i)
  PROVE  ContentsInv'
<1> DEFINE os == Contents!Without(owners, i)
           from == [j \in DOMAIN os |-> j]
<1>1. DOMAIN os \subseteq DOMAIN owners /\ \A j \in DOMAIN os : os[j] = owners[j]
  BY DEF Contents!Without
<1>2. Contents!SetOwners(os, <<>>, <<>>)
  BY DEF Contents!Delete
<1>. HIDE DEF os
<1>3. /\ \A j \in DOMAIN os : /\ from[j] \in DOMAIN owners
                              /\ os[j].tree = owners[from[j]].tree
                              /\ os[j].snapshots = owners[from[j]].snapshots
      /\ \A j, k \in DOMAIN os : from[j] = from[k] => j = k
  BY <1>1
<1>4. DOMAIN os \subseteq Instances /\ \A j \in DOMAIN os : os[j] \in Holder
  BY <1>1, OwnersAre
<1>. HIDE DEF from
<1>. QED
  BY <1>2, <1>3, <1>4, SameTreesInv

LEMMA RenameOwnerInv ==
  ASSUME ContentsInv, NEW i \in Instances, NEW j \in Instances, Contents!Rename(i, j)
  PROVE  ContentsInv'
<1> DEFINE os == Contents!With(Contents!Without(owners, i), j, owners[i])
           from == [k \in DOMAIN os |-> IF k = j THEN i ELSE k]
<1>1. i \in DOMAIN owners /\ j \notin DOMAIN owners /\ Contents!SetOwners(os, <<>>, <<>>)
  BY DEF Contents!Rename
<1>2. /\ DOMAIN os = (DOMAIN owners \ {i}) \cup {j} /\ os[j] = owners[i]
      /\ \A k \in DOMAIN owners \ {i} : os[k] = owners[k]
  BY <1>1 DEF Contents!With, Contents!Without, Contents!Merged, Contents!Only
<1>. HIDE DEF os
<1>3. /\ \A k \in DOMAIN os : /\ from[k] \in DOMAIN owners
                              /\ os[k].tree = owners[from[k]].tree
                              /\ os[k].snapshots = owners[from[k]].snapshots
      /\ \A k, l \in DOMAIN os : from[k] = from[l] => k = l
  BY <1>1, <1>2
<1>4. DOMAIN os \subseteq Instances /\ \A k \in DOMAIN os : os[k] \in Holder
  BY <1>1, <1>2, OwnersAre
<1>. HIDE DEF from
<1>. QED
  BY <1>1, <1>3, <1>4, SameTreesInv

LEMMA UpdateVolumeInv ==
  ASSUME ContentsInv, NEW i \in Instances, NEW v \in Texts, Contents!UpdateVolume(i, v)
  PROVE  ContentsInv'
<1> DEFINE h == [owners[i] EXCEPT !.value = v]
<1>1. i \in DOMAIN owners /\ Contents!SetOwners([owners EXCEPT ![i].value = v], <<>>, <<>>)
  BY DEF Contents!UpdateVolume
<1>2. owners[i] \in Holder
  BY <1>1, OwnersAre
<1>3. h \in Holder /\ h.tree = owners[i].tree /\ h.snapshots = owners[i].snapshots
  BY <1>2 DEF Holder
<1>4. [owners EXCEPT ![i].value = v] = [owners EXCEPT ![i] = h]
  OBVIOUS
<1>. HIDE DEF h
<1>. QED
  BY <1>1, <1>3, <1>4, EditedInv

\* A set of backups with one more or one less.
LEMMA BlobsWith ==
  ASSUME NEW bs \in Blobs, NEW b \in Backups, NEW v \in Texts
  PROVE  Contents!With(bs, b, v) \in Blobs /\ Contents!Without(bs, b) \in Blobs
<1>1. PICK S \in SUBSET Backups : bs \in [S -> Texts]
  BY DEF Blobs
<1>2. Contents!With(bs, b, v) \in [S \cup {b} -> Texts]
  BY <1>1 DEF Contents!With, Contents!Merged, Contents!Only
<1>3. Contents!Without(bs, b) \in [S \ {b} -> Texts]
  BY <1>1 DEF Contents!Without
<1>4. S \cup {b} \in SUBSET Backups /\ S \ {b} \in SUBSET Backups
  OBVIOUS
<1>. QED
  BY <1>2, <1>3, <1>4 DEF Blobs

\* The backups are an owner's own.
LEMMA BackupsEdited ==
  ASSUME ContentsInv, NEW i \in DOMAIN owners, NEW bs \in Blobs,
         Contents!SetOwners([owners EXCEPT ![i].backups = bs], <<>>, <<>>)
  PROVE  ContentsInv'
<1> DEFINE h == [owners[i] EXCEPT !.backups = bs]
<1>2. owners[i] \in Holder
  BY OwnersAre
<1>3. h \in Holder /\ h.tree = owners[i].tree /\ h.snapshots = owners[i].snapshots
  BY <1>2 DEF Holder
<1>4. [owners EXCEPT ![i].backups = bs] = [owners EXCEPT ![i] = h]
  OBVIOUS
<1>. HIDE DEF h
<1>. QED
  BY <1>3, <1>4, EditedInv

LEMMA CreateBackupInv ==
  ASSUME ContentsInv, NEW i \in Instances, NEW b \in Backups, Contents!CreateInstanceBackup(i, b)
  PROVE  ContentsInv'
<1>1. i \in DOMAIN owners /\ owners[i] \in Holder
  BY OwnersAre DEF Contents!CreateInstanceBackup
<1>2. Contents!With(owners[i].backups, b, owners[i].value) \in Blobs
  BY <1>1, BlobsWith DEF Holder
<1>3. Contents!SetOwners([owners EXCEPT ![i].backups
                            = Contents!With(owners[i].backups, b, owners[i].value)], <<>>, <<>>)
  BY DEF Contents!CreateInstanceBackup
<1>. QED
  BY <1>1, <1>2, <1>3, BackupsEdited

LEMMA DeleteBackupInv ==
  ASSUME ContentsInv, NEW i \in Instances, NEW b \in Backups, Contents!DeleteInstanceBackup(i, b)
  PROVE  ContentsInv'
<1>1. i \in DOMAIN owners /\ owners[i] \in Holder
  BY OwnersAre DEF Contents!DeleteInstanceBackup
<1>2. Contents!Without(owners[i].backups, b) \in Blobs
  BY <1>1, BlobsWith DEF Holder
<1>3. Contents!SetOwners([owners EXCEPT ![i].backups = Contents!Without(owners[i].backups, b)], <<>>, <<>>)
  BY DEF Contents!DeleteInstanceBackup
<1>. QED
  BY <1>1, <1>2, <1>3, BackupsEdited

\* Every step of a request that leaves what the owners hold.
LEMMA CallsInv ==
  ASSUME ContentsInv, UNCHANGED <<part, owners, trees, arrays>>,
         calls' \in [Calls -> Call], \A c \in Calls : Streaming(calls'[c], slices'),
         DOMAIN slices' = Contents!SliceRefs(trees, calls'),
         \A s \in DOMAIN slices' : s \in DOMAIN slices /\ slices'[s] = slices[s]
  PROVE  ContentsInv'
<1>1. HeapOK(slices')
  <2>1. IsFiniteSet(DOMAIN slices')
    <3>1. DOMAIN slices' \subseteq DOMAIN slices /\ IsFiniteSet(DOMAIN slices)
      BY DEF ContentsInv, HeapOK
    <3>. QED
      BY <3>1, FS_Subset
  <2>. QED
    BY <2>1 DEF ContentsInv, HeapOK
<1>2. HeapOK(trees)' /\ HeapOK(arrays)' /\ HeapOK(slices)'
  BY <1>1 DEF ContentsInv, HeapOK
<1>3. Planted(owners, trees)' /\ Listed(owners, arrays)' /\ Alone(owners)'
  BY DEF ContentsInv, Planted, Listed, Alone
<1>4. \A c \in Calls : Streaming(calls[c], slices)'
  BY DEF Streaming
<1>. QED
  BY <1>2, <1>3, <1>4 DEF ContentsInv

LEMMA PullFileInv ==
  ASSUME ContentsInv, NEW c \in Calls, NEW i \in Instances, NEW p \in DOMAIN Above,
         Contents!PullFile(c, i, p)
  PROVE  ContentsInv'
<1> DEFINE s == trees[owners[i].tree][p]
           call == [Contents!Idle EXCEPT !.pc = "stream", !.slice = s]
<1>1. /\ calls[c].pc = "idle" /\ i \in DOMAIN owners /\ p \in DOMAIN trees[owners[i].tree] /\ s # 0
      /\ calls' = [calls EXCEPT ![c] = call] /\ UNCHANGED <<part, owners, trees, slices, arrays>>
  BY DEF Contents!PullFile, Contents!Tree, Contents!Directory
<1>2. owners[i].tree \in DOMAIN trees
  BY <1>1, OwnersAre
<1>3. s \in DOMAIN slices /\ s \in Nat
  BY <1>1, <1>2, NodesAre DEF ContentsInv, HeapOK
<1>4. call \in Call /\ call.pc = "stream" /\ call.slice = s /\ call.sent = <<>>
  BY <1>3, IdleCall DEF Call
<1>5. Streaming(call, slices)
  <2>1. Len(<<>>) = 0
    OBVIOUS
  <2>. HIDE DEF call, s
  <2>. QED
    BY <1>1, <1>4, <2>1 DEF Streaming
<1>. HIDE DEF call
<1>6. calls \in [Calls -> Call] /\ \A d \in Calls : Streaming(calls[d], slices)
  BY DEF ContentsInv
<1>7. calls' \in [Calls -> Call] /\ \A d \in Calls : calls'[d] = IF d = c THEN call ELSE calls[d]
  BY <1>1, <1>4, <1>6
<1>8. \A d \in Calls : Streaming(calls'[d], slices')
  BY <1>1, <1>5, <1>6, <1>7 DEF Streaming
<1>9. DOMAIN slices' = Contents!SliceRefs(trees, calls')
  <2>1. ASSUME NEW x
        PROVE  x \in Contents!SliceRefs(trees, calls') <=> x \in Contents!SliceRefs(trees, calls)
    <3>1. s \in Contents!SliceRefs(trees, calls)
      BY <1>3 DEF ContentsInv
    <3>2. \A d \in Calls : calls'[d].pc = "stream" =>
            \/ calls'[d].slice = s
            \/ calls[d].pc = "stream" /\ calls'[d].slice = calls[d].slice
      BY <1>4, <1>7
    <3>3. \A d \in Calls : calls[d].pc = "stream" => calls'[d].pc = "stream" /\ calls'[d].slice = calls[d].slice
      BY <1>1, <1>7
    <3>. HIDE DEF s
    <3>4. ASSUME x \in Contents!SliceRefs(trees, calls)
          PROVE  x \in Contents!SliceRefs(trees, calls')
      BY <3>3, <3>4, RefsAre
    <3>5. ASSUME x \in Contents!SliceRefs(trees, calls')
          PROVE  x \in Contents!SliceRefs(trees, calls)
      BY <3>1, <3>2, <3>5, RefsAre
    <3>. QED
      BY <3>4, <3>5
  <2>. QED
    BY <1>1, <2>1 DEF ContentsInv
<1>. QED
  BY <1>1, <1>7, <1>8, <1>9, CallsInv

LEMMA StreamBlockInv ==
  ASSUME ContentsInv, NEW c \in Calls, Contents!StreamBlock(c)
  PROVE  ContentsInv'
<1> DEFINE s == calls[c].slice
           old == calls[c].sent
           block == slices[s][Len(old) + 1]
           call == [calls[c] EXCEPT !.sent = Append(old, block)]
<1>1. /\ calls[c].pc = "stream" /\ Len(old) < 2
      /\ calls' = [calls EXCEPT ![c] = call] /\ UNCHANGED <<part, owners, trees, slices, arrays>>
  BY DEF Contents!StreamBlock
<1>2. calls[c] \in Call /\ Streaming(calls[c], slices) /\ old \in Seq(Texts) /\ Len(old) \in {0, 1}
  <2>1. calls[c] \in Call /\ Streaming(calls[c], slices)
    BY DEF ContentsInv
  <2>2. old \in Seq(Texts)
    BY <2>1 DEF Call
  <2>3. Len(old) \in Nat /\ Len(old) < 2
    BY <1>1, <2>2
  <2>. HIDE DEF old
  <2>4. \A n \in Nat : n < 2 => n \in {0, 1}
    OBVIOUS
  <2>. QED
    BY <2>1, <2>2, <2>3, <2>4
<1>3. Whole(slices[s]) /\ s # 0
  <2>1. s \in DOMAIN slices
    BY <1>1, HeldIs
  <2>. QED
    BY <1>1, <1>2, <2>1 DEF ContentsInv, Streaming
<1>4. block \in Texts
  BY <1>2, <1>3 DEF Whole
<1>5. Append(old, block) \in Seq(Texts) /\ Len(Append(old, block)) = Len(old) + 1
      /\ Append(old, block)[Len(old) + 1] = block
      /\ \A k \in 1 .. Len(old) : Append(old, block)[k] = old[k]
  BY <1>2, <1>4, AppendProperties
<1>6. call \in Call /\ call.pc = "stream" /\ call.slice = s /\ call.sent = Append(old, block)
  BY <1>1, <1>2, <1>5 DEF Call
<1>7. Streaming(call, slices)
  <2>1. \A k \in 1 .. Len(old) : old[k] = slices[s][k]
    BY <1>1, <1>2 DEF Streaming
  <2>2. \A k \in 1 .. (Len(old) + 1) : Append(old, block)[k] = slices[s][k]
    <3>1. \A k \in 1 .. (Len(old) + 1) : k \in 1 .. Len(old) \/ k = Len(old) + 1
      BY <1>2
    <3>. QED
      BY <1>5, <2>1, <3>1
  <2>3. call.pc = "stream" /\ call.slice = s /\ s # 0 /\ call.sent = Append(old, block)
    BY <1>3, <1>6
  <2>4. Len(Append(old, block)) = Len(old) + 1 /\ Len(old) + 1 <= 2
    BY <1>2, <1>5
  <2>. HIDE DEF call, block, s, old
  <2>. QED
    BY <2>2, <2>3, <2>4 DEF Streaming
<1>. HIDE DEF call, block
<1>8. calls \in [Calls -> Call] /\ \A d \in Calls : Streaming(calls[d], slices)
  BY DEF ContentsInv
<1>9. calls' \in [Calls -> Call] /\ \A d \in Calls : calls'[d] = IF d = c THEN call ELSE calls[d]
  BY <1>1, <1>6, <1>8
<1>10. \A d \in Calls : Streaming(calls'[d], slices')
  BY <1>1, <1>7, <1>8, <1>9 DEF Streaming
<1>11. DOMAIN slices' = Contents!SliceRefs(trees, calls')
  <2>1. \A d \in Calls : calls'[d].pc = calls[d].pc /\ calls'[d].slice = calls[d].slice
    BY <1>1, <1>6, <1>9
  <2>2. ASSUME NEW x
        PROVE  x \in Contents!SliceRefs(trees, calls') <=> x \in Contents!SliceRefs(trees, calls)
    <3>1. (\E d \in Calls : calls'[d].pc = "stream" /\ x = calls'[d].slice)
            <=> \E d \in Calls : calls[d].pc = "stream" /\ x = calls[d].slice
      BY <2>1
    <3>. QED
      BY <3>1, RefsAre
  <2>. QED
    BY <1>1, <2>2 DEF ContentsInv
<1>. QED
  BY <1>1, <1>9, <1>10, <1>11, CallsInv

LEMMA EndPullInv ==
  ASSUME ContentsInv, NEW c \in Calls, Contents!EndPull(c)
  PROVE  ContentsInv'
<1>1. /\ calls' = [calls EXCEPT ![c] = Contents!Idle] /\ UNCHANGED <<part, owners, trees, arrays>>
      /\ slices' = Contents!Keep(slices, Contents!SliceRefs(trees, calls'))
  BY DEF Contents!EndPull
<1>2. calls \in [Calls -> Call] /\ \A d \in Calls : Streaming(calls[d], slices)
  BY DEF ContentsInv
<1>3. calls' \in [Calls -> Call]
      /\ \A d \in Calls : calls'[d] = IF d = c THEN Contents!Idle ELSE calls[d]
  BY <1>1, <1>2, IdleCall
<1>4. \A x \in Contents!SliceRefs(trees, calls') : x \in DOMAIN slices
  <2>1. ASSUME NEW x \in Contents!SliceRefs(trees, calls')
        PROVE  x \in Contents!SliceRefs(trees, calls)
    <3>1. \A d \in Calls : calls'[d].pc = "stream" => calls[d].pc = "stream" /\ calls'[d] = calls[d]
      BY <1>3, IdleCall
    <3>. QED
      BY <3>1, RefsAre
  <2>. QED
    BY <2>1 DEF ContentsInv
<1>5. /\ DOMAIN slices' = Contents!SliceRefs(trees, calls')
      /\ \A s \in DOMAIN slices' : s \in DOMAIN slices /\ slices'[s] = slices[s]
  BY <1>1, <1>4 DEF Contents!Keep
<1>6. ASSUME NEW d \in Calls
      PROVE  Streaming(calls'[d], slices')
  <2>1. CASE d = c
    BY <1>3, <2>1, IdleCall DEF Streaming
  <2>2. CASE d # c /\ calls[d].pc = "stream"
    <3>1. calls'[d] = calls[d]
      BY <1>3, <2>2
    <3>2. calls[d].slice \in DOMAIN slices'
      BY <1>5, <2>2, <3>1, RefsAre
    <3>. QED
      BY <1>2, <1>5, <3>1, <3>2 DEF Streaming
  <2>3. CASE d # c /\ calls[d].pc # "stream"
    BY <1>2, <1>3, <2>3 DEF Streaming
  <2>. QED
    BY <2>1, <2>2, <2>3
<1>. QED
  BY <1>1, <1>3, <1>5, <1>6, CallsInv

\* Nothing that streams is touched by another request's step.
LEMMA RefsStay ==
  ASSUME NEW ts, NEW old, NEW new, NEW c \in Calls, old[c].pc # "stream", new[c].pc # "stream",
         \A d \in Calls \ {c} : new[d] = old[d]
  PROVE  Contents!SliceRefs(ts, new) = Contents!SliceRefs(ts, old)
<1>1. \A d \in Calls : new[d].pc = "stream" <=> old[d].pc = "stream"
  OBVIOUS
<1>2. \A d \in Calls : new[d].pc = "stream" => new[d] = old[d]
  OBVIOUS
<1>3. ASSUME NEW x
      PROVE  x \in Contents!SliceRefs(ts, new) <=> x \in Contents!SliceRefs(ts, old)
  <2>1. (\E d \in Calls : new[d].pc = "stream" /\ x = new[d].slice)
          <=> \E d \in Calls : old[d].pc = "stream" /\ x = old[d].slice
    BY <1>1, <1>2
  <2>. QED
    BY <2>1, RefsAre
<1>. QED
  BY <1>3

LEMMA RestoreInv ==
  ASSUME ContentsInv, NEW c \in Calls, NEW i \in Instances, NEW b \in Backups,
         Contents!RestoreInstanceBackup(c, i, b)
  PROVE  ContentsInv'
<1> DEFINE call == [Contents!Idle EXCEPT !.pc = "import", !.blob = owners[i].backups[b]]
<1>1. /\ calls[c].pc = "idle" /\ i \in DOMAIN owners /\ b \in DOMAIN owners[i].backups
      /\ calls' = [calls EXCEPT ![c] = call] /\ UNCHANGED <<part, owners, trees, slices, arrays>>
  BY DEF Contents!RestoreInstanceBackup
<1>2. owners[i].backups[b] \in Texts
  BY <1>1, OwnersAre DEF Holder, Blobs
<1>3. call \in Call /\ call.pc = "import" /\ call.sent = <<>>
  BY <1>2, IdleCall DEF Call
<1>. HIDE DEF call
<1>4. calls \in [Calls -> Call] /\ \A d \in Calls : Streaming(calls[d], slices)
  BY DEF ContentsInv
<1>5. calls' \in [Calls -> Call] /\ \A d \in Calls : calls'[d] = IF d = c THEN call ELSE calls[d]
  BY <1>1, <1>3, <1>4
<1>6. \A d \in Calls : Streaming(calls'[d], slices')
  BY <1>1, <1>3, <1>4, <1>5 DEF Streaming
<1>7. Contents!SliceRefs(trees, calls') = Contents!SliceRefs(trees, calls)
  <2>. DEFINE old == calls
              new == calls'
  <2>1. old[c].pc # "stream" /\ new[c].pc # "stream" /\ \A d \in Calls \ {c} : new[d] = old[d]
    BY <1>1, <1>3, <1>5
  <2>. HIDE DEF old, new
  <2>2. Contents!SliceRefs(trees, new) = Contents!SliceRefs(trees, old)
    BY <2>1, RefsStay
  <2>. QED
    BY <2>2 DEF old, new
<1>8. DOMAIN slices' = Contents!SliceRefs(trees, calls')
  BY <1>1, <1>7 DEF ContentsInv
<1>. QED
  BY <1>1, <1>5, <1>6, <1>8, CallsInv

\* The call is over before its instance is there, or with it.
LEMMA ImportInv ==
  ASSUME ContentsInv, NEW c \in Calls, NEW j \in Instances, Contents!ImportInstance(c, j)
  PROVE  ContentsInv'
<1>1. /\ calls[c].pc = "import" /\ calls' = [calls EXCEPT ![c] = Contents!Idle]
      /\ UNCHANGED <<part, slices>>
  BY DEF Contents!ImportInstance
<1>2. calls \in [Calls -> Call] /\ \A d \in Calls : Streaming(calls[d], slices)
  BY DEF ContentsInv
<1>3. calls' \in [Calls -> Call]
      /\ \A d \in Calls : calls'[d] = IF d = c THEN Contents!Idle ELSE calls[d]
  BY <1>1, <1>2, IdleCall
<1>4. \A d \in Calls : Streaming(calls'[d], slices')
  BY <1>1, <1>2, <1>3, IdleCall DEF Streaming
<1>5. \A ts : Contents!SliceRefs(ts, calls') = Contents!SliceRefs(ts, calls)
  BY <1>1, <1>3, IdleCall, RefsStay
<1>6. CASE j \in DOMAIN owners
  <2>1. UNCHANGED <<owners, trees, arrays>>
    BY <1>6 DEF Contents!ImportInstance
  <2>2. DOMAIN slices' = Contents!SliceRefs(trees, calls')
    BY <1>1, <1>5 DEF ContentsInv
  <2>. QED
    BY <1>1, <1>3, <1>4, <2>1, <2>2, CallsInv
<1>7. CASE j \notin DOMAIN owners
  <2> DEFINE t == Contents!Fresh(trees)
             a == Contents!Fresh(arrays)
             h == [value |-> calls[c].blob, tree |-> t, backups |-> <<>>,
                   snapshots |-> [array |-> a, len |-> 0]]
             tree == Contents!Only(Contents!Root, Contents!Directory)
  <2>1. /\ owners' = Contents!With(owners, j, h)
        /\ trees' = Contents!With(trees, t, tree)
        /\ arrays' = Contents!With(arrays, a, <<>>)
    BY <1>7 DEF Contents!ImportInstance, Contents!NewTree, Contents!NewArray
  <2>2. /\ t \in Nat \ {0} /\ t \notin DOMAIN trees
        /\ a \in Nat \ {0} /\ a \notin DOMAIN arrays
    BY FreshIsNew DEF ContentsInv
  <2>3. Rooted(tree) /\ \A p \in DOMAIN tree : tree[p] = 0
    BY RootIs
  <2>. HIDE DEF t, a, tree
  <2>4. calls[c].blob \in Texts
    BY <1>2 DEF Call
  <2>5. h \in Holder /\ h.tree = t /\ h.snapshots = [array |-> a, len |-> 0]
    BY <2>2, <2>4, NewHolder
  <2>. HIDE DEF h
  <2>6. /\ DOMAIN owners' \subseteq Instances /\ \A k \in DOMAIN owners' : owners'[k] \in Holder
        /\ Alone(owners')
        /\ DOMAIN owners' = DOMAIN owners \cup {j} /\ owners'[j] = h
        /\ \A k \in DOMAIN owners : owners'[k] = owners[k]
    <3>1. /\ DOMAIN owners' \subseteq Instances /\ \A k \in DOMAIN owners' : owners'[k] \in Holder
          /\ Alone(owners')
      BY <1>7, <2>1, <2>2, <2>5, AddedIs
    <3>2. DOMAIN owners' = DOMAIN owners \cup {j} /\ owners'[j] = h
          /\ \A k \in DOMAIN owners : owners'[k] = owners[k]
      BY <1>7, <2>1 DEF Contents!With, Contents!Merged, Contents!Only
    <3>. QED
      BY <3>1, <3>2
  <2>7. /\ DOMAIN trees' = DOMAIN trees \cup {t} /\ trees'[t] = tree
        /\ \A x \in DOMAIN trees : trees'[x] = trees[x]
    BY <2>1, <2>2 DEF Contents!With, Contents!Merged, Contents!Only
  <2>8. /\ DOMAIN arrays' = DOMAIN arrays \cup {a} /\ arrays'[a] = <<>>
        /\ \A x \in DOMAIN arrays : arrays'[x] = arrays[x]
    BY <2>1, <2>2 DEF Contents!With, Contents!Merged, Contents!Only
  <2>9. Planted(owners, trees)'
    <3>1. DOMAIN trees' = {owners'[k].tree : k \in DOMAIN owners'}
      BY <2>5, <2>6, <2>7 DEF ContentsInv, Planted
    <3>2. \A x \in DOMAIN trees' : Rooted(trees'[x])
      BY <2>3, <2>7 DEF ContentsInv, Planted
    <3>. QED
      BY <3>1, <3>2 DEF Planted
  <2>10. Listed(owners, arrays)'
    <3>1. DOMAIN arrays' = {owners'[k].snapshots.array : k \in DOMAIN owners'}
      BY <2>5, <2>6, <2>8 DEF ContentsInv, Listed
    <3>2. \A k \in DOMAIN owners' : Distinct(owners'[k].snapshots, arrays'[owners'[k].snapshots.array])
      BY <2>5, <2>6, <2>8, OwnersAre, NoSnapshots
    <3>. QED
      BY <3>1, <3>2 DEF Listed
  <2>11. HeapOK(trees)' /\ HeapOK(arrays)' /\ HeapOK(slices)'
    <3>1. IsFiniteSet(DOMAIN trees') /\ IsFiniteSet(DOMAIN arrays')
      BY <2>7, <2>8, FS_AddElement DEF ContentsInv, HeapOK
    <3>. QED
      BY <1>1, <2>2, <2>7, <2>8, <3>1 DEF ContentsInv, HeapOK
  <2>12. DOMAIN slices' = Contents!SliceRefs(trees', calls')
    <3>1. ASSUME NEW x
          PROVE  x \in Contents!SliceRefs(trees', calls) <=> x \in Contents!SliceRefs(trees, calls)
      <4>1. (x # 0 /\ \E y \in DOMAIN trees' : \E p \in DOMAIN trees'[y] : x = trees'[y][p])
              <=> (x # 0 /\ \E y \in DOMAIN trees : \E p \in DOMAIN trees[y] : x = trees[y][p])
        BY <2>3, <2>7
      <4>. QED
        BY <4>1, RefsAre
    <3>. QED
      BY <1>1, <1>5, <3>1 DEF ContentsInv
  <2>. QED
    BY <1>1, <1>3, <1>4, <2>6, <2>9, <2>10, <2>11, <2>12 DEF ContentsInv
<1>. QED
  BY <1>6, <1>7

\* What a step puts in the place of one owner's tree.
LEMMA SetTreeInv ==
  ASSUME ContentsInv, NEW i \in DOMAIN owners, NEW t, NEW ns, Contents!SetTree(i, t, ns, calls),
         Rooted(t), HeapOK(ns),
         \A p \in DOMAIN t : t[p] \in {0} \cup DOMAIN ns \cup DOMAIN slices,
         \A s \in DOMAIN ns : s \notin DOMAIN slices /\ Whole(ns[s])
  PROVE  ContentsInv'
<1> DEFINE r == owners[i].tree
<1>1. /\ trees' = [trees EXCEPT ![r] = t] /\ calls' = calls /\ UNCHANGED <<part, owners, arrays>>
      /\ slices' = Contents!Keep(Contents!Merged(ns, slices), Contents!SliceRefs(trees', calls))
  BY DEF Contents!SetTree
<1>2. r \in DOMAIN trees
  BY OwnersAre
<1>. HIDE DEF r
<1>3. DOMAIN trees' = DOMAIN trees /\ \A x \in DOMAIN trees : trees'[x] = IF x = r THEN t ELSE trees[x]
  BY <1>1
<1>4. Planted(owners, trees)'
  <2>1. DOMAIN trees' = {owners'[k].tree : k \in DOMAIN owners'}
    BY <1>1, <1>3 DEF ContentsInv, Planted
  <2>2. \A x \in DOMAIN trees' : Rooted(trees'[x])
    BY <1>3 DEF ContentsInv, Planted
  <2>. QED
    BY <2>1, <2>2 DEF Planted
<1>5. \A x \in DOMAIN trees' : \A p \in DOMAIN trees'[x] :
        trees'[x][p] \in {0} \cup DOMAIN ns \cup DOMAIN slices
  BY <1>3, NodesAre
<1>6. \A x \in Contents!SliceRefs(trees', calls) : x \in DOMAIN ns \cup DOMAIN slices
  BY <1>5, RefsAre, HeldIs
<1>7. /\ DOMAIN slices' = Contents!SliceRefs(trees', calls')
      /\ \A s \in DOMAIN slices' : /\ s \in DOMAIN ns => slices'[s] = ns[s]
                                   /\ s \notin DOMAIN ns => slices'[s] = slices[s]
  <2>1. Contents!SliceRefs(trees', calls) \subseteq DOMAIN ns \cup DOMAIN slices
    BY <1>6
  <2>2. slices' = Contents!Keep(Contents!Merged(ns, slices), Contents!SliceRefs(trees', calls))
    BY <1>1
  <2>3. /\ DOMAIN slices' = Contents!SliceRefs(trees', calls)
        /\ \A s \in DOMAIN slices' : /\ s \in DOMAIN ns => slices'[s] = ns[s]
                                     /\ s \notin DOMAIN ns => slices'[s] = slices[s]
    BY <2>1, <2>2, KeptIs
  <2>. QED
    BY <1>1, <2>3
<1>8. HeapOK(trees)' /\ HeapOK(arrays)' /\ HeapOK(slices)'
  <2>1. HeapOK(Contents!Keep(Contents!Merged(ns, slices), Contents!SliceRefs(trees', calls)))
    BY <1>6, KeptHeap DEF ContentsInv
  <2>. QED
    BY <1>1, <1>3, <2>1 DEF ContentsInv, HeapOK
<1>9. \A s \in DOMAIN slices' : Whole(slices'[s])
  BY <1>1, <1>6, <1>7 DEF ContentsInv
<1>10. ASSUME NEW c \in Calls
       PROVE  Streaming(calls[c], slices)'
  <2>1. ASSUME calls[c].pc = "stream"
        PROVE  slices'[calls[c].slice] = slices[calls[c].slice]
    <3>1. calls[c].slice \in DOMAIN slices /\ calls[c].slice \in DOMAIN slices'
      BY <1>1, <1>7, <2>1, HeldIs, RefsAre
    <3>. QED
      BY <1>7, <3>1
  <2>2. Streaming(calls[c], slices)
    BY DEF ContentsInv
  <2>. QED
    BY <1>1, <2>1, <2>2 DEF Streaming
<1>11. Listed(owners, arrays)' /\ Alone(owners)'
  BY <1>1 DEF ContentsInv, Listed, Alone
<1>. QED
  BY <1>1, <1>4, <1>7, <1>8, <1>9, <1>10, <1>11 DEF ContentsInv

\* The tree of an owner, and what is in it.
LEMMA TreeIs ==
  ASSUME ContentsInv, NEW i \in DOMAIN owners
  PROVE  /\ Contents!Tree(i) = trees[owners[i].tree]
         /\ Rooted(trees[owners[i].tree])
         /\ \A p \in DOMAIN trees[owners[i].tree] :
              trees[owners[i].tree][p] \in {0} \cup DOMAIN slices
BY OwnersAre, NodesAre DEF Contents!Tree

\* Another file, in a directory that is there.
LEMMA PlantedIn ==
  ASSUME NEW t, Rooted(t), NEW p \in DOMAIN Above, Above[p] \in DOMAIN t, t[Above[p]] = 0,
         NEW n, p \in DOMAIN t => t[p] # 0 \/ n = 0
  PROVE  Rooted(Contents!With(t, p, n))
<1>1. /\ DOMAIN Contents!With(t, p, n) = DOMAIN t \cup {p} /\ Contents!With(t, p, n)[p] = n
      /\ \A q \in DOMAIN t \ {p} : Contents!With(t, p, n)[q] = t[q]
  BY DEF Contents!With, Contents!Merged, Contents!Only
<1>2. p = Above[p] => p \in DOMAIN t /\ n = 0
  OBVIOUS
<1>. HIDE DEF Contents!With
<1>3. ASSUME NEW q \in DOMAIN t \cup {p}
      PROVE  /\ Above[q] \in DOMAIN t \cup {p}
             /\ Contents!With(t, p, n)[Above[q]] = 0
  <2>1. Above[q] \in DOMAIN t /\ t[Above[q]] = 0
    BY DEF Rooted
  <2>. QED
    BY <1>1, <2>1
<1>. QED
  BY <1>1, <1>3 DEF Rooted

LEMMA PushFileInv ==
  ASSUME ContentsInv, NEW i \in Instances, NEW p \in DOMAIN Above, NEW v \in Texts,
         Contents!PushFile(i, p, v)
  PROVE  ContentsInv'
<1> DEFINE tree == trees[owners[i].tree]
           s == Contents!Fresh(slices)
           t == Contents!With(tree, p, s)
           ns == Contents!Only(s, <<v, v>>)
<1>1. i \in DOMAIN owners
  BY DEF Contents!PushFile
<1>2. Contents!Tree(i) = tree /\ Rooted(tree)
      /\ \A q \in DOMAIN tree : tree[q] \in {0} \cup DOMAIN slices
  BY <1>1, TreeIs
<1>3. /\ Above[p] \in DOMAIN tree /\ tree[Above[p]] = 0
      /\ p \in DOMAIN tree => tree[p] # 0
      /\ Contents!SetTree(i, t, ns, calls)
  BY <1>2 DEF Contents!PushFile, Contents!InDirectory, Contents!Directory, Contents!NewSlice
<1>4. s \in Nat \ {0} /\ s \notin DOMAIN slices
  BY FreshIsNew DEF ContentsInv
<1>. HIDE DEF tree, s
<1>5. Rooted(t)
  BY <1>2, <1>3, PlantedIn
<1>6. DOMAIN t = DOMAIN tree \cup {p} /\ \A q \in DOMAIN t : t[q] = IF q = p THEN s ELSE tree[q]
  BY DEF Contents!With, Contents!Merged, Contents!Only
<1>7. HeapOK(ns) /\ DOMAIN ns = {s} /\ ns[s] = <<v, v>>
  BY <1>4, OnlyHeap, OnlyIs
<1>8. Whole(<<v, v>>)
  BY DEF Whole
<1>. HIDE DEF t, ns
<1>. QED
  BY <1>1, <1>2, <1>3, <1>4, <1>5, <1>6, <1>7, <1>8, SetTreeInv

LEMMA MakeDirectoryInv ==
  ASSUME ContentsInv, NEW i \in Instances, NEW p \in DOMAIN Above, Contents!MakeDirectory(i, p)
  PROVE  ContentsInv'
<1> DEFINE tree == trees[owners[i].tree]
           t == Contents!With(tree, p, 0)
<1>1. i \in DOMAIN owners
  BY DEF Contents!MakeDirectory
<1>2. Contents!Tree(i) = tree /\ Rooted(tree)
      /\ \A q \in DOMAIN tree : tree[q] \in {0} \cup DOMAIN slices
  BY <1>1, TreeIs
<1>3. /\ Above[p] \in DOMAIN tree /\ tree[Above[p]] = 0
      /\ Contents!SetTree(i, t, <<>>, calls)
  BY <1>2 DEF Contents!MakeDirectory, Contents!InDirectory, Contents!Directory
<1>. HIDE DEF tree
<1>5. Rooted(t)
  BY <1>2, <1>3, PlantedIn
<1>6. DOMAIN t = DOMAIN tree \cup {p} /\ \A q \in DOMAIN t : t[q] = IF q = p THEN 0 ELSE tree[q]
  BY DEF Contents!With, Contents!Merged, Contents!Only
<1>. HIDE DEF t
<1>7. \A q \in DOMAIN t : t[q] \in {0} \cup DOMAIN <<>> \cup DOMAIN slices
  BY <1>2, <1>6
<1>8. (\A s \in DOMAIN <<>> : FALSE) /\ HeapOK(<<>>)
  BY EmptyHeap
<1>. QED
  BY <1>1, <1>3, <1>5, <1>7, <1>8, SetTreeInv

LEMMA DeleteFileInv ==
  ASSUME ContentsInv, NEW i \in Instances, NEW p \in DOMAIN Above, Contents!DeleteFile(i, p)
  PROVE  ContentsInv'
<1> DEFINE tree == trees[owners[i].tree]
           t == Contents!Without(tree, p)
<1>1. i \in DOMAIN owners
  BY DEF Contents!DeleteFile
<1>2. Contents!Tree(i) = tree /\ Rooted(tree)
      /\ \A q \in DOMAIN tree : tree[q] \in {0} \cup DOMAIN slices
  BY <1>1, TreeIs
<1>3. /\ \A q \in DOMAIN tree \ {p} : Above[q] # p
      /\ Contents!SetTree(i, t, <<>>, calls)
  BY <1>2 DEF Contents!DeleteFile
<1>. HIDE DEF tree
<1>6. DOMAIN t = DOMAIN tree \ {p} /\ \A q \in DOMAIN t : t[q] = tree[q]
  BY DEF Contents!Without
<1>. HIDE DEF t
<1>5. Rooted(t)
  BY <1>2, <1>3, <1>6 DEF Rooted
<1>7. \A q \in DOMAIN t : t[q] \in {0} \cup DOMAIN <<>> \cup DOMAIN slices
  BY <1>2, <1>6
<1>8. (\A s \in DOMAIN <<>> : FALSE) /\ HeapOK(<<>>)
  BY EmptyHeap
<1>. QED
  BY <1>1, <1>3, <1>5, <1>7, <1>8, SetTreeInv

\* A function on the first numbers is a sequence.
LEMMA FunctionIsSeq ==
  ASSUME NEW n \in Nat, NEW S, NEW f \in [1 .. n -> S]
  PROVE  f \in Seq(S) /\ Len(f) = n
OBVIOUS

\* The names in an owner's list are those in the first cells of its array.
LEMMA ListIs ==
  ASSUME ContentsInv, NEW i \in DOMAIN owners,
         NEW cells, cells = arrays[owners[i].snapshots.array],
         NEW len, len = owners[i].snapshots.len
  PROVE  /\ cells \in Seq(Snapshots) /\ Len(cells) \in Nat /\ DOMAIN cells = 1 .. Len(cells)
         /\ len \in Nat /\ len <= Len(cells)
         /\ \A k, m \in 1 .. len : cells[k] = cells[m] => k = m
         /\ Contents!List(i) \in Seq(Snapshots) /\ Len(Contents!List(i)) = len
         /\ DOMAIN Contents!List(i) = 1 .. len
         /\ \A k \in 1 .. len : Contents!List(i)[k] = cells[k]
<1>1. /\ cells \in Seq(Snapshots) /\ len <= Len(cells)
      /\ \A k, m \in 1 .. len : cells[k] = cells[m] => k = m
  BY OwnersAre DEF Distinct
<1>2. len \in Nat
  BY OwnersAre DEF Holder
<1>3. Len(cells) \in Nat /\ DOMAIN cells = 1 .. Len(cells)
  BY <1>1, LenProperties
<1>4. \A k \in 1 .. len : cells[k] \in Snapshots
  BY <1>1, <1>2, <1>3, ElementOfSeq
<1>5. Contents!List(i) = SubSeq(cells, 1, len)
  BY DEF Contents!List
<1>6. /\ SubSeq(cells, 1, len) \in Seq(Snapshots)
      /\ Len(SubSeq(cells, 1, len)) = IF 1 <= len THEN len - 1 + 1 ELSE 0
      /\ \A k \in 1 .. len - 1 + 1 : SubSeq(cells, 1, len)[k] = cells[1 + k - 1]
  BY <1>2, <1>4, SubSeqProperties
<1>7. Len(SubSeq(cells, 1, len)) = len /\ len - 1 + 1 = len
  BY <1>2, <1>6
<1>8. DOMAIN SubSeq(cells, 1, len) = 1 .. len
  BY <1>6, <1>7, LenProperties
<1>9. \A k \in 1 .. len : SubSeq(cells, 1, len)[k] = cells[k]
  BY <1>2, <1>6, <1>7
<1>. QED
  BY <1>1, <1>2, <1>3, <1>5, <1>6, <1>7, <1>8, <1>9

\* What a step puts in the place of one owner's list: in its own array, or in one
\* that no other owner has.
LEMMA SetListInv ==
  ASSUME ContentsInv, NEW i \in DOMAIN owners, NEW a \in Nat \ {0}, NEW cells, NEW len \in Nat,
         Contents!SetList(i, a, cells, len),
         a = owners[i].snapshots.array \/ a \notin DOMAIN arrays,
         Distinct([array |-> a, len |-> len], cells)
  PROVE  ContentsInv'
<1> DEFINE l == [array |-> a, len |-> len]
           h == [owners[i] EXCEPT !.snapshots = l]
           os == [owners EXCEPT ![i].snapshots = l]
           na == Contents!Only(a, cells)
<1>1. Contents!SetAll(os, <<>>, na, <<>>)
  BY DEF Contents!SetList, Contents!SetOwners
<1>2. owners[i] \in Holder
  BY OwnersAre
<1>3. h \in Holder /\ h.tree = owners[i].tree /\ h.snapshots = l
  BY <1>2 DEF Holder
<1>4. os = [owners EXCEPT ![i] = h]
  OBVIOUS
<1>5. HeapOK(na) /\ DOMAIN na = {a} /\ na[a] = cells
  BY OnlyHeap, OnlyIs
<1>6. l.array = a
  OBVIOUS
<1>7. Distinct(l, cells)
  OBVIOUS
<1>. HIDE DEF h, l
<1>8. DOMAIN os = DOMAIN owners /\ \A j \in DOMAIN owners : os[j] = IF j = i THEN h ELSE owners[j]
  BY <1>4
<1>. HIDE DEF os, na
<1>9. DOMAIN os \subseteq Instances /\ \A j \in DOMAIN os : os[j] \in Holder
  BY <1>3, <1>8, OwnersAre
<1>10. \A j \in DOMAIN owners : j # i => owners[j].tree # owners[i].tree
                                         /\ owners[j].snapshots.array # a
  BY OwnersAre DEF ContentsInv, Alone
<1>11. Alone(os)
  BY <1>3, <1>6, <1>8, <1>10 DEF ContentsInv, Alone
<1>12. \A j \in DOMAIN os : os[j].tree \in DOMAIN <<>> \cup DOMAIN trees
  BY <1>3, <1>8, OwnersAre
<1>13. ASSUME NEW j \in DOMAIN os
       PROVE  /\ os[j].snapshots.array \in DOMAIN na \cup DOMAIN arrays
              /\ Distinct(os[j].snapshots, Contents!Merged(na, arrays)[os[j].snapshots.array])
  <2>1. CASE j = i
    <3>1. os[j].snapshots = l
      BY <1>3, <1>8, <2>1
    <3>2. Contents!Merged(na, arrays)[a] = cells
      BY <1>5 DEF Contents!Merged
    <3>. QED
      BY <1>5, <1>6, <1>7, <3>1, <3>2
  <2>2. CASE j # i
    <3>1. j \in DOMAIN owners /\ os[j] = owners[j] /\ owners[j].snapshots.array \notin DOMAIN na
      BY <1>5, <1>8, <1>10, <2>2
    <3>. QED
      BY <3>1, ListStays
  <2>. QED
    BY <2>1, <2>2
<1>14. (\A t \in DOMAIN <<>> : FALSE) /\ HeapOK(<<>>)
  BY EmptyHeap
<1>. QED
  BY <1>1, <1>5, <1>9, <1>11, <1>12, <1>13, <1>14, SetAllInv

\* A name that the list does not have is none of its cells'.
LEMMA HasNot ==
  ASSUME ContentsInv, NEW i \in DOMAIN owners, NEW s, ~Contents!Has(i, s),
         NEW k \in 1 .. owners[i].snapshots.len
  PROVE  arrays[owners[i].snapshots.array][k] # s
<1>1. k \in DOMAIN Contents!List(i)
      /\ Contents!List(i)[k] = arrays[owners[i].snapshots.array][k]
  BY ListIs
<1>. QED
  BY <1>1 DEF Contents!Has

LEMMA CreateSnapshotInv ==
  ASSUME ContentsInv, NEW i \in Instances, NEW s \in Snapshots, Contents!CreateSnapshot(i, s)
  PROVE  ContentsInv'
<1> DEFINE l == owners[i].snapshots
           a == l.array
           len == l.len
           cells == arrays[a]
<1>1. i \in DOMAIN owners /\ ~Contents!Has(i, s) /\ Contents!Appended(i, s)
  BY DEF Contents!CreateSnapshot
<1>2. /\ cells \in Seq(Snapshots) /\ Len(cells) \in Nat /\ DOMAIN cells = 1 .. Len(cells)
      /\ len \in Nat /\ len <= Len(cells)
      /\ \A k, m \in 1 .. len : cells[k] = cells[m] => k = m
  BY <1>1, ListIs
<1>3. \A k \in 1 .. len : cells[k] # s
  BY <1>1, HasNot
<1>4. a \in Nat \ {0}
  BY <1>1, OwnersAre DEF ContentsInv, HeapOK
<1>5. \A k \in 1 .. len + 1 : k \in 1 .. len \/ k = len + 1
  BY <1>2
<1>6. CASE len < Len(cells)
  <2> DEFINE new == [cells EXCEPT ![len + 1] = s]
  <2>1. Contents!SetList(i, a, new, len + 1)
    BY <1>1, <1>6 DEF Contents!Appended
  <2>. HIDE DEF a, cells, len
  <2>2. len + 1 \in 1 .. Len(cells)
    BY <1>2, <1>6
  <2>3. new \in Seq(Snapshots) /\ Len(new) = Len(cells)
        /\ \A k \in 1 .. Len(cells) : new[k] = IF k = len + 1 THEN s ELSE cells[k]
    BY <1>2, <2>2, ExceptSeq
  <2>. HIDE DEF new
  <2>4. \A k \in 1 .. len : k \in 1 .. Len(cells) /\ k # len + 1 /\ new[k] = cells[k]
    BY <1>2, <1>6, <2>3
  <2>5. new[len + 1] = s
    BY <2>2, <2>3
  <2>6. \A k, m \in 1 .. len + 1 : new[k] = new[m] => k = m
    BY <1>2, <1>3, <1>5, <2>4, <2>5
  <2>7. Distinct([array |-> a, len |-> len + 1], new)
    BY <1>2, <1>6, <2>3, <2>6 DEF Distinct
  <2>8. a = owners[i].snapshots.array /\ len + 1 \in Nat
    BY <1>2 DEF a
  <2>. QED
    BY <1>1, <1>4, <2>1, <2>7, <2>8, SetListInv
<1>7. CASE ~(len < Len(cells))
  <2> DEFINE new == Append(cells, s)
             b == Contents!Fresh(arrays)
  <2>1. Contents!SetList(i, b, new, len + 1)
    BY <1>1, <1>7 DEF Contents!Appended
  <2>2. b \in Nat \ {0} /\ b \notin DOMAIN arrays
    BY FreshIsNew DEF ContentsInv
  <2>. HIDE DEF a, b, cells, len
  <2>3. len = Len(cells)
    <3>1. \A m, n \in Nat : m <= n /\ ~(m < n) => m = n
      OBVIOUS
    <3>. QED
      BY <1>2, <1>7, <3>1
  <2>4. /\ new \in Seq(Snapshots) /\ Len(new) = len + 1 /\ new[len + 1] = s
        /\ \A k \in 1 .. len : new[k] = cells[k]
    BY <1>2, <2>3, AppendProperties
  <2>. HIDE DEF new
  <2>5. \A k, m \in 1 .. len + 1 : new[k] = new[m] => k = m
    BY <1>2, <1>3, <1>5, <2>4
  <2>6. Distinct([array |-> b, len |-> len + 1], new) /\ len + 1 \in Nat
    BY <1>2, <2>4, <2>5 DEF Distinct
  <2>. QED
    BY <1>1, <2>1, <2>2, <2>6, SetListInv
<1>. QED
  BY <1>6, <1>7

\* The cell that the name is in.
LEMMA CellOf ==
  ASSUME ContentsInv, NEW i, NEW s, Contents!Has(i, s),
         NEW k, k = CHOOSE x \in DOMAIN Contents!List(i) : Contents!List(i)[x] = s
  PROVE  /\ i \in DOMAIN owners /\ k \in 1 .. owners[i].snapshots.len
         /\ arrays[owners[i].snapshots.array][k] = s
<1>1. i \in DOMAIN owners /\ k \in DOMAIN Contents!List(i) /\ Contents!List(i)[k] = s
  BY DEF Contents!Has
<1>. QED
  BY <1>1, ListIs

LEMMA RenameSnapshotInv ==
  ASSUME ContentsInv, NEW i \in Instances, NEW s \in Snapshots, NEW t \in Snapshots,
         Contents!RenameSnapshot(i, s, t)
  PROVE  ContentsInv'
<1> DEFINE l == owners[i].snapshots
           a == l.array
           len == l.len
           cells == arrays[a]
           k == CHOOSE x \in DOMAIN Contents!List(i) : Contents!List(i)[x] = s
           new == [cells EXCEPT ![k] = t]
<1>1. Contents!Has(i, s) /\ ~Contents!Has(i, t) /\ Contents!SetList(i, a, new, len)
  BY DEF Contents!RenameSnapshot
<1>2. i \in DOMAIN owners /\ k \in 1 .. len
  BY <1>1, CellOf
<1>. HIDE DEF k
<1>3. /\ cells \in Seq(Snapshots) /\ Len(cells) \in Nat /\ DOMAIN cells = 1 .. Len(cells)
      /\ len \in Nat /\ len <= Len(cells)
      /\ \A x, y \in 1 .. len : cells[x] = cells[y] => x = y
  BY <1>2, ListIs
<1>4. \A x \in 1 .. len : cells[x] # t
  BY <1>1, <1>2, HasNot
<1>5. a \in Nat \ {0}
  BY <1>2, OwnersAre DEF ContentsInv, HeapOK
<1>6. a = owners[i].snapshots.array
  OBVIOUS
<1>. HIDE DEF a, cells, len
<1>7. k \in 1 .. Len(cells)
  BY <1>2, <1>3
<1>8. new \in Seq(Snapshots) /\ Len(new) = Len(cells)
      /\ \A x \in 1 .. Len(cells) : new[x] = IF x = k THEN t ELSE cells[x]
  BY <1>3, <1>7, ExceptSeq
<1>. HIDE DEF new
<1>9. \A x \in 1 .. len : new[x] = IF x = k THEN t ELSE cells[x]
  BY <1>3, <1>8
<1>10. \A x, y \in 1 .. len : new[x] = new[y] => x = y
  BY <1>3, <1>4, <1>9
<1>11. Distinct([array |-> a, len |-> len], new)
  BY <1>3, <1>8, <1>10 DEF Distinct
<1>. QED
  BY <1>1, <1>2, <1>3, <1>5, <1>6, <1>11, SetListInv

LEMMA DeleteSnapshotInv ==
  ASSUME ContentsInv, NEW i \in Instances, NEW s \in Snapshots, Contents!DeleteSnapshot(i, s)
  PROVE  ContentsInv'
<1> DEFINE l == owners[i].snapshots
           a == l.array
           len == l.len
           cells == arrays[a]
           k == CHOOSE x \in DOMAIN Contents!List(i) : Contents!List(i)[x] = s
           new == [x \in DOMAIN cells |-> IF x \in k .. (len - 1) THEN cells[x + 1] ELSE cells[x]]
<1>1. Contents!Has(i, s) /\ Contents!SetList(i, a, new, len - 1)
  BY DEF Contents!DeleteSnapshot, Contents!MovedUp
<1>2. i \in DOMAIN owners /\ k \in 1 .. len
  BY <1>1, CellOf
<1>. HIDE DEF k
<1>3. /\ cells \in Seq(Snapshots) /\ Len(cells) \in Nat /\ DOMAIN cells = 1 .. Len(cells)
      /\ len \in Nat /\ len <= Len(cells)
      /\ \A x, y \in 1 .. len : cells[x] = cells[y] => x = y
  BY <1>2, ListIs
<1>4. a \in Nat \ {0}
  BY <1>2, OwnersAre DEF ContentsInv, HeapOK
<1>5. a = owners[i].snapshots.array
  OBVIOUS
<1>. HIDE DEF a, cells, len
<1>6. k \in Nat /\ 1 <= k /\ k <= len /\ len - 1 \in Nat /\ len - 1 <= Len(cells)
  BY <1>2, <1>3
<1>7. \A x \in 1 .. Len(cells) : cells[x] \in Snapshots
  BY <1>3, ElementOfSeq
<1>8. \A x \in 1 .. Len(cells) : x \in k .. (len - 1) => x + 1 \in 1 .. Len(cells)
  BY <1>3, <1>6
<1>9. new \in [1 .. Len(cells) -> Snapshots]
  BY <1>3, <1>7, <1>8
<1>10. new \in Seq(Snapshots) /\ Len(new) = Len(cells)
  BY <1>3, <1>9, FunctionIsSeq
<1>11. \A x \in 1 .. (len - 1) : new[x] = IF k <= x THEN cells[x + 1] ELSE cells[x]
  BY <1>3, <1>6
<1>. HIDE DEF new
<1>12. ASSUME NEW x \in 1 .. (len - 1), NEW y \in 1 .. (len - 1), new[x] = new[y]
       PROVE  x = y
  <2> DEFINE u == IF k <= x THEN x + 1 ELSE x
             w == IF k <= y THEN y + 1 ELSE y
  <2>1. u \in 1 .. len /\ w \in 1 .. len
    BY <1>3, <1>6
  <2>2. new[x] = cells[u] /\ new[y] = cells[w]
    BY <1>11
  <2>3. u = w
    BY <1>3, <1>12, <2>1, <2>2
  <2>. QED
    BY <1>6, <2>3
<1>13. Distinct([array |-> a, len |-> len - 1], new)
  BY <1>6, <1>10, <1>12 DEF Distinct
<1>. QED
  BY <1>1, <1>2, <1>4, <1>5, <1>6, <1>13, SetListInv

\* There is a number for each in S, beside those that are taken.
Enough(n, S, T) ==
  /\ n \in Nat
  /\ \E f \in [S -> (1 .. n) \ T] : \A x, y \in S : f[x] = f[y] => x = y

LEMMA NumbersFor ==
  ASSUME NEW S, IsFiniteSet(S), NEW T, IsFiniteSet(T),
         NEW n, n = Cardinality(T) + Cardinality(S)
  PROVE  Enough(n, S, T)
<1> DEFINE U == (1 .. n) \ T
           s == Cardinality(S)
           u == Cardinality(U)
<1>1. s \in Nat /\ Cardinality(T) \in Nat /\ n \in Nat
  BY FS_CardinalityType
<1>2. IsFiniteSet(1 .. n) /\ Cardinality(1 .. n) = n
  BY <1>1, FS_Interval
<1>3. IsFiniteSet(U) /\ u \in Nat /\ s <= u
  <2>1. IsFiniteSet(U) /\ u = Cardinality(1 .. n) - Cardinality((1 .. n) \cap T)
    BY <1>2, FS_Difference
  <2>2. Cardinality((1 .. n) \cap T) <= Cardinality(T) /\ Cardinality((1 .. n) \cap T) \in Nat
    <3>1. (1 .. n) \cap T \subseteq T
      OBVIOUS
    <3>2. IsFiniteSet((1 .. n) \cap T) /\ Cardinality((1 .. n) \cap T) <= Cardinality(T)
      BY <3>1, FS_Subset
    <3>. QED
      BY <3>2, FS_CardinalityType
  <2>3. u \in Nat
    BY <2>1, FS_CardinalityType
  <2>. HIDE DEF s, u, U
  <2>4. n = Cardinality(T) + s
    BY DEF s
  <2>. QED
    BY <1>1, <1>2, <2>1, <2>2, <2>3, <2>4
<1>. HIDE DEF U
<1>4. ExistsInjection(S, 1 .. s)
  <2>1. ExistsBijection(1 .. s, S)
    BY FS_CardinalityType
  <2>. QED
    BY <2>1, Fun_ExistsBijEquiv
<1>5. ExistsInjection(1 .. s, 1 .. u)
  BY <1>1, <1>3, Fun_NatInjLeq
<1>6. ExistsInjection(1 .. u, U)
  <2>1. ExistsBijection(1 .. u, U)
    BY <1>3, FS_CardinalityType
  <2>. QED
    BY <2>1, Fun_ExistsBijEquiv
<1>7. ExistsInjection(S, U)
  <2>1. ExistsInjection(S, 1 .. u)
    BY <1>4, <1>5, Fun_ExistsInjTransitive
  <2>. QED
    BY <1>6, <2>1, Fun_ExistsInjTransitive
<1>8. \E f \in [S -> U] : \A x, y \in S : f[x] = f[y] => x = y
  BY <1>7 DEF ExistsInjection, Injection, IsInjective
<1>. QED
  BY <1>1, <1>8 DEF U, Enough

\* Of a tree, each file gets a slice of its own that is not there yet.
LEMMA CopiesAre ==
  ASSUME ContentsInv, NEW t, Rooted(t), NEW files, files = {p \in DOMAIN t : t[p] # 0}
  PROVE  \E n \in Nat : /\ Contents!Copies(t) \in [files -> (1 .. n) \ DOMAIN slices]
                        /\ \A p, q \in files : Contents!Copies(t)[p] = Contents!Copies(t)[q] => p = q
<1> DEFINE n == Cardinality(DOMAIN slices) + Cardinality(files)
<1>1. IsFiniteSet(files)
  <2>1. IsFiniteSet(DOMAIN Above)
    <3>1. DOMAIN Above = ({"/"} \cup {"/root"}) \cup {"/root/.profile"}
      BY DEF Above
    <3>2. IsFiniteSet({"/"})
      BY FS_Singleton
    <3>3. IsFiniteSet({"/"} \cup {"/root"})
      BY <3>2, FS_AddElement
    <3>. QED
      BY <3>1, <3>3, FS_AddElement
  <2>2. files \subseteq DOMAIN Above
    BY DEF Rooted
  <2>. QED
    BY <2>1, <2>2, FS_Subset
<1>2. IsFiniteSet(DOMAIN slices)
  BY DEF ContentsInv, HeapOK
<1>. HIDE DEF n
<1>3. Enough(n, files, DOMAIN slices)
  <2>1. n = Cardinality(DOMAIN slices) + Cardinality(files)
    BY DEF n
  <2>. QED
    BY <1>1, <1>2, <2>1, NumbersFor
<1>4. Contents!Copies(t) = CHOOSE f \in [files -> (1 .. n) \ DOMAIN slices] :
                             \A p, q \in files : f[p] = f[q] => p = q
  BY CountedAlike DEF Contents!Copies, Contents!Directory, n
<1>5. /\ Contents!Copies(t) \in [files -> (1 .. n) \ DOMAIN slices]
      /\ \A p, q \in files : Contents!Copies(t)[p] = Contents!Copies(t)[q] => p = q
  BY <1>3, <1>4 DEF Enough
<1>. QED
  BY <1>3, <1>5 DEF Enough

\* The clone's files and snapshots are its own from the start.
LEMMA CloneInv ==
  ASSUME ContentsInv, NEW i \in Instances, NEW j \in Instances, Contents!CloneInstance(i, j)
  PROVE  ContentsInv'
<1> DEFINE t == Contents!Fresh(trees)
           a == Contents!Fresh(arrays)
           l == owners[i].snapshots
           h == [owners[i] EXCEPT !.tree = t, !.backups = <<>>, !.snapshots.array = a]
           tree == trees[owners[i].tree]
           files == {p \in DOMAIN tree : tree[p] # 0}
           copies == Contents!Copies(tree)
           copied == Contents!Merged(copies, tree)
           os == Contents!With(owners, j, h)
           nt == Contents!Only(t, copied)
           na == Contents!Only(a, Contents!List(i))
           new == {copies[p] : p \in DOMAIN copies}
           ns == [n \in new |-> slices[tree[CHOOSE p \in DOMAIN copies : copies[p] = n]]]
<1>1. i \in DOMAIN owners /\ j \notin DOMAIN owners
  BY DEF Contents!CloneInstance
<1>2. /\ t \in Nat \ {0} /\ t \notin DOMAIN trees
      /\ a \in Nat \ {0} /\ a \notin DOMAIN arrays
  BY FreshIsNew DEF ContentsInv
<1>3. Contents!SetAll(os, nt, na, ns)
  BY <1>2 DEF Contents!CloneInstance, Contents!ClonedArray, Contents!NewTree, Contents!NewArray
<1>. HIDE DEF t, a
<1>4. owners[i] \in Holder /\ Rooted(tree) /\ \A p \in DOMAIN tree : tree[p] \in {0} \cup DOMAIN slices
  BY <1>1, OwnersAre, TreeIs
<1>5. PICK n \in Nat : /\ copies \in [files -> (1 .. n) \ DOMAIN slices]
                       /\ \A p, q \in files : copies[p] = copies[q] => p = q
  BY <1>4, CopiesAre
<1>. HIDE DEF copies
<1>6. /\ h \in Holder /\ h.tree = t /\ h.snapshots = [array |-> a, len |-> l.len]
      /\ l.len \in Nat
  <2>1. <<>> \in Blobs
    <3>1. <<>> \in [{} -> Texts]
      OBVIOUS
    <3>2. {} \in SUBSET Backups
      OBVIOUS
    <3>. QED
      BY <3>1, <3>2 DEF Blobs
  <2>2. /\ l.len \in Nat /\ l = [array |-> l.array, len |-> l.len]
        /\ owners[i] = [value |-> owners[i].value, tree |-> owners[i].tree,
                        snapshots |-> l, backups |-> owners[i].backups]
        /\ owners[i].value \in Texts
    BY <1>4 DEF Holder
  <2>3. h = [value |-> owners[i].value, tree |-> t,
             snapshots |-> [array |-> a, len |-> l.len], backups |-> <<>>]
    <3>1. h = [owners[i] EXCEPT !.tree = t, !.backups = <<>>, !.snapshots = [l EXCEPT !.array = a]]
      OBVIOUS
    <3>2. [l EXCEPT !.array = a] = [array |-> a, len |-> l.len]
      BY <2>2
    <3>. HIDE DEF h, l
    <3>. QED
      BY <2>2, <3>1, <3>2
  <2>. HIDE DEF h, l
  <2>. QED
    BY <1>2, <2>1, <2>2, <2>3 DEF Holder
<1>7. DOMAIN copied = DOMAIN tree
      /\ \A p \in DOMAIN tree : copied[p] = IF p \in files THEN copies[p] ELSE tree[p]
  BY <1>5 DEF Contents!Merged
<1>. HIDE DEF copied
<1>8. DOMAIN ns = new /\ \A p \in files : copies[p] \in new
  BY <1>5
<1>9. \A s \in new : s \in 1 .. n /\ s \notin DOMAIN slices
  BY <1>5
<1>10. ASSUME NEW s \in new
       PROVE  Whole(ns[s])
  <2>1. \E p \in DOMAIN copies : copies[p] = s
    OBVIOUS
  <2> DEFINE p == CHOOSE q \in DOMAIN copies : copies[q] = s
  <2>2. p \in files
    BY <1>5, <2>1
  <2>3. ns[s] = slices[tree[p]]
    OBVIOUS
  <2>. HIDE DEF p, ns
  <2>4. tree[p] \in DOMAIN slices
    BY <1>4, <2>2
  <2>. QED
    BY <2>3, <2>4 DEF ContentsInv
<1>11. HeapOK(ns)
  <2>1. new \subseteq 1 .. n /\ IsFiniteSet(1 .. n)
    BY <1>9, FS_Interval
  <2>2. IsFiniteSet(new)
    BY <2>1, FS_Subset
  <2>. HIDE DEF ns
  <2>. QED
    BY <1>8, <2>1, <2>2 DEF HeapOK
<1>. HIDE DEF ns
<1>12. Rooted(copied)
  <2>1. \A p \in DOMAIN tree : Above[p] \in DOMAIN tree /\ tree[Above[p]] = 0
    BY <1>4 DEF Rooted
  <2>2. \A p \in DOMAIN tree : copied[Above[p]] = 0
    BY <1>7, <2>1
  <2>. QED
    BY <1>4, <1>7, <2>1, <2>2 DEF Rooted
<1>13. \A p \in DOMAIN copied : copied[p] \in {0} \cup DOMAIN ns \cup DOMAIN slices
  BY <1>4, <1>7, <1>8
<1>14. HeapOK(nt) /\ HeapOK(na) /\ DOMAIN nt = {t} /\ DOMAIN na = {a}
       /\ nt[t] = copied /\ na[a] = Contents!List(i)
  BY <1>2, OnlyHeap, OnlyIs
<1>15. Distinct(h.snapshots, Contents!List(i))
  <2>1. /\ Contents!List(i) \in Seq(Snapshots) /\ Len(Contents!List(i)) = l.len
        /\ \A k \in 1 .. l.len : Contents!List(i)[k] = arrays[l.array][k]
        /\ \A k, m \in 1 .. l.len : arrays[l.array][k] = arrays[l.array][m] => k = m
    BY <1>1, ListIs
  <2>. HIDE DEF h
  <2>. QED
    BY <1>6, <2>1 DEF Distinct
<1>. HIDE DEF h, nt, na
<1>16. /\ DOMAIN os \subseteq Instances /\ \A k \in DOMAIN os : os[k] \in Holder
       /\ Alone(os)
       /\ \A k \in DOMAIN os : \/ k = j /\ os[k] = h
                               \/ k \in DOMAIN owners /\ os[k] = owners[k]
  BY <1>1, <1>2, <1>6, AddedIs
<1>. HIDE DEF os
<1>17. \A k \in DOMAIN os : os[k].tree \in DOMAIN nt \cup DOMAIN trees
  BY <1>6, <1>14, <1>16, OwnersAre
<1>18. ASSUME NEW k \in DOMAIN os
       PROVE  /\ os[k].snapshots.array \in DOMAIN na \cup DOMAIN arrays
              /\ Distinct(os[k].snapshots, Contents!Merged(na, arrays)[os[k].snapshots.array])
  <2>1. CASE os[k] = h
    <3>1. Contents!Merged(na, arrays)[a] = Contents!List(i)
      BY <1>14 DEF Contents!Merged
    <3>2. h.snapshots.array = a
      BY <1>6
    <3>. QED
      BY <1>14, <1>15, <2>1, <3>1, <3>2
  <2>2. CASE k \in DOMAIN owners /\ os[k] = owners[k]
    <3>1. owners[k].snapshots.array \notin DOMAIN na
      BY <1>2, <1>14, <2>2, OwnersAre
    <3>. QED
      BY <2>2, <3>1, ListStays
  <2>. QED
    BY <1>16, <2>1, <2>2
<1>19. \A x \in DOMAIN nt : /\ Rooted(nt[x])
                            /\ \A p \in DOMAIN nt[x] : nt[x][p] \in {0} \cup DOMAIN ns \cup DOMAIN slices
  BY <1>12, <1>13, <1>14
<1>20. \A s \in DOMAIN ns : s \notin DOMAIN slices /\ Whole(ns[s])
  BY <1>8, <1>9, <1>10
<1>. QED
  BY <1>3, <1>11, <1>14, <1>16, <1>17, <1>18, <1>19, <1>20, SetAllInv

\* Every step of the contents' side.
LEMMA ContentsGoOn == ContentsInv /\ Contents!Next => ContentsInv'
<1> SUFFICES ASSUME ContentsInv, Contents!Next
             PROVE  ContentsInv'
  OBVIOUS
<1>1. CASE Contents!InstanceStep
  BY <1>1, CreateOwnerInv, UpdateVolumeInv, DeleteOwnerInv, RenameOwnerInv, CloneInv
     DEF Contents!InstanceStep, Contents!RebuildInstance
<1>2. CASE Contents!VolumeStep
  BY <1>2, CreateOwnerInv, UpdateVolumeInv, DeleteOwnerInv, RenameOwnerInv DEF Contents!VolumeStep
<1>3. CASE Contents!FileStep
  BY <1>3, PushFileInv, MakeDirectoryInv, DeleteFileInv, PullFileInv, StreamBlockInv, EndPullInv
     DEF Contents!FileStep, Contents!Paths
<1>4. CASE Contents!SnapshotStep
  BY <1>4, CreateSnapshotInv, DeleteSnapshotInv, RenameSnapshotInv DEF Contents!SnapshotStep
<1>5. CASE Contents!BackupStep
  BY <1>5, CreateBackupInv, DeleteBackupInv, RestoreInv, ImportInv DEF Contents!BackupStep
<1>. QED
  BY <1>1, <1>2, <1>3, <1>4, <1>5 DEF Contents!Next

\* The behaviours of FakeSpec: of the contents, only the steps of their own side.
LEMMA ContentsKept ==
  ContentsInv /\ [FakeNext]_<<side, vars, inside, versions>> => ContentsInv'
<1> SUFFICES ASSUME ContentsInv, [FakeNext]_<<side, vars, inside, versions>>
             PROVE  ContentsInv'
  OBVIOUS
<1>1. CASE Contents!Next
  BY <1>1, ContentsGoOn
<1>2. CASE UNCHANGED inside
  <2>1. UNCHANGED <<part, owners, trees, slices, arrays, calls>>
    BY <1>2 DEF inside
  <2>2. calls' \in [Calls -> Call] /\ \A c \in Calls : Streaming(calls'[c], slices')
    BY <2>1 DEF ContentsInv, Streaming
  <2>3. DOMAIN slices' = Contents!SliceRefs(trees, calls')
    BY <2>1 DEF ContentsInv
  <2>4. \A s \in DOMAIN slices' : s \in DOMAIN slices /\ slices'[s] = slices[s]
    BY <2>1
  <2>. QED
    BY <2>1, <2>2, <2>3, <2>4, CallsInv
<1>. QED
  BY <1>1, <1>2 DEF FakeNext

\* A download that has sent two blocks has sent those of one slice.
LEMMA StreamedIsWhole == ContentsInv => PullsWhole
<1> SUFFICES ASSUME ContentsInv, NEW c \in Calls,
                    NEW k \in DOMAIN calls[c].sent, NEW l \in DOMAIN calls[c].sent
             PROVE  calls[c].sent[k] = calls[c].sent[l]
  BY DEF PullsWhole, Contents!PullsWhole
<1>1. calls[c].sent \in Seq(Texts) /\ Streaming(calls[c], slices)
  BY DEF ContentsInv, Call
<1>2. k \in 1 .. Len(calls[c].sent) /\ l \in 1 .. Len(calls[c].sent) /\ Len(calls[c].sent) \in Nat
  BY <1>1, LenProperties
<1>3. calls[c].pc = "stream"
  BY <1>1, <1>2 DEF Streaming
<1>4. Len(calls[c].sent) <= 2 /\ calls[c].sent[k] = slices[calls[c].slice][k]
      /\ calls[c].sent[l] = slices[calls[c].slice][l]
  BY <1>1, <1>2, <1>3 DEF Streaming
<1>5. k \in {1, 2} /\ l \in {1, 2}
  BY <1>2, <1>4
<1>6. slices[calls[c].slice][1] = slices[calls[c].slice][2]
  BY <1>3, HeldIs DEF ContentsInv, Whole
<1>. QED
  BY <1>4, <1>5, <1>6

\* What holds of every instance and volume (Contents!TypeOK): a file's directory
\* is there, two snapshots have two names, nothing that is kept is out of use.
LEMMA ContentsTyped == ContentsInv => Contents!TypeOK
<1> SUFFICES ASSUME ContentsInv
             PROVE  Contents!TypeOK
  OBVIOUS
<1>1. part \in Parts /\ DOMAIN owners \subseteq Instances
      /\ {owners[i].tree : i \in DOMAIN owners} = DOMAIN trees
      /\ {owners[i].snapshots.array : i \in DOMAIN owners} = DOMAIN arrays
      /\ Contents!SliceRefs(trees, calls) = DOMAIN slices
  BY DEF ContentsInv, Planted, Listed
<1>2. ASSUME NEW i \in DOMAIN owners
      PROVE  /\ DOMAIN owners[i].backups \subseteq Backups
             /\ \A p \in DOMAIN Contents!Tree(i) : Contents!InDirectory(i, p)
             /\ \A k, l \in DOMAIN Contents!List(i) :
                  Contents!List(i)[k] = Contents!List(i)[l] => k = l
  <2>1. DOMAIN owners[i].backups \subseteq Backups
    <3>1. owners[i].backups \in Blobs
      BY OwnersAre DEF Holder
    <3>. QED
      BY <3>1 DEF Blobs
  <2>2. \A p \in DOMAIN Contents!Tree(i) : Contents!InDirectory(i, p)
    BY TreeIs DEF Rooted, Contents!InDirectory, Contents!Directory
  <2>3. \A k, l \in DOMAIN Contents!List(i) : Contents!List(i)[k] = Contents!List(i)[l] => k = l
    BY ListIs
  <2>. QED
    BY <2>1, <2>2, <2>3
<1>3. \A c \in Calls : calls[c].pc \in {"idle", "stream", "import"}
  BY DEF ContentsInv, Call
<1>. QED
  BY <1>1, <1>2, <1>3 DEF Contents!TypeOK

\* Of a download (PullFile, which streams after it has unlocked): all it sends is
\* of one upload, whatever is pushed, deleted, renamed or cloned meanwhile, by
\* any number of requests and for any set of instances.
THEOREM DownloadsAreWhole == FakeSpec => []PullsWhole
<1>1. FakeInit => ContentsInv
  BY ContentsStart DEF FakeInit, NoContents
<1>. QED
  BY <1>1, ContentsKept, StreamedIsWhole, PTL DEF FakeSpec

-----------------------------------------------------------------------------
(* The resources and their references.                                     *)

Maps(S, T) == UNION {[D -> T] : D \in SUBSET S}
Enabling == SUBSET Features
Tagging == SUBSET Aliases

Space == [instances : Maps(Instances, Instance), profiles : Maps(ProfileNames, Device),
          networks : Maps(Networks, NetworkConfig), acls : SUBSET ACLs, zones : SUBSET Zones,
          records : SUBSET (Zones \X Records), images : Maps(AllFingerprints, Tagging)]

\* A record is in a zone that exists, and an alias names one image, unless it is
\* the catalog's, which copying takes without a look.
SpaceInv(sp) ==
  /\ sp \in Space
  /\ \A r \in sp.records : r[1] \in sp.zones
  /\ \A a \in Aliases \ Catalog : \A f, g \in DOMAIN sp.images :
       a \in sp.images[f] /\ a \in sp.images[g] => f = g

\* A volume is in a pool and a project that exist, a bucket in a pool.
StorageInv ==
  /\ pools \subseteq Pools
  /\ \A v \in volumes : \E pl \in pools, p \in DOMAIN projects, n \in Volumes : v = <<pl, p, n>>
  /\ \A b \in buckets : \E pl \in pools, p \in Projects, n \in Buckets : b = <<pl, p, n>>

DaemonInv ==
  /\ uses \in Clients
  /\ projects \in Maps(Projects, Enabling) /\ default \in DOMAIN projects
  /\ spaces = [p \in Projects |-> spaces[p]] /\ \A p \in Projects : SpaceInv(spaces[p])
  /\ StorageInv

\* What a map becomes.
LEMMA MapsWith ==
  ASSUME NEW S, NEW T, NEW f \in Maps(S, T), NEW x \in S, NEW v \in T
  PROVE  /\ With(f, x, v) \in Maps(S, T) /\ DOMAIN With(f, x, v) = DOMAIN f \cup {x}
         /\ With(f, x, v)[x] = v /\ \A y \in DOMAIN f \ {x} : With(f, x, v)[y] = f[y]
         /\ \A y \in DOMAIN f : f[y] \in T /\ y \in S
<1>1. PICK D \in SUBSET S : f \in [D -> T]
  BY DEF Maps
<1>2. With(f, x, v) \in [D \cup {x} -> T]
  BY <1>1 DEF With
<1>3. D \cup {x} \in SUBSET S
  OBVIOUS
<1>4. With(f, x, v) \in Maps(S, T)
  BY <1>2, <1>3 DEF Maps
<1>5. /\ DOMAIN With(f, x, v) = DOMAIN f \cup {x}
      /\ With(f, x, v)[x] = v /\ \A y \in DOMAIN f \ {x} : With(f, x, v)[y] = f[y]
  BY DEF With
<1>. QED
  BY <1>1, <1>4, <1>5

LEMMA IsMapWith ==
  ASSUME NEW S, NEW T, NEW f \in Maps(S, T), NEW x \in S, NEW v \in T
  PROVE  With(f, x, v) \in Maps(S, T)
BY MapsWith

LEMMA IsMapWithout ==
  ASSUME NEW S, NEW T, NEW f \in Maps(S, T), NEW x
  PROVE  Without(f, x) \in Maps(S, T)
<1>1. PICK D \in SUBSET S : f \in [D -> T]
  BY DEF Maps
<1>2. Without(f, x) \in [D \ {x} -> T]
  BY <1>1 DEF Without
<1>3. D \ {x} \in SUBSET S
  OBVIOUS
<1>. QED
  BY <1>2, <1>3 DEF Maps

LEMMA MapsWithout ==
  ASSUME NEW S, NEW T, NEW f \in Maps(S, T), NEW x
  PROVE  /\ Without(f, x) \in Maps(S, T) /\ DOMAIN Without(f, x) = DOMAIN f \ {x}
         /\ \A y \in DOMAIN f \ {x} : Without(f, x)[y] = f[y]
         /\ \A y \in DOMAIN f : f[y] \in T /\ y \in S
<1>1. PICK D \in SUBSET S : f \in [D -> T]
  BY DEF Maps
<1>2. Without(f, x) \in [D \ {x} -> T]
  BY <1>1 DEF Without
<1>3. D \ {x} \in SUBSET S
  OBVIOUS
<1>4. Without(f, x) \in Maps(S, T)
  BY <1>2, <1>3 DEF Maps
<1>5. DOMAIN Without(f, x) = DOMAIN f \ {x} /\ \A y \in DOMAIN f \ {x} : Without(f, x)[y] = f[y]
  BY DEF Without
<1>. QED
  BY <1>1, <1>4, <1>5

LEMMA MapsExcept ==
  ASSUME NEW S, NEW T, NEW f \in Maps(S, T), NEW x \in DOMAIN f, NEW v \in T
  PROVE  [f EXCEPT ![x] = v] \in Maps(S, T) /\ f[x] \in T /\ x \in S
<1>1. PICK D \in SUBSET S : f \in [D -> T]
  BY DEF Maps
<1>2. [f EXCEPT ![x] = v] \in [D -> T]
  BY <1>1
<1>. QED
  BY <1>1, <1>2 DEF Maps

\* A map of another's names.
LEMMA MapsAlike ==
  ASSUME NEW S, NEW T, NEW f \in Maps(S, T), NEW g, g = [x \in DOMAIN f |-> g[x]],
         \A x \in DOMAIN f : g[x] \in T
  PROVE  g \in Maps(S, T)
<1>1. PICK D \in SUBSET S : f \in [D -> T]
  BY DEF Maps
<1>2. g \in [D -> T]
  BY <1>1
<1>. QED
  BY <1>2 DEF Maps

LEMMA NoMap == ASSUME NEW S, NEW T PROVE <<>> \in Maps(S, T) /\ DOMAIN <<>> = {}
<1>1. <<>> \in [{} -> T]
  OBVIOUS
<1>2. {} \in SUBSET S
  OBVIOUS
<1>. QED
  BY <1>1, <1>2 DEF Maps

LEMMA OneMap ==
  ASSUME NEW S, NEW T, NEW x \in S, NEW v \in T
  PROVE  Only(x, v) \in Maps(S, T)
<1>1. Only(x, v) \in [{x} -> T]
  BY DEF Only
<1>2. {x} \in SUBSET S
  OBVIOUS
<1>. QED
  BY <1>1, <1>2 DEF Maps

\* The space of a project that has nothing.
LEMMA EmptySpace == SpaceInv(newSpace)
<1>1. newSpace \in Space
  <2>1. <<>> \in Maps(Instances, Instance) /\ <<>> \in Maps(ProfileNames, Device)
        /\ <<>> \in Maps(Networks, NetworkConfig) /\ <<>> \in Maps(AllFingerprints, Tagging)
    BY NoMap
  <2>. QED
    BY <2>1 DEF newSpace, Space
<1>2. newSpace.records = {} /\ DOMAIN newSpace.images = {}
  <2>1. newSpace.images = <<>>
    BY DEF newSpace
  <2>2. newSpace.records = {}
    BY DEF newSpace
  <2>. QED
    BY <2>1, <2>2, NoMap
<1>. QED
  BY <1>1, <1>2 DEF SpaceInv

\* A project's resources of a kind are in its own space, or the default one's.
LEMMA OwnerIs ==
  ASSUME DaemonInv, NEW p \in Projects, NEW feature
  PROVE  Owner(p, feature) \in Projects /\ Owner(p, feature) \in DOMAIN projects
BY DEF Owner, Projects, DaemonInv

\* The projects of requests.
LEMMA CallersAre == ASSUME DaemonInv PROVE Callers \subseteq Projects
<1>1. DOMAIN projects \subseteq Projects
  BY DEF DaemonInv, Maps
<1>. QED
  BY <1>1 DEF Callers

\* Every step that changes one space.
LEMMA SetSpaceInv ==
  ASSUME DaemonInv, NEW p \in Projects, NEW sp, SpaceInv(sp),
         spaces' = [spaces EXCEPT ![p] = sp], UNCHANGED <<uses, projects, pools, volumes, buckets>>
  PROVE  DaemonInv'
<1>1. spaces' = [q \in Projects |-> spaces'[q]] /\ \A q \in Projects : SpaceInv(spaces'[q])
  BY DEF DaemonInv
<1>2. StorageInv'
  BY DEF DaemonInv, StorageInv
<1>. QED
  BY <1>1, <1>2 DEF DaemonInv

\* One part of a space is replaced.
LEMMA SpaceParts ==
  ASSUME NEW sp, SpaceInv(sp), NEW f
  PROVE  /\ f \in Maps(Instances, Instance) => SpaceInv([sp EXCEPT !.instances = f])
         /\ f \in Maps(ProfileNames, Device) => SpaceInv([sp EXCEPT !.profiles = f])
         /\ f \in Maps(Networks, NetworkConfig) => SpaceInv([sp EXCEPT !.networks = f])
         /\ f \in SUBSET ACLs => SpaceInv([sp EXCEPT !.acls = f])
<1>1. sp \in Space
  BY DEF SpaceInv
<1>2. ASSUME f \in Maps(Instances, Instance)
      PROVE  SpaceInv([sp EXCEPT !.instances = f])
  <2> DEFINE new == [sp EXCEPT !.instances = f]
  <2>1. new \in Space /\ new.records = sp.records /\ new.zones = sp.zones /\ new.images = sp.images
    BY <1>1, <1>2 DEF Space
  <2>. HIDE DEF new
  <2>2. SpaceInv(new)
    BY <2>1 DEF SpaceInv
  <2>. QED
    BY <2>2 DEF new
<1>3. ASSUME f \in Maps(ProfileNames, Device)
      PROVE  SpaceInv([sp EXCEPT !.profiles = f])
  <2> DEFINE new == [sp EXCEPT !.profiles = f]
  <2>1. new \in Space /\ new.records = sp.records /\ new.zones = sp.zones /\ new.images = sp.images
    BY <1>1, <1>3 DEF Space
  <2>. HIDE DEF new
  <2>2. SpaceInv(new)
    BY <2>1 DEF SpaceInv
  <2>. QED
    BY <2>2 DEF new
<1>4. ASSUME f \in Maps(Networks, NetworkConfig)
      PROVE  SpaceInv([sp EXCEPT !.networks = f])
  <2> DEFINE new == [sp EXCEPT !.networks = f]
  <2>1. new \in Space /\ new.records = sp.records /\ new.zones = sp.zones /\ new.images = sp.images
    BY <1>1, <1>4 DEF Space
  <2>. HIDE DEF new
  <2>2. SpaceInv(new)
    BY <2>1 DEF SpaceInv
  <2>. QED
    BY <2>2 DEF new
<1>5. ASSUME f \in SUBSET ACLs
      PROVE  SpaceInv([sp EXCEPT !.acls = f])
  <2> DEFINE new == [sp EXCEPT !.acls = f]
  <2>1. new \in Space /\ new.records = sp.records /\ new.zones = sp.zones /\ new.images = sp.images
    BY <1>1, <1>5 DEF Space
  <2>. HIDE DEF new
  <2>2. SpaceInv(new)
    BY <2>1 DEF SpaceInv
  <2>. QED
    BY <2>2 DEF new
<1>. QED
  BY <1>2, <1>3, <1>4, <1>5

\* The parts of a space that is there.
LEMMA SpaceIs ==
  ASSUME DaemonInv, NEW p \in Projects
  PROVE  /\ SpaceInv(spaces[p]) /\ spaces[p] \in Space
         /\ spaces[p].instances \in Maps(Instances, Instance)
         /\ spaces[p].profiles \in Maps(ProfileNames, Device)
         /\ spaces[p].networks \in Maps(Networks, NetworkConfig)
         /\ spaces[p].acls \in SUBSET ACLs
         /\ spaces[p].zones \in SUBSET Zones
         /\ spaces[p].images \in Maps(AllFingerprints, Tagging)
BY DEF DaemonInv, SpaceInv, Space

LEMMA SetInstancesInv ==
  ASSUME DaemonInv, NEW p \in Projects, NEW f \in Maps(Instances, Instance), SetInstances(p, f)
  PROVE  DaemonInv'
<1> DEFINE sp == [spaces[p] EXCEPT !.instances = f]
<1>1. SpaceInv(sp)
  BY SpaceIs, SpaceParts
<1>2. spaces' = [spaces EXCEPT ![p] = sp] /\ UNCHANGED <<uses, projects, pools, volumes, buckets>>
  BY DEF SetInstances, storage
<1>. HIDE DEF sp
<1>. QED
  BY <1>1, <1>2, SetSpaceInv

LEMMA SetProfilesInv ==
  ASSUME DaemonInv, NEW p \in Projects, NEW f \in Maps(ProfileNames, Device), SetProfiles(p, f)
  PROVE  DaemonInv'
<1> DEFINE o == Owner(p, "profiles")
           sp == [spaces[o] EXCEPT !.profiles = f]
<1>1. spaces' = [spaces EXCEPT ![o] = sp] /\ UNCHANGED <<uses, projects, pools, volumes, buckets>>
  BY DEF SetProfiles, storage
<1>2. o \in Projects
  BY OwnerIs
<1>. HIDE DEF o
<1>3. SpaceInv(sp)
  BY <1>2, SpaceIs, SpaceParts
<1>. HIDE DEF sp
<1>. QED
  BY <1>1, <1>2, <1>3, SetSpaceInv

LEMMA SetNetworkSpaceInv ==
  ASSUME DaemonInv, NEW p \in Projects, NEW sp, SpaceInv(sp), SetNetworkSpace(p, sp)
  PROVE  DaemonInv'
<1>1. /\ spaces' = [spaces EXCEPT ![Owner(p, "networks")] = sp]
      /\ UNCHANGED <<uses, projects, pools, volumes, buckets>>
  BY DEF SetNetworkSpace, storage
<1>2. Owner(p, "networks") \in Projects
  BY OwnerIs
<1>. QED
  BY <1>1, <1>2, SetSpaceInv

LEMMA SetZoneSpaceInv ==
  ASSUME DaemonInv, NEW p \in Projects, NEW sp, SpaceInv(sp), SetZoneSpace(p, sp)
  PROVE  DaemonInv'
<1>1. /\ spaces' = [spaces EXCEPT ![Owner(p, "zones")] = sp]
      /\ UNCHANGED <<uses, projects, pools, volumes, buckets>>
  BY DEF SetZoneSpace, storage
<1>2. Owner(p, "zones") \in Projects
  BY OwnerIs
<1>. QED
  BY <1>1, <1>2, SetSpaceInv

\* Of the images of a space, those that have an alias are one at most.
LEMMA SetImagesInv ==
  ASSUME DaemonInv, NEW p \in Projects, NEW f \in Maps(AllFingerprints, Tagging),
         SetImages(p, f),
         \A a \in Aliases \ Catalog : \A x, y \in DOMAIN f : a \in f[x] /\ a \in f[y] => x = y
  PROVE  DaemonInv'
<1> DEFINE o == Owner(p, "images")
           sp == [spaces[o] EXCEPT !.images = f]
<1>1. spaces' = [spaces EXCEPT ![o] = sp] /\ UNCHANGED <<uses, projects, pools, volumes, buckets>>
  BY DEF SetImages, storage
<1>2. o \in Projects
  BY OwnerIs
<1>. HIDE DEF o
<1>3. spaces[o] \in Space
  BY <1>2, SpaceIs
<1>4. sp \in Space /\ sp.images = f /\ sp.records = spaces[o].records /\ sp.zones = spaces[o].zones
  BY <1>3 DEF Space
<1>5. \A r \in spaces[o].records : r[1] \in spaces[o].zones
  BY <1>2, SpaceIs DEF SpaceInv
<1>. HIDE DEF sp
<1>6. SpaceInv(sp)
  BY <1>4, <1>5 DEF SpaceInv
<1>. QED
  BY <1>1, <1>2, <1>6, SetSpaceInv

\* What requests may ask for.
LEMMA InputsAre ==
  /\ NoDevice \in Device /\ Devices \subseteq Device
  /\ ProfileLists \subseteq Seq(ProfileNames) /\ <<>> \in Seq(ProfileNames)
  /\ <<default>> \in Seq(ProfileNames)
  /\ NetworkConfigs \subseteq NetworkConfig
  /\ FeatureSets \subseteq Enabling
  /\ States \subseteq Statuses /\ "Stopped" \in Statuses
<1>1. NoDevice \in Device
  BY DEF NoDevice, Device
<1>2. \A n \in Networks, a \in SUBSET ACLs : Nic(n, a) \in Device
  BY <1>1 DEF Nic, Device
<1>3. \A p \in Pools, v \in Volumes \cup {None} : Disk(p, v) \in Device
  BY <1>1 DEF Disk, Device
<1>4. ACLLists \subseteq SUBSET ACLs
  BY SpacesAssumption DEF ACLLists
<1>5. Devices \subseteq Device
  <2>1. {Nic(n, a) : n \in Networks, a \in ACLLists} \subseteq Device
    BY <1>2, <1>4
  <2>2. {Disk(p, None) : p \in Pools} \subseteq Device
    BY <1>3
  <2>3. {Disk(p, v) : p \in Pools, v \in Volumes} \subseteq Device
    BY <1>3
  <2>. QED
    BY <1>1, <2>1, <2>2, <2>3 DEF Devices
<1>6. default \in ProfileNames
  BY DEF ProfileNames
<1>7. \A n \in ProfileNames : <<n>> \in Seq(ProfileNames)
  OBVIOUS
<1>8. <<>> \in Seq(ProfileNames)
  OBVIOUS
<1>9. ProfileLists \subseteq Seq(ProfileNames)
  BY <1>6, <1>7, <1>8 DEF ProfileLists
<1>10. NetworkConfigs \subseteq NetworkConfig
  <2>1. \A a \in SUBSET ACLs, z \in SUBSET Zones : [acls |-> a, zones |-> z] \in NetworkConfig
    BY DEF NetworkConfig
  <2>2. (IF On("devices") THEN {{}} ELSE ACLLists) \subseteq SUBSET ACLs
    BY <1>4
  <2>3. (IF On("zones") THEN SUBSET Zones ELSE {{}}) \subseteq SUBSET Zones
    OBVIOUS
  <2>. QED
    BY <2>1, <2>2, <2>3 DEF NetworkConfigs
<1>11. FeatureSets \subseteq Enabling
  BY DEF FeatureSets, Features, Enabling
<1>12. States \subseteq Statuses /\ "Stopped" \in Statuses
  BY SpacesAssumption DEF States
<1>. QED
  BY <1>1, <1>5, <1>6, <1>7, <1>8, <1>9, <1>10, <1>11, <1>12

\* The fields of an instance.
LEMMA InstanceIs ==
  ASSUME NEW in \in Instance
  PROVE  /\ \A s \in Statuses : [in EXCEPT !.status = s] \in Instance
         /\ \A ps \in Seq(ProfileNames) : [in EXCEPT !.profiles = ps] \in Instance
         /\ \A d \in Device : [in EXCEPT !.device = d] \in Instance
         /\ in.status \in Statuses /\ in.profiles \in Seq(ProfileNames) /\ in.device \in Device
BY DEF Instance

-----------------------------------------------------------------------------
(* Instances and their devices.                                            *)

\* A new instance in a project.
LEMMA AddedInstance ==
  ASSUME DaemonInv, NEW p \in Projects, NEW i \in Instances, NEW in \in Instance,
         SetInstances(p, With(spaces[p].instances, i, in))
  PROVE  DaemonInv'
<1>1. spaces[p].instances \in Maps(Instances, Instance)
  BY SpaceIs
<1> DEFINE f == With(spaces[p].instances, i, in)
<1>2. f \in Maps(Instances, Instance)
  BY <1>1, MapsWith
<1>. HIDE DEF f
<1>3. SetInstances(p, f)
  BY DEF f
<1>. QED
  BY <1>2, <1>3, SetInstancesInv

\* Another value for one that is there.
LEMMA ChangedInstance ==
  ASSUME DaemonInv, NEW p \in Projects, NEW i, HasInstance(p, i), NEW in \in Instance,
         SetInstances(p, [spaces[p].instances EXCEPT ![i] = in])
  PROVE  DaemonInv'
<1>1. spaces[p].instances \in Maps(Instances, Instance)
  BY SpaceIs
<1> DEFINE f == [spaces[p].instances EXCEPT ![i] = in]
<1>2. f \in Maps(Instances, Instance)
  BY <1>1, MapsExcept DEF HasInstance
<1>. HIDE DEF f
<1>3. SetInstances(p, f)
  BY DEF f
<1>. QED
  BY <1>2, <1>3, SetInstancesInv

LEMMA HadInstance ==
  ASSUME DaemonInv, NEW p \in Projects, NEW i, HasInstance(p, i)
  PROVE  spaces[p].instances[i] \in Instance /\ i \in Instances
<1>1. spaces[p].instances \in Maps(Instances, Instance)
  BY SpaceIs
<1>. QED
  BY <1>1 DEF HasInstance, Maps

LEMMA InstanceStepInv == ASSUME DaemonInv, InstanceStep PROVE DaemonInv'
<1>1. ASSUME NEW p \in Callers, NEW i \in Instances, NEW ps \in ProfileLists, NEW d \in Devices,
             NEW s \in States, CreateInstance(p, i, ps, d, s)
      PROVE  DaemonInv'
  <2> DEFINE in == [status |-> s, device |-> d,
                    profiles |-> IF ps = <<>> THEN <<default>> ELSE ps]
  <2>1. in \in Instance
    <3>1. (IF ps = <<>> THEN <<default>> ELSE ps) \in Seq(ProfileNames)
      BY InputsAre
    <3>2. s \in Statuses /\ d \in Device
      BY InputsAre
    <3>. QED
      BY <3>1, <3>2 DEF Instance
  <2>2. SetInstances(p, With(spaces[p].instances, i, in)) /\ p \in Projects
    BY <1>1, CallersAre DEF CreateInstance
  <2>. HIDE DEF in
  <2>. QED
    BY <2>1, <2>2, AddedInstance
<1>2. ASSUME NEW p \in Callers, NEW i \in Instances, NEW s \in States, setStatus(p, i, s)
      PROVE  DaemonInv'
  <2> DEFINE in == [spaces[p].instances[i] EXCEPT !.status = s]
  <2>1. p \in Projects /\ HasInstance(p, i)
    BY <1>2, CallersAre DEF setStatus
  <2>2. in \in Instance
    BY <2>1, HadInstance, InstanceIs, InputsAre
  <2>3. SetInstances(p, [spaces[p].instances EXCEPT ![i] = in])
    BY <1>2 DEF setStatus
  <2>. HIDE DEF in
  <2>. QED
    BY <2>1, <2>2, <2>3, ChangedInstance
<1>3. ASSUME NEW p \in Callers, NEW i \in Instances, DeleteInstance(p, i)
      PROVE  DaemonInv'
  <2> DEFINE f == Without(spaces[p].instances, i)
  <2>1. p \in Projects /\ SetInstances(p, f)
    BY <1>3, CallersAre DEF DeleteInstance
  <2>2. f \in Maps(Instances, Instance)
    BY <2>1, SpaceIs, MapsWithout
  <2>. HIDE DEF f
  <2>. QED
    BY <2>1, <2>2, SetInstancesInv
<1>4. ASSUME NEW p \in Callers, NEW i \in Instances, NEW j \in Instances, CloneInstance(p, i, j)
      PROVE  DaemonInv'
  <2> DEFINE in == [spaces[p].instances[i] EXCEPT !.status = "Stopped"]
  <2>1. p \in Projects /\ HasInstance(p, i) /\ SetInstances(p, With(spaces[p].instances, j, in))
    BY <1>4, CallersAre DEF CloneInstance
  <2>2. in \in Instance
    BY <2>1, HadInstance, InstanceIs, InputsAre
  <2>. HIDE DEF in
  <2>. QED
    BY <2>1, <2>2, AddedInstance
<1>5. ASSUME NEW p \in Callers, NEW i \in Instances, NEW j \in Instances, RenameInstance(p, i, j)
      PROVE  DaemonInv'
  <2> DEFINE g == Without(spaces[p].instances, i)
             in == spaces[p].instances[i]
             f == With(g, j, in)
  <2>1. p \in Projects /\ HasInstance(p, i) /\ SetInstances(p, f)
    BY <1>5, CallersAre DEF RenameInstance
  <2>2. g \in Maps(Instances, Instance)
    BY <2>1, SpaceIs, MapsWithout
  <2>3. in \in Instance
    BY <2>1, HadInstance
  <2>. HIDE DEF g, in
  <2>4. f \in Maps(Instances, Instance)
    BY <2>2, <2>3, MapsWith
  <2>. HIDE DEF f
  <2>. QED
    BY <2>1, <2>4, SetInstancesInv
<1>6. ASSUME NEW p \in Callers, NEW i \in Instances, NEW j \in Instances, MigrateWithin(p, i, j)
      PROVE  DaemonInv'
  <2>1. p \in Projects /\ default \in Projects /\ HasInstance(p, i)
    BY <1>6, CallersAre DEF MigrateWithin, Projects
  <2> DEFINE g == Without(spaces[p].instances, i)
             sp == [spaces[p] EXCEPT !.instances = g]
             left == [spaces EXCEPT ![p] = sp]
             in == spaces[p].instances[i]
             f == With(left[default].instances, j, in)
             dsp == [left[default] EXCEPT !.instances = f]
  <2>2. /\ spaces' = [left EXCEPT ![default] = dsp]
        /\ UNCHANGED <<uses, projects, pools, volumes, buckets>>
    BY <1>6 DEF MigrateWithin, storage
  <2>3. in \in Instance
    BY <2>1, HadInstance
  <2>4. g \in Maps(Instances, Instance)
    BY <2>1, SpaceIs, MapsWithout
  <2>. HIDE DEF g, in
  <2>5. SpaceInv(sp)
    BY <2>1, <2>4, SpaceIs, SpaceParts
  <2>. HIDE DEF sp
  <2>6. left = [q \in Projects |-> left[q]] /\ \A q \in Projects : SpaceInv(left[q])
    BY <2>5, <2>1 DEF DaemonInv
  <2>. HIDE DEF left
  <2>7. left[default].instances \in Maps(Instances, Instance)
    BY <2>1, <2>6 DEF SpaceInv, Space
  <2>8. f \in Maps(Instances, Instance)
    BY <2>3, <2>7, MapsWith
  <2>. HIDE DEF f
  <2>9. SpaceInv(dsp)
    BY <2>1, <2>6, <2>8, SpaceParts
  <2>. HIDE DEF dsp
  <2>10. spaces' = [q \in Projects |-> spaces'[q]] /\ \A q \in Projects : SpaceInv(spaces'[q])
    BY <2>2, <2>6, <2>9
  <2>11. StorageInv'
    BY <2>2 DEF DaemonInv, StorageInv
  <2>. QED
    BY <2>2, <2>10, <2>11 DEF DaemonInv
<1>7. ASSUME NEW p \in Callers, NEW i \in Instances, ImportInstance(p, i)
      PROVE  DaemonInv'
  <2> DEFINE in == [status |-> "Stopped", profiles |-> <<>>, device |-> NoDevice]
  <2>1. p \in Projects /\ SetInstances(p, With(spaces[p].instances, i, in))
    BY <1>7, CallersAre DEF ImportInstance
  <2>2. in \in Instance
    BY InputsAre DEF Instance
  <2>. HIDE DEF in
  <2>. QED
    BY <2>1, <2>2, AddedInstance
<1>8. ASSUME NEW i \in Instances, NEW ps \in ProfileLists, NEW d \in Devices, MigrateInstance(i, ps, d)
      PROVE  DaemonInv'
  <2> DEFINE in == [status |-> "Stopped", profiles |-> ps, device |-> d]
  <2>1. default \in Projects /\ SetInstances(default, With(spaces[default].instances, i, in))
    BY <1>8 DEF MigrateInstance, Projects
  <2>2. in \in Instance
    BY InputsAre DEF Instance
  <2>. HIDE DEF in
  <2>. QED
    BY <2>1, <2>2, AddedInstance
<1>. QED
  BY <1>1, <1>2, <1>3, <1>4, <1>5, <1>6, <1>7, <1>8 DEF InstanceStep

LEMMA DeviceStepInv == ASSUME DaemonInv, DeviceStep PROVE DaemonInv'
<1>1. ASSUME NEW p \in Callers, NEW i \in Instances, NEW d \in Device, HasInstance(p, i),
             SetInstances(p, [spaces[p].instances EXCEPT ![i].device = d])
      PROVE  DaemonInv'
  <2> DEFINE in == [spaces[p].instances[i] EXCEPT !.device = d]
  <2>1. p \in Projects
    BY CallersAre
  <2>2. in \in Instance
    BY <1>1, <2>1, HadInstance, InstanceIs
  <2>3. SetInstances(p, [spaces[p].instances EXCEPT ![i] = in])
    BY <1>1
  <2>. HIDE DEF in
  <2>. QED
    BY <1>1, <2>1, <2>2, <2>3, ChangedInstance
<1>. QED
  BY <1>1, InputsAre DEF DeviceStep, AddDevice, UpdateDevice, RemoveDevice

-----------------------------------------------------------------------------
(* Projects and profiles.                                                  *)

LEMMA ProjectStepInv == ASSUME DaemonInv, ProjectStep PROVE DaemonInv'
<1>a. projects \in Maps(Projects, Enabling) /\ default \in DOMAIN projects
  BY DEF DaemonInv
<1>b. Others \subseteq Projects /\ default \notin Others
  BY SpacesAssumption DEF Projects
<1>c. DOMAIN projects \subseteq Projects
  BY DEF DaemonInv, Maps
<1>. USE <1>a, <1>b, <1>c
<1>1. ASSUME NEW p \in Others, NEW fs \in FeatureSets, CreateProject(p, fs)
      PROVE  DaemonInv'
  <2> DEFINE f == IF "profiles" \in fs THEN With(spaces[p].profiles, default, NoDevice)
                  ELSE spaces[p].profiles
             sp == [spaces[p] EXCEPT !.profiles = f]
  <2>1. projects' = With(projects, p, fs) /\ UNCHANGED <<uses, pools, volumes, buckets>>
        /\ spaces' = [spaces EXCEPT ![p] = sp]
    BY <1>1 DEF CreateProject, storage
  <2>2. spaces[p].profiles \in Maps(ProfileNames, Device) /\ default \in ProfileNames
    BY SpaceIs DEF ProfileNames
  <2>3. f \in Maps(ProfileNames, Device)
    <3>1. NoDevice \in Device
      BY InputsAre
    <3>2. With(spaces[p].profiles, default, NoDevice) \in Maps(ProfileNames, Device)
      BY <2>2, <3>1, IsMapWith
    <3>. QED
      BY <2>2, <3>2
  <2>. HIDE DEF f
  <2>4. SpaceInv(sp)
    BY <2>3, SpaceIs, SpaceParts
  <2>. HIDE DEF sp
  <2>5. spaces' = [q \in Projects |-> spaces'[q]] /\ \A q \in Projects : SpaceInv(spaces'[q])
    BY <2>1, <2>4 DEF DaemonInv
  <2>6. projects' \in Maps(Projects, Enabling) /\ DOMAIN projects' = DOMAIN projects \cup {p}
    <3>1. fs \in Enabling /\ p \in Projects
      BY InputsAre
    <3>2. With(projects, p, fs) \in Maps(Projects, Enabling)
      BY <3>1, IsMapWith
    <3>3. DOMAIN With(projects, p, fs) = DOMAIN projects \cup {p}
      BY DEF With
    <3>. QED
      BY <2>1, <3>2, <3>3
  <2>7. StorageInv'
    BY <2>1, <2>6 DEF DaemonInv, StorageInv
  <2>. QED
    BY <2>1, <2>5, <2>6, <2>7 DEF DaemonInv
<1>2. ASSUME NEW p \in Others, NEW fs \in FeatureSets, UpdateProject(p, fs)
      PROVE  DaemonInv'
  <2>1. projects' = [projects EXCEPT ![p] = fs] /\ p \in DOMAIN projects
        /\ UNCHANGED <<uses, spaces, pools, volumes, buckets>>
    BY <1>2 DEF UpdateProject, storage
  <2>2. projects' \in Maps(Projects, Enabling) /\ DOMAIN projects' = DOMAIN projects
    BY <2>1, InputsAre, MapsExcept
  <2>3. StorageInv'
    BY <2>1, <2>2 DEF DaemonInv, StorageInv
  <2>. QED
    BY <2>1, <2>2, <2>3 DEF DaemonInv
<1>3. ASSUME NEW p \in Others, NEW q \in Others, RenameProject(p, q)
      PROVE  DaemonInv'
  <2> DEFINE rest == Without(projects, p)
  <2>1. /\ p \in DOMAIN projects \ {default} /\ q \notin DOMAIN projects /\ p # q
        /\ projects' = With(rest, q, projects[p])
        /\ spaces' = [spaces EXCEPT ![q] = spaces[p], ![p] = newSpace]
        /\ volumes' = {IF v[2] = p THEN <<v[1], q, v[3]>> ELSE v : v \in volumes}
        /\ UNCHANGED <<uses, pools, buckets>>
    BY <1>3 DEF RenameProject
  <2>2. rest \in Maps(Projects, Enabling) /\ DOMAIN rest = DOMAIN projects \ {p}
    BY IsMapWithout DEF Without
  <2>3. projects[p] \in Enabling
    BY <2>1 DEF Maps
  <2>. HIDE DEF rest
  <2>4. projects' \in Maps(Projects, Enabling) /\ DOMAIN projects' = DOMAIN rest \cup {q}
    <3> DEFINE was == projects[p]
    <3>1. was \in Enabling /\ q \in Projects /\ rest \in Maps(Projects, Enabling)
      BY <2>2, <2>3
    <3>2. projects' = With(rest, q, was)
      BY <2>1
    <3>. HIDE DEF was
    <3>3. With(rest, q, was) \in Maps(Projects, Enabling)
      BY <3>1, IsMapWith
    <3>4. DOMAIN With(rest, q, was) = DOMAIN rest \cup {q}
      BY DEF With
    <3>. QED
      BY <3>2, <3>3, <3>4
  <2>5. spaces' = [r \in Projects |-> spaces'[r]] /\ \A r \in Projects : SpaceInv(spaces'[r])
    BY <2>1, EmptySpace DEF DaemonInv
  <2>6. \A v \in volumes' : \E pl \in pools', r \in DOMAIN projects', n \in Volumes : v = <<pl, r, n>>
    <3> SUFFICES ASSUME NEW x \in volumes'
                 PROVE  \E pl \in pools, r \in DOMAIN projects', n \in Volumes : x = <<pl, r, n>>
      BY <2>1
    <3>0. PICK v \in volumes : x = IF v[2] = p THEN <<v[1], q, v[3]>> ELSE v
      BY <2>1
    <3>1. PICK pl \in pools, r \in DOMAIN projects, n \in Volumes : v = <<pl, r, n>>
      BY DEF DaemonInv, StorageInv
    <3>2. CASE r = p
      <4>1. x = <<pl, q, n>>
        BY <3>0, <3>1, <3>2
      <4>2. q \in DOMAIN projects'
        BY <2>4
      <4>. QED
        BY <4>1, <4>2
    <3>3. CASE r # p
      <4>1. x = <<pl, r, n>>
        BY <3>0, <3>1, <3>3
      <4>2. r \in DOMAIN projects'
        BY <2>2, <2>4, <3>3
      <4>. QED
        BY <4>1, <4>2
    <3>. QED
      BY <3>2, <3>3
  <2>7. StorageInv'
    BY <2>1, <2>6 DEF DaemonInv, StorageInv
  <2>8. default \in DOMAIN projects'
    BY <2>1, <2>2, <2>4
  <2>. QED
    BY <2>1, <2>4, <2>5, <2>7, <2>8 DEF DaemonInv
<1>4. ASSUME NEW p \in Others, DeleteProject(p)
      PROVE  DaemonInv'
  <2>1. /\ p \in DOMAIN projects \ {default}
        /\ projects' = Without(projects, p)
        /\ spaces' = [spaces EXCEPT ![p] = newSpace]
        /\ volumes' = {v \in volumes : v[2] # p}
        /\ UNCHANGED <<uses, pools, buckets>>
    BY <1>4 DEF DeleteProject
  <2>2. projects' \in Maps(Projects, Enabling) /\ DOMAIN projects' = DOMAIN projects \ {p}
    BY <2>1, IsMapWithout DEF Without
  <2>3. spaces' = [r \in Projects |-> spaces'[r]] /\ \A r \in Projects : SpaceInv(spaces'[r])
    BY <2>1, EmptySpace DEF DaemonInv
  <2>4. \A v \in volumes' : \E pl \in pools', r \in DOMAIN projects', n \in Volumes : v = <<pl, r, n>>
    <3> SUFFICES ASSUME NEW v \in volumes, v[2] # p
                 PROVE  \E pl \in pools, r \in DOMAIN projects', n \in Volumes : v = <<pl, r, n>>
      BY <2>1
    <3>1. PICK pl \in pools, r \in DOMAIN projects, n \in Volumes : v = <<pl, r, n>>
      BY DEF DaemonInv, StorageInv
    <3>2. r \in DOMAIN projects'
      BY <3>1, <2>2
    <3>. QED
      BY <3>1, <3>2
  <2>5. StorageInv'
    BY <2>1, <2>4 DEF DaemonInv, StorageInv
  <2>. QED
    BY <2>1, <2>2, <2>3, <2>5 DEF DaemonInv
<1>. QED
  BY <1>1, <1>2, <1>3, <1>4 DEF ProjectStep

\* In every space, only the instances change, each under its name.
LEMMA InstancesFollow ==
  ASSUME DaemonInv, NEW sps, \A q \in Projects : SpaceInv(sps[q]), NEW g,
         \A q \in Projects : /\ g[q] = [i \in DOMAIN sps[q].instances |-> g[q][i]]
                             /\ \A i \in DOMAIN sps[q].instances : g[q][i] \in Instance,
         spaces' = [q \in Projects |-> [sps[q] EXCEPT !.instances = g[q]]]
  PROVE  spaces' = [q \in Projects |-> spaces'[q]] /\ \A q \in Projects : SpaceInv(spaces'[q])
<1>1. ASSUME NEW q \in Projects
      PROVE  SpaceInv(spaces'[q])
  <2> DEFINE old == sps[q].instances
             f == g[q]
  <2>1. old \in Maps(Instances, Instance)
    BY DEF SpaceInv, Space
  <2>2. f = [i \in DOMAIN old |-> f[i]] /\ \A i \in DOMAIN old : f[i] \in Instance
    OBVIOUS
  <2>3. spaces'[q] = [sps[q] EXCEPT !.instances = f]
    OBVIOUS
  <2>. HIDE DEF old, f
  <2>4. f \in Maps(Instances, Instance)
    BY <2>1, <2>2, MapsAlike
  <2>. QED
    BY <2>3, <2>4, SpaceParts
<1>. QED
  BY <1>1

\* A profile's name in a list.
LEMMA ListsFollow ==
  ASSUME NEW list \in Seq(ProfileNames), NEW n, NEW m \in ProfileNames
  PROVE  [k \in DOMAIN list |-> IF list[k] = n THEN m ELSE list[k]] \in Seq(ProfileNames)
<1>1. Len(list) \in Nat /\ DOMAIN list = 1 .. Len(list) /\ \A k \in DOMAIN list : list[k] \in ProfileNames
  OBVIOUS
<1>2. [k \in DOMAIN list |-> IF list[k] = n THEN m ELSE list[k]] \in [1 .. Len(list) -> ProfileNames]
  BY <1>1
<1>. QED
  BY <1>1, <1>2 DEF Seq

LEMMA ProfileStepInv == ASSUME DaemonInv, ProfileStep PROVE DaemonInv'
<1>a. \A p \in Callers : p \in Projects /\ Owner(p, "profiles") \in Projects
  BY CallersAre, OwnerIs
<1>b. \A p \in Callers : ProfilesSeen(p) \in Maps(ProfileNames, Device)
  BY <1>a, SpaceIs DEF ProfilesSeen
<1>c. Profiles \subseteq ProfileNames /\ NoDevice \in Device
  BY InputsAre DEF ProfileNames
<1>1. ASSUME NEW p \in Callers, NEW i \in Instances, NEW ps \in ProfileLists,
             SetInstanceProfiles(p, i, ps)
      PROVE  DaemonInv'
  <2> DEFINE in == [spaces[p].instances[i] EXCEPT !.profiles = ps]
  <2>1. p \in Projects /\ HasInstance(p, i)
    BY <1>a, <1>1 DEF SetInstanceProfiles
  <2>2. in \in Instance
    BY <2>1, HadInstance, InstanceIs, InputsAre
  <2>3. SetInstances(p, [spaces[p].instances EXCEPT ![i] = in])
    BY <1>1 DEF SetInstanceProfiles
  <2>. HIDE DEF in
  <2>. QED
    BY <2>1, <2>2, <2>3, ChangedInstance
<1>2. ASSUME NEW p \in Callers, NEW n \in Profiles, CreateProfile(p, n)
      PROVE  DaemonInv'
  <2> DEFINE was == ProfilesSeen(p)
             f == With(was, n, NoDevice)
  <2>1. p \in Projects /\ was \in Maps(ProfileNames, Device) /\ n \in ProfileNames /\ NoDevice \in Device
    BY <1>a, <1>b, <1>c
  <2>2. SetProfiles(p, f)
    BY <1>2 DEF CreateProfile
  <2>. HIDE DEF was
  <2>3. f \in Maps(ProfileNames, Device)
    BY <2>1, IsMapWith
  <2>. HIDE DEF f
  <2>. QED
    BY <2>1, <2>2, <2>3, SetProfilesInv
<1>3. ASSUME NEW p \in Callers, NEW n \in Profiles, DeleteProfile(p, n)
      PROVE  DaemonInv'
  <2> DEFINE was == ProfilesSeen(p)
             f == Without(was, n)
  <2>1. p \in Projects /\ was \in Maps(ProfileNames, Device)
    BY <1>a, <1>b
  <2>2. SetProfiles(p, f)
    BY <1>3 DEF DeleteProfile
  <2>. HIDE DEF was
  <2>3. f \in Maps(ProfileNames, Device)
    BY <2>1, IsMapWithout
  <2>. HIDE DEF f
  <2>. QED
    BY <2>1, <2>2, <2>3, SetProfilesInv
<1>4. ASSUME NEW p \in Callers, NEW n \in Profiles, NEW m \in Profiles, RenameProfile(p, n, m)
      PROVE  DaemonInv'
  <2> DEFINE was == ProfilesSeen(p)
             rest == Without(was, n)
             renamed == With(rest, m, was[n])
             o == Owner(p, "profiles")
             osp == [spaces[o] EXCEPT !.profiles = renamed]
             moved == [spaces EXCEPT ![o] = osp]
  <2>1. PICK users \in profileUsers(p) :
          spaces' = [q \in Projects |->
            [moved[q] EXCEPT !.instances = Renamed(moved[q].instances, q, users, n, m)]]
    BY <1>4 DEF RenameProfile
  <2> DEFINE g == [q \in Projects |-> Renamed(moved[q].instances, q, users, n, m)]
  <2>2. spaces' = [q \in Projects |-> [moved[q] EXCEPT !.instances = g[q]]]
    BY <2>1
  <2>3. UNCHANGED <<uses, projects, pools, volumes, buckets>> /\ n \in DOMAIN was
    BY <1>4 DEF RenameProfile, storage
  <2>4. p \in Projects /\ o \in Projects /\ was \in Maps(ProfileNames, Device) /\ m \in ProfileNames
    BY <1>a, <1>b, <1>c
  <2>. HIDE DEF was, o
  <2>5. rest \in Maps(ProfileNames, Device) /\ was[n] \in Device
    BY <2>3, <2>4, IsMapWithout DEF Maps
  <2>6. renamed \in Maps(ProfileNames, Device)
    <3> DEFINE d == was[n]
    <3>1. d \in Device
      BY <2>5
    <3>. HIDE DEF d, rest
    <3>2. With(rest, m, d) \in Maps(ProfileNames, Device)
      BY <2>4, <2>5, <3>1, IsMapWith
    <3>. QED
      BY <3>2 DEF d
  <2>. HIDE DEF renamed
  <2>7. SpaceInv(osp)
    BY <2>4, <2>6, SpaceIs, SpaceParts
  <2>. HIDE DEF osp
  <2>8. \A q \in Projects : SpaceInv(moved[q])
    BY <2>4, <2>7 DEF DaemonInv
  <2>. HIDE DEF moved
  <2>9. ASSUME NEW q \in Projects
        PROVE  /\ g[q] = [i \in DOMAIN moved[q].instances |-> g[q][i]]
               /\ \A i \in DOMAIN moved[q].instances : g[q][i] \in Instance
    <3> DEFINE old == moved[q].instances
    <3>1. g[q] = Renamed(old, q, users, n, m)
      OBVIOUS
    <3>2. old \in Maps(Instances, Instance)
      BY <2>8 DEF SpaceInv, Space
    <3>. HIDE DEF old, g
    <3>3. g[q] = [i \in DOMAIN old |-> g[q][i]]
      BY <3>1 DEF Renamed
    <3>4. ASSUME NEW i \in DOMAIN old
          PROVE  g[q][i] \in Instance
      <4> DEFINE in == old[i]
                 list == [k \in DOMAIN in.profiles |->
                            IF in.profiles[k] = n THEN m ELSE in.profiles[k]]
      <4>1. in \in Instance
        BY <3>2 DEF Maps
      <4>2. g[q][i] = IF <<q, i>> \notin users THEN in ELSE [in EXCEPT !.profiles = list]
        BY <3>1 DEF Renamed
      <4>. HIDE DEF in
      <4>3. in.profiles \in Seq(ProfileNames)
        BY <4>1, InstanceIs
      <4>4. list \in Seq(ProfileNames)
        BY <2>4, <4>3, ListsFollow
      <4>. HIDE DEF list
      <4>. QED
        BY <4>1, <4>2, <4>4, InstanceIs
    <3>. QED
      BY <3>3, <3>4 DEF old
  <2>. HIDE DEF g
  <2>10. spaces' = [q \in Projects |-> spaces'[q]] /\ \A q \in Projects : SpaceInv(spaces'[q])
    BY <2>2, <2>8, <2>9, InstancesFollow
  <2>11. StorageInv'
    BY <2>3 DEF DaemonInv, StorageInv
  <2>. QED
    BY <2>3, <2>10, <2>11 DEF DaemonInv
<1>. QED
  BY <1>1, <1>2, <1>3, <1>4 DEF ProfileStep

LEMMA ProfileDeviceStepInv == ASSUME DaemonInv, ProfileDeviceStep PROVE DaemonInv'
<1>1. PICK p \in Callers, n \in ProfileNames, d \in Devices : SetProfileDevice(p, n, d)
  BY DEF ProfileDeviceStep
<1> DEFINE was == ProfilesSeen(p)
           f == [was EXCEPT ![n] = d]
<1>2. n \in DOMAIN was /\ SetProfiles(p, f) /\ d \in Device /\ p \in Projects
  BY <1>1, InputsAre, CallersAre DEF SetProfileDevice
<1>3. was \in Maps(ProfileNames, Device)
  BY <1>2, OwnerIs, SpaceIs DEF ProfilesSeen
<1>. HIDE DEF was
<1>4. f \in Maps(ProfileNames, Device)
  BY <1>2, <1>3, MapsExcept
<1>. HIDE DEF f
<1>. QED
  BY <1>2, <1>4, SetProfilesInv

-----------------------------------------------------------------------------
(* Networks, ACLs, zones and their records.                                *)

LEMMA NetworkStepInv == ASSUME DaemonInv, NetworkStep PROVE DaemonInv'
<1>1. PICK p \in Callers :
        \/ \E n \in Networks :
             \/ \E c \in NetworkConfigs : CreateNetwork(p, n, c) \/ UpdateNetwork(p, n, c)
             \/ DeleteNetwork(p, n)
        \/ \E a \in ACLs :
             \/ CreateNetworkACL(p, a) \/ DeleteNetworkACL(p, a)
             \/ \E b \in ACLs : RenameNetworkACL(p, a, b)
  BY DEF NetworkStep
<1> DEFINE sp == NetworkSpace(p)
<1>2. p \in Projects /\ SpaceInv(sp) /\ sp.networks \in Maps(Networks, NetworkConfig) /\ sp.acls \subseteq ACLs
  BY CallersAre, OwnerIs, SpaceIs DEF NetworkSpace
<1>. HIDE DEF sp
<1>3. ASSUME NEW nets \in Maps(Networks, NetworkConfig),
             SetNetworkSpace(p, [sp EXCEPT !.networks = nets])
      PROVE  DaemonInv'
  <2> DEFINE new == [sp EXCEPT !.networks = nets]
  <2>1. SpaceInv(new)
    BY <1>2, SpaceParts
  <2>2. SetNetworkSpace(p, new)
    BY <1>3
  <2>. HIDE DEF new
  <2>. QED
    BY <1>2, <2>1, <2>2, SetNetworkSpaceInv
<1>4. ASSUME NEW acls, acls \subseteq ACLs, SetNetworkSpace(p, [sp EXCEPT !.acls = acls])
      PROVE  DaemonInv'
  <2> DEFINE new == [sp EXCEPT !.acls = acls]
  <2>1. SpaceInv(new)
    <3>1. acls \in SUBSET ACLs
      BY <1>4
    <3>. QED
      BY <1>2, <3>1, SpaceParts
  <2>2. SetNetworkSpace(p, new)
    BY <1>4
  <2>. HIDE DEF new
  <2>. QED
    BY <1>2, <2>1, <2>2, SetNetworkSpaceInv
<1>5. ASSUME NEW n \in Networks, NEW c \in NetworkConfigs, CreateNetwork(p, n, c)
      PROVE  DaemonInv'
  <2> DEFINE nets == sp.networks
             new == With(nets, n, c)
  <2>1. SetNetworkSpace(p, [sp EXCEPT !.networks = new])
    BY <1>5 DEF CreateNetwork, sp
  <2>2. c \in NetworkConfig /\ nets \in Maps(Networks, NetworkConfig)
    BY <1>2, InputsAre
  <2>. HIDE DEF nets
  <2>3. new \in Maps(Networks, NetworkConfig)
    BY <2>2, IsMapWith
  <2>. HIDE DEF new
  <2>. QED
    BY <1>3, <2>1, <2>3
<1>6. ASSUME NEW n \in Networks, NEW c \in NetworkConfigs, UpdateNetwork(p, n, c)
      PROVE  DaemonInv'
  <2> DEFINE nets == sp.networks
             new == [nets EXCEPT ![n] = c]
  <2>1. SetNetworkSpace(p, [sp EXCEPT !.networks = new]) /\ n \in DOMAIN nets
    BY <1>6 DEF UpdateNetwork, sp
  <2>2. c \in NetworkConfig /\ nets \in Maps(Networks, NetworkConfig)
    BY <1>2, InputsAre
  <2>. HIDE DEF nets
  <2>3. new \in Maps(Networks, NetworkConfig)
    BY <2>1, <2>2, MapsExcept
  <2>. HIDE DEF new
  <2>. QED
    BY <1>3, <2>1, <2>3
<1>7. ASSUME NEW n \in Networks, DeleteNetwork(p, n)
      PROVE  DaemonInv'
  <2> DEFINE nets == sp.networks
             new == Without(nets, n)
  <2>1. SetNetworkSpace(p, [sp EXCEPT !.networks = new])
    BY <1>7 DEF DeleteNetwork, sp
  <2>2. nets \in Maps(Networks, NetworkConfig)
    BY <1>2
  <2>. HIDE DEF nets
  <2>3. new \in Maps(Networks, NetworkConfig)
    BY <2>2, IsMapWithout
  <2>. HIDE DEF new
  <2>. QED
    BY <1>3, <2>1, <2>3
<1>8. ASSUME NEW a \in ACLs, CreateNetworkACL(p, a)
      PROVE  DaemonInv'
  <2>1. SetNetworkSpace(p, [sp EXCEPT !.acls = sp.acls \cup {a}])
    BY <1>8 DEF CreateNetworkACL, sp
  <2>2. sp.acls \cup {a} \subseteq ACLs
    BY <1>2
  <2>. QED
    BY <1>4, <2>1, <2>2
<1>9. ASSUME NEW a \in ACLs, DeleteNetworkACL(p, a)
      PROVE  DaemonInv'
  <2>1. SetNetworkSpace(p, [sp EXCEPT !.acls = sp.acls \ {a}])
    BY <1>9 DEF DeleteNetworkACL, sp
  <2>2. (sp.acls \ {a}) \subseteq ACLs
    BY <1>2
  <2>. QED
    BY <1>4, <2>1, <2>2
<1>10. ASSUME NEW a \in ACLs, NEW b \in ACLs, RenameNetworkACL(p, a, b)
       PROVE  DaemonInv'
  <2>1. SetNetworkSpace(p, [sp EXCEPT !.acls = (sp.acls \ {a}) \cup {b}])
    BY <1>10 DEF RenameNetworkACL, sp
  <2>2. ((sp.acls \ {a}) \cup {b}) \subseteq ACLs
    BY <1>2
  <2>. QED
    BY <1>4, <2>1, <2>2
<1>. QED
  BY <1>1, <1>5, <1>6, <1>7, <1>8, <1>9, <1>10

\* A record is deleted with its zone, and added to one that exists.
LEMMA ZoneStepInv == ASSUME DaemonInv, ZoneStep PROVE DaemonInv'
<1>1. PICK p \in Callers, z \in Zones :
        \/ CreateNetworkZone(p, z) \/ DeleteNetworkZone(p, z)
        \/ \E r \in Records : CreateZoneRecord(p, z, r) \/ DeleteZoneRecord(p, z, r)
  BY DEF ZoneStep
<1> DEFINE sp == ZoneSpace(p)
<1>2. p \in Projects /\ SpaceInv(sp) /\ sp \in Space
  BY CallersAre, OwnerIs, SpaceIs DEF ZoneSpace
<1>. HIDE DEF sp
<1>3. sp.zones \subseteq Zones /\ sp.records \subseteq Zones \X Records /\ \A r \in sp.records : r[1] \in sp.zones
  BY <1>2 DEF SpaceInv, Space
<1>4. ASSUME NEW zones, zones \subseteq Zones, NEW records, records \subseteq Zones \X Records,
             \A r \in records : r[1] \in zones,
             SetZoneSpace(p, [sp EXCEPT !.zones = zones, !.records = records])
      PROVE  DaemonInv'
  <2> DEFINE new == [sp EXCEPT !.zones = zones, !.records = records]
  <2>1. new \in Space /\ new.zones = zones /\ new.records = records /\ new.images = sp.images
    BY <1>2, <1>4 DEF Space
  <2>2. SetZoneSpace(p, new)
    BY <1>4
  <2>. HIDE DEF new
  <2>3. SpaceInv(new)
    BY <1>2, <1>4, <2>1 DEF SpaceInv
  <2>. QED
    BY <1>2, <2>2, <2>3, SetZoneSpaceInv
<1>5. ASSUME CreateNetworkZone(p, z)
      PROVE  DaemonInv'
  <2>1. [sp EXCEPT !.zones = sp.zones \cup {z}]
          = [sp EXCEPT !.zones = sp.zones \cup {z}, !.records = sp.records]
    BY <1>2 DEF Space
  <2>2. SetZoneSpace(p, [sp EXCEPT !.zones = sp.zones \cup {z}])
    BY <1>5 DEF CreateNetworkZone, sp
  <2>3. sp.zones \cup {z} \subseteq Zones /\ \A r \in sp.records : r[1] \in sp.zones \cup {z}
    BY <1>3
  <2>. QED
    BY <1>3, <1>4, <2>1, <2>2, <2>3
<1>6. ASSUME DeleteNetworkZone(p, z)
      PROVE  DaemonInv'
  <2> DEFINE zones == sp.zones \ {z}
             records == {r \in sp.records : r[1] # z}
  <2>1. SetZoneSpace(p, [sp EXCEPT !.zones = zones, !.records = records])
    BY <1>6 DEF DeleteNetworkZone, RecordsLeft, sp
  <2>2. zones \subseteq Zones /\ records \subseteq Zones \X Records /\ \A r \in records : r[1] \in zones
    BY <1>3
  <2>. HIDE DEF zones, records
  <2>. QED
    BY <1>4, <2>1, <2>2
<1>7. ASSUME NEW records, records \subseteq Zones \X Records, \A r \in records : r[1] \in sp.zones,
             SetZoneSpace(p, [sp EXCEPT !.records = records])
      PROVE  DaemonInv'
  <2>1. [sp EXCEPT !.records = records] = [sp EXCEPT !.zones = sp.zones, !.records = records]
    BY <1>2 DEF Space
  <2>. QED
    BY <1>3, <1>4, <1>7, <2>1
<1>8. ASSUME NEW r \in Records, CreateZoneRecord(p, z, r)
      PROVE  DaemonInv'
  <2> DEFINE records == sp.records \cup {<<z, r>>}
  <2>1. SetZoneSpace(p, [sp EXCEPT !.records = records]) /\ z \in sp.zones
    BY <1>8 DEF CreateZoneRecord, sp
  <2>2. records \subseteq Zones \X Records
    BY <1>3
  <2>3. \A x \in records : x[1] \in sp.zones
    BY <1>3, <2>1
  <2>. HIDE DEF records
  <2>. QED
    BY <1>7, <2>1, <2>2, <2>3
<1>9. ASSUME NEW r \in Records, DeleteZoneRecord(p, z, r)
      PROVE  DaemonInv'
  <2> DEFINE records == sp.records \ {<<z, r>>}
  <2>1. SetZoneSpace(p, [sp EXCEPT !.records = records])
    BY <1>9 DEF DeleteZoneRecord, sp
  <2>2. records \subseteq Zones \X Records /\ \A x \in records : x[1] \in sp.zones
    BY <1>3
  <2>. HIDE DEF records
  <2>. QED
    BY <1>7, <2>1, <2>2
<1>. QED
  BY <1>1, <1>5, <1>6, <1>8, <1>9

-----------------------------------------------------------------------------
(* Pools, volumes and buckets.                                             *)

LEMMA SetStorageInv ==
  ASSUME DaemonInv, NEW p, p \subseteq Pools,
         NEW vs, \A v \in vs : \E pl \in p, q \in DOMAIN projects, n \in Volumes : v = <<pl, q, n>>,
         NEW bs, \A b \in bs : \E pl \in p, q \in Projects, n \in Buckets : b = <<pl, q, n>>,
         SetStorage(p, vs, bs)
  PROVE  DaemonInv'
<1>1. pools' = p /\ volumes' = vs /\ buckets' = bs /\ UNCHANGED <<uses, projects, spaces>>
  BY DEF SetStorage
<1>2. StorageInv'
  BY <1>1 DEF StorageInv
<1>. QED
  BY <1>1, <1>2 DEF DaemonInv

\* A pool that holds no volume is deleted, with its buckets.
LEMMA PoolStepInv == ASSUME DaemonInv, PoolStep PROVE DaemonInv'
<1>1. PICK pl \in Pools : CreateStoragePool(pl) \/ DeleteStoragePool(pl)
  BY DEF PoolStep
<1>2. /\ pools \subseteq Pools
      /\ \A v \in volumes : \E x \in pools, p \in DOMAIN projects, n \in Volumes : v = <<x, p, n>>
      /\ \A b \in buckets : \E x \in pools, p \in Projects, n \in Buckets : b = <<x, p, n>>
  BY DEF DaemonInv, StorageInv
<1>3. ASSUME CreateStoragePool(pl)
      PROVE  DaemonInv'
  <2> DEFINE new == pools \cup {pl}
  <2>1. SetStorage(new, volumes, buckets) /\ new \subseteq Pools
    BY <1>2, <1>3 DEF CreateStoragePool
  <2>2. /\ \A v \in volumes : \E x \in new, p \in DOMAIN projects, n \in Volumes : v = <<x, p, n>>
        /\ \A b \in buckets : \E x \in new, p \in Projects, n \in Buckets : b = <<x, p, n>>
    BY <1>2
  <2>. HIDE DEF new
  <2>. QED
    BY <2>1, <2>2, SetStorageInv
<1>4. ASSUME DeleteStoragePool(pl)
      PROVE  DaemonInv'
  <2> DEFINE new == pools \ {pl}
             bs == {b \in buckets : b[1] # pl}
  <2>1. SetStorage(new, volumes, bs) /\ new \subseteq Pools /\ \A v \in volumes : v[1] # pl
    BY <1>2, <1>4 DEF DeleteStoragePool, PoolUsers
  <2>2. ASSUME NEW v \in volumes
        PROVE  \E x \in new, p \in DOMAIN projects, n \in Volumes : v = <<x, p, n>>
    <3>1. PICK x \in pools, p \in DOMAIN projects, n \in Volumes : v = <<x, p, n>>
      BY <1>2
    <3>2. x \in new
      BY <2>1, <3>1
    <3>. QED
      BY <3>1, <3>2
  <2>3. ASSUME NEW b \in bs
        PROVE  \E x \in new, p \in Projects, n \in Buckets : b = <<x, p, n>>
    <3>1. PICK x \in pools, p \in Projects, n \in Buckets : b = <<x, p, n>>
      BY <1>2
    <3>2. x \in new
      BY <3>1
    <3>. QED
      BY <3>1, <3>2
  <2>. HIDE DEF new, bs
  <2>. QED
    BY <2>1, <2>2, <2>3, SetStorageInv
<1>. QED
  BY <1>1, <1>3, <1>4

LEMMA VolumeStepInv == ASSUME DaemonInv, VolumeStep PROVE DaemonInv'
<1>1. PICK p \in Callers, pl \in Pools, v \in Volumes :
        \/ CreateVolume(p, pl, v) \/ DeleteVolume(p, pl, v)
        \/ \E w \in Volumes : RenameVolume(p, pl, v, w)
  BY DEF VolumeStep
<1> DEFINE o == Owner(p, "volumes")
<1>2. /\ pools \subseteq Pools
      /\ \A x \in volumes : \E y \in pools, q \in DOMAIN projects, n \in Volumes : x = <<y, q, n>>
      /\ \A b \in buckets : \E y \in pools, q \in Projects, n \in Buckets : b = <<y, q, n>>
  BY DEF DaemonInv, StorageInv
<1>3. o \in DOMAIN projects
  BY CallersAre, OwnerIs
<1>4. \A w : Volume(p, pl, w) = <<pl, o, w>>
  BY DEF Volume
<1>. HIDE DEF o
<1>5. ASSUME CreateVolume(p, pl, v)
      PROVE  DaemonInv'
  <2> DEFINE new == volumes \cup {<<pl, o, v>>}
  <2>1. SetStorage(pools, new, buckets) /\ pl \in pools
    BY <1>4, <1>5 DEF CreateVolume
  <2>2. ASSUME NEW x \in new
        PROVE  \E y \in pools, q \in DOMAIN projects, n \in Volumes : x = <<y, q, n>>
    BY <1>2, <1>3, <2>1
  <2>. HIDE DEF new
  <2>. QED
    BY <1>2, <2>1, <2>2, SetStorageInv
<1>6. ASSUME DeleteVolume(p, pl, v)
      PROVE  DaemonInv'
  <2> DEFINE new == volumes \ {<<pl, o, v>>}
  <2>1. SetStorage(pools, new, buckets)
    BY <1>4, <1>6 DEF DeleteVolume
  <2>2. ASSUME NEW x \in new
        PROVE  \E y \in pools, q \in DOMAIN projects, n \in Volumes : x = <<y, q, n>>
    BY <1>2
  <2>. HIDE DEF new
  <2>. QED
    BY <1>2, <2>1, <2>2, SetStorageInv
<1>7. ASSUME NEW w \in Volumes, RenameVolume(p, pl, v, w)
      PROVE  DaemonInv'
  <2> DEFINE users == Attached(p, pl, v)
             g == [q \in Projects |-> Reattached(spaces[q].instances, q, users, w)]
  <2>1. /\ spaces' = [q \in Projects |-> [spaces[q] EXCEPT !.instances = g[q]]]
        /\ volumes' = (volumes \ {<<pl, o, v>>}) \cup {<<pl, o, w>>}
        /\ <<pl, o, v>> \in volumes
        /\ UNCHANGED <<uses, projects, pools, buckets>>
    BY <1>4, <1>7 DEF RenameVolume
  <2>. HIDE DEF users
  <2>2. \A q \in Projects : SpaceInv(spaces[q])
    BY DEF DaemonInv
  <2>3. ASSUME NEW q \in Projects
        PROVE  /\ g[q] = [i \in DOMAIN spaces[q].instances |-> g[q][i]]
               /\ \A i \in DOMAIN spaces[q].instances : g[q][i] \in Instance
    <3> DEFINE old == spaces[q].instances
    <3>1. g[q] = Reattached(old, q, users, w)
      OBVIOUS
    <3>2. old \in Maps(Instances, Instance)
      BY SpaceIs
    <3>. HIDE DEF old, g
    <3>3. g[q] = [i \in DOMAIN old |-> g[q][i]]
      BY <3>1 DEF Reattached
    <3>4. ASSUME NEW i \in DOMAIN old
          PROVE  g[q][i] \in Instance
      <4> DEFINE in == old[i]
                 dev == [in.device EXCEPT !.source = w]
      <4>1. in \in Instance
        BY <3>2 DEF Maps
      <4>2. g[q][i] = IF <<q, i>> \notin users THEN in ELSE [in EXCEPT !.device.source = w]
        BY <3>1 DEF Reattached
      <4>. HIDE DEF in
      <4>3. dev \in Device
        BY <4>1 DEF Instance, Device
      <4>4. [in EXCEPT !.device.source = w] = [in EXCEPT !.device = dev]
        OBVIOUS
      <4>. HIDE DEF dev
      <4>. QED
        BY <4>1, <4>2, <4>3, <4>4, InstanceIs
    <3>. QED
      BY <3>3, <3>4 DEF old
  <2>. HIDE DEF g
  <2>4. spaces' = [q \in Projects |-> spaces'[q]] /\ \A q \in Projects : SpaceInv(spaces'[q])
    BY <2>1, <2>2, <2>3, InstancesFollow
  <2>5. PICK y \in pools, q \in DOMAIN projects, n \in Volumes : <<pl, o, v>> = <<y, q, n>>
    BY <1>2, <2>1
  <2>6. pl \in pools
    BY <2>5
  <2>7. \A x \in volumes' : \E a \in pools, r \in DOMAIN projects, m \in Volumes : x = <<a, r, m>>
    BY <1>2, <1>3, <2>1, <2>6
  <2>8. StorageInv'
    BY <1>2, <2>1, <2>7 DEF StorageInv
  <2>. QED
    BY <2>1, <2>4, <2>8 DEF DaemonInv
<1>. QED
  BY <1>1, <1>5, <1>6, <1>7

LEMMA BucketStepInv == ASSUME DaemonInv, BucketStep PROVE DaemonInv'
<1>1. PICK p \in Callers, pl \in Pools, b \in Buckets : CreateBucket(p, pl, b) \/ DeleteBucket(p, pl, b)
  BY DEF BucketStep
<1> DEFINE o == Owner(p, "buckets")
<1>2. /\ pools \subseteq Pools
      /\ \A x \in volumes : \E y \in pools, q \in DOMAIN projects, n \in Volumes : x = <<y, q, n>>
      /\ \A x \in buckets : \E y \in pools, q \in Projects, n \in Buckets : x = <<y, q, n>>
  BY DEF DaemonInv, StorageInv
<1>3. o \in Projects
  BY CallersAre, OwnerIs
<1>4. Bucket(p, pl, b) = <<pl, o, b>>
  BY DEF Bucket
<1>. HIDE DEF o
<1>5. ASSUME CreateBucket(p, pl, b)
      PROVE  DaemonInv'
  <2> DEFINE new == buckets \cup {<<pl, o, b>>}
  <2>1. SetStorage(pools, volumes, new) /\ pl \in pools
    BY <1>4, <1>5 DEF CreateBucket
  <2>2. ASSUME NEW x \in new
        PROVE  \E y \in pools, q \in Projects, n \in Buckets : x = <<y, q, n>>
    BY <1>2, <1>3, <2>1
  <2>. HIDE DEF new
  <2>. QED
    BY <1>2, <2>1, <2>2, SetStorageInv
<1>6. ASSUME DeleteBucket(p, pl, b)
      PROVE  DaemonInv'
  <2> DEFINE new == buckets \ {<<pl, o, b>>}
  <2>1. SetStorage(pools, volumes, new)
    BY <1>4, <1>6 DEF DeleteBucket
  <2>2. ASSUME NEW x \in new
        PROVE  \E y \in pools, q \in Projects, n \in Buckets : x = <<y, q, n>>
    BY <1>2
  <2>. HIDE DEF new
  <2>. QED
    BY <1>2, <2>1, <2>2, SetStorageInv
<1>. QED
  BY <1>1, <1>5, <1>6

-----------------------------------------------------------------------------
(* Images and their aliases.                                               *)

LEMMA ImageStepInv == ASSUME DaemonInv, ImageStep PROVE DaemonInv'
<1>1. PICK p \in Callers :
        \/ \E alias \in Aliases \cup {None} :
             \/ \E i \in Instances, t \in Seconds : PublishImage(p, i, t, alias)
             \/ \E f \in Fingerprints : ImportImage(p, f, alias)
        \/ \E f \in AllFingerprints :
             DeleteImage(p, f) \/ \E alias \in Aliases : AddImageAlias(p, f, alias)
        \/ \E alias \in Aliases : CopyImage(p, alias) \/ RemoveImageAlias(p, alias)
  BY DEF ImageStep
<1> DEFINE sp == ImageSpace(p)
           images == sp.images
           Single(f) == \A a \in Aliases \ Catalog : \A x, y \in DOMAIN f :
                          a \in f[x] /\ a \in f[y] => x = y
<1>2. p \in Projects /\ SpaceInv(sp) /\ images \in Maps(AllFingerprints, Tagging)
  BY CallersAre, OwnerIs, SpaceIs DEF ImageSpace
<1>3. Single(images)
  BY <1>2 DEF SpaceInv
<1>4. \A a : aliasOwner(sp, a) = {x \in DOMAIN images : a \in images[x]}
  BY DEF aliasOwner
<1>5. \A x \in DOMAIN images : images[x] \in Tagging
  BY <1>2 DEF Maps
<1>. HIDE DEF sp, images
<1>6. ASSUME NEW f \in Maps(AllFingerprints, Tagging), Single(f), SetImages(p, f)
      PROVE  DaemonInv'
  BY <1>2, <1>6, SetImagesInv
\* An image with no alias, with one that is free, or with the catalog's.
<1>7. ASSUME NEW new \in AllFingerprints, new \notin DOMAIN images, NEW tags \in Tagging,
             \A a \in tags \ Catalog : \A x \in DOMAIN images : a \notin images[x],
             SetImages(p, With(images, new, tags))
      PROVE  DaemonInv'
  <2> DEFINE f == With(images, new, tags)
  <2>1. f \in Maps(AllFingerprints, Tagging)
    BY <1>2, IsMapWith
  <2>2. DOMAIN f = DOMAIN images \cup {new} /\ f[new] = tags /\ \A x \in DOMAIN images : f[x] = images[x]
    BY <1>7 DEF With
  <2>3. SetImages(p, f)
    BY <1>7
  <2>. HIDE DEF f
  <2>4. Single(f)
    BY <1>3, <1>7, <2>2
  <2>. HIDE DEF Single
  <2>. QED
    BY <1>6, <2>1, <2>3, <2>4
<1>8. ASSUME NEW alias \in Aliases \cup {None}, NEW new \in AllFingerprints,
             new \notin DOMAIN images, Free(p, alias), SetImages(p, With(images, new, Tags(alias)))
      PROVE  DaemonInv'
  <2> DEFINE tags == Tags(alias)
  <2>1. tags \in Tagging
    BY DEF Tags, Tagging
  <2>2. \A a \in tags : a = alias /\ alias # None
    BY DEF Tags
  <2>3. alias # None => \A x \in DOMAIN images : alias \notin images[x]
    BY <1>4, <1>8 DEF Free, sp
  <2>4. SetImages(p, With(images, new, tags))
    BY <1>8
  <2>. HIDE DEF tags, Single
  <2>. QED
    BY <1>7, <1>8, <2>1, <2>2, <2>3, <2>4
<1>9. ASSUME NEW alias \in Aliases \cup {None}, NEW i \in Instances, NEW t \in Seconds,
             PublishImage(p, i, t, alias)
      PROVE  DaemonInv'
  <2>1. /\ <<i, t>> \notin DOMAIN images /\ Free(p, alias)
        /\ SetImages(p, With(images, <<i, t>>, Tags(alias)))
    BY <1>9 DEF PublishImage, images, sp
  <2>2. <<i, t>> \in AllFingerprints
    BY DEF AllFingerprints
  <2>. HIDE DEF Single
  <2>. QED
    BY <1>8, <2>1, <2>2
<1>10. ASSUME NEW alias \in Aliases \cup {None}, NEW f \in Fingerprints, ImportImage(p, f, alias)
       PROVE  DaemonInv'
  <2>1. f \notin DOMAIN images /\ Free(p, alias) /\ SetImages(p, With(images, f, Tags(alias)))
    BY <1>10 DEF ImportImage, images, sp
  <2>2. f \in AllFingerprints
    BY DEF AllFingerprints
  <2>. HIDE DEF Single
  <2>. QED
    BY <1>8, <2>1, <2>2
<1>11. ASSUME NEW alias \in Aliases, CopyImage(p, alias)
       PROVE  DaemonInv'
  <2> DEFINE tags == {alias}
  <2>1. alias \in Catalog /\ alias \notin DOMAIN images /\ SetImages(p, With(images, alias, tags))
    BY <1>11 DEF CopyImage, images, sp
  <2>2. alias \in AllFingerprints
    BY <2>1 DEF AllFingerprints
  <2>3. tags \in Tagging /\ tags \ Catalog = {}
    BY <2>1 DEF Tagging
  <2>. HIDE DEF Single, tags
  <2>. QED
    BY <1>7, <2>1, <2>2, <2>3
<1>12. ASSUME NEW x, DeleteImage(p, x)
       PROVE  DaemonInv'
  <2> DEFINE f == Without(images, x)
  <2>1. f \in Maps(AllFingerprints, Tagging)
    BY <1>2, IsMapWithout
  <2>2. DOMAIN f \subseteq DOMAIN images /\ \A y \in DOMAIN f : f[y] = images[y]
    BY DEF Without
  <2>3. SetImages(p, f)
    BY <1>12 DEF DeleteImage, images, sp
  <2>. HIDE DEF f
  <2>4. Single(f)
    BY <1>3, <2>2
  <2>. HIDE DEF Single
  <2>. QED
    BY <1>6, <2>1, <2>3, <2>4
\* The aliases of one image.
<1>13. ASSUME NEW x \in DOMAIN images, NEW tags \in Tagging, SetImages(p, [images EXCEPT ![x] = tags]),
              \A a \in tags \ (Catalog \cup images[x]) : \A y \in DOMAIN images : a \notin images[y]
       PROVE  DaemonInv'
  <2> DEFINE f == [images EXCEPT ![x] = tags]
  <2>1. f \in Maps(AllFingerprints, Tagging)
    BY <1>2, MapsExcept
  <2>2. DOMAIN f = DOMAIN images /\ f[x] = tags /\ \A y \in DOMAIN images \ {x} : f[y] = images[y]
    BY <1>2 DEF Maps
  <2>3. SetImages(p, f)
    BY <1>13
  <2>. HIDE DEF f
  <2>4. Single(f)
    BY <1>3, <1>13, <2>2
  <2>. HIDE DEF Single
  <2>. QED
    BY <1>6, <2>1, <2>3, <2>4
<1>14. ASSUME NEW x, NEW alias \in Aliases, AddImageAlias(p, x, alias)
       PROVE  DaemonInv'
  <2> DEFINE tags == images[x] \cup {alias}
  <2>1. x \in DOMAIN images /\ Free(p, alias) /\ SetImages(p, [images EXCEPT ![x] = tags])
    BY <1>14 DEF AddImageAlias, images, sp
  <2>2. tags \in Tagging /\ tags \ images[x] \subseteq {alias}
    BY <1>5, <2>1 DEF Tagging
  <2>3. alias # None
    BY SpacesAssumption
  <2>4. \A y \in DOMAIN images : alias \notin images[y]
    BY <1>4, <2>1, <2>3 DEF Free, sp
  <2>. HIDE DEF Single, tags
  <2>. QED
    BY <1>13, <2>1, <2>2, <2>4
<1>15. ASSUME NEW alias \in Aliases, RemoveImageAlias(p, alias)
       PROVE  DaemonInv'
  <2>1. PICK x \in aliasOwner(sp, alias) : SetImages(p, [images EXCEPT ![x] = images[x] \ {alias}])
    BY <1>15 DEF RemoveImageAlias, images, sp
  <2> DEFINE tags == images[x] \ {alias}
  <2>2. x \in DOMAIN images
    BY <1>4
  <2>3. tags \in Tagging /\ tags \subseteq images[x]
    BY <1>5, <2>2 DEF Tagging
  <2>4. SetImages(p, [images EXCEPT ![x] = tags])
    BY <2>1
  <2>. HIDE DEF Single, tags
  <2>. QED
    BY <1>13, <2>2, <2>3, <2>4
<1>. HIDE DEF Single
<1>. QED
  BY <1>1, <1>9, <1>10, <1>11, <1>12, <1>14, <1>15

-----------------------------------------------------------------------------

LEMMA DaemonKept == DaemonInv /\ [FakeNext]_<<side, vars, inside, versions>> => DaemonInv'
<1>. SUFFICES ASSUME DaemonInv, [FakeNext]_<<side, vars, inside, versions>>
              PROVE  DaemonInv'
  OBVIOUS
<1>1. ASSUME Next
      PROVE  DaemonInv'
  BY <1>1, ProjectStepInv, InstanceStepInv, DeviceStepInv, ProfileStepInv, ProfileDeviceStepInv,
     NetworkStepInv, ZoneStepInv, PoolStepInv, VolumeStepInv, BucketStepInv, ImageStepInv DEF Next
<1>2. ASSUME UNCHANGED vars
      PROVE  DaemonInv'
  BY <1>2 DEF vars, DaemonInv, StorageInv
<1>. QED
  BY <1>1, <1>2 DEF FakeNext

\* The default project with what it is seeded with.
LEMMA SeededSpace ==
  ASSUME NEW d \in Device, NEW nets \in SUBSET Networks, NEW seeded \in SUBSET Catalog
  PROVE  SpaceInv([newSpace EXCEPT
           !.profiles = Only(default, d),
           !.networks = [n \in nets |-> [acls |-> {}, zones |-> {}]],
           !.images = [a \in seeded |-> {a}]])
<1> DEFINE ps == Only(default, d)
           ns == [n \in nets |-> [acls |-> {}, zones |-> {}]]
           is == [a \in seeded |-> {a}]
           sp == [newSpace EXCEPT !.profiles = ps, !.networks = ns, !.images = is]
<1>1. ps \in Maps(ProfileNames, Device)
  BY OneMap DEF ProfileNames
<1>2. ns \in Maps(Networks, NetworkConfig)
  <2>1. ns \in [nets -> NetworkConfig]
    BY DEF NetworkConfig
  <2>. QED
    BY <2>1 DEF Maps
<1>3. is \in Maps(AllFingerprints, Tagging)
  <2>1. is \in [seeded -> Tagging] /\ seeded \in SUBSET AllFingerprints
    BY SpacesAssumption DEF Tagging, AllFingerprints
  <2>. QED
    BY <2>1 DEF Maps
<1>4. DOMAIN is = seeded /\ \A a \in seeded : is[a] = {a}
  OBVIOUS
<1>. HIDE DEF ps, ns, is
<1>5. newSpace \in Space /\ newSpace.records = {}
  BY EmptySpace DEF SpaceInv, newSpace
<1>6. sp \in Space /\ sp.records = {} /\ sp.images = is
  BY <1>1, <1>2, <1>3, <1>5 DEF Space
<1>. HIDE DEF sp
<1>7. SpaceInv(sp)
  BY <1>4, <1>6 DEF SpaceInv
<1>. QED
  BY <1>7 DEF sp, ps, ns, is

LEMMA DaemonStart == Init => DaemonInv
<1>. SUFFICES ASSUME Init
              PROVE  DaemonInv
  OBVIOUS
<1>1. default \in Projects /\ Others \subseteq Projects
  BY DEF Projects
<1>2. Only(default, Features) \in Maps(Projects, Enabling) /\ DOMAIN Only(default, Features) = {default}
  BY <1>1, OneMap DEF Enabling, Only
<1>3. projects \in Maps(Projects, Enabling) /\ default \in DOMAIN projects
  <2>1. CASE projects = Only(default, Features)
    BY <2>1, <1>2
  <2>2. ASSUME NEW p \in Others, NEW fs \in FeatureSets,
               projects = With(Only(default, Features), p, fs)
        PROVE  projects \in Maps(Projects, Enabling) /\ default \in DOMAIN projects
    <3> DEFINE f == Only(default, Features)
    <3>1. f \in Maps(Projects, Enabling) /\ p \in Projects /\ fs \in Enabling
      BY <1>1, <1>2, InputsAre
    <3>2. default \in DOMAIN f
      BY <1>2
    <3>3. projects = With(f, p, fs)
      BY <2>2
    <3>. HIDE DEF f
    <3>4. With(f, p, fs) \in Maps(Projects, Enabling)
      BY <3>1, IsMapWith
    <3>5. default \in DOMAIN With(f, p, fs)
      BY <3>2 DEF With
    <3>. QED
      BY <3>3, <3>4, <3>5
  <2>. QED
    BY <2>1, <2>2 DEF Init
<1>4. \A fs : SpaceInv(CreatedSpace(fs))
  <2> DEFINE ps == Only(default, NoDevice)
             sp == [newSpace EXCEPT !.profiles = ps]
  <2>1. ps \in Maps(ProfileNames, Device)
    BY OneMap, InputsAre DEF ProfileNames
  <2>. HIDE DEF ps
  <2>2. SpaceInv(sp)
    BY <2>1, EmptySpace, SpaceParts
  <2>. QED
    BY <2>2, EmptySpace DEF CreatedSpace, ps
<1>5. PICK d \in {NoDevice} \cup {Nic(n, {}) : n \in IF On("networks") THEN Networks ELSE {}}
                   \cup {Disk(p, None) : p \in IF On("pools") THEN Pools ELSE {}},
           nets \in SUBSET (IF On("networks") THEN Networks ELSE {}) :
        spaces = [p \in Projects |->
            IF p \notin DOMAIN projects THEN newSpace
            ELSE IF p # default THEN CreatedSpace(projects[p])
            ELSE [newSpace EXCEPT
                    !.profiles = Only(default, d),
                    !.networks = [n \in nets |-> [acls |-> {}, zones |-> {}]],
                    !.images = [a \in IF On("images") THEN Catalog ELSE {} |-> {a}]]]
  BY DEF Init
<1>6. d \in Device
  BY InputsAre DEF NoDevice, Nic, Disk, Device
<1> DEFINE seeded == IF On("images") THEN Catalog ELSE {}
           first == [newSpace EXCEPT
                    !.profiles = Only(default, d),
                    !.networks = [n \in nets |-> [acls |-> {}, zones |-> {}]],
                    !.images = [a \in seeded |-> {a}]]
<1>7. SpaceInv(first)
  <2>1. seeded \in SUBSET Catalog /\ nets \in SUBSET Networks
    OBVIOUS
  <2>. HIDE DEF seeded
  <2>. QED
    BY <1>6, <2>1, SeededSpace
<1>8. spaces = [p \in Projects |->
         IF p \notin DOMAIN projects THEN newSpace
         ELSE IF p # default THEN CreatedSpace(projects[p]) ELSE first]
  BY <1>5
<1>. HIDE DEF first
<1>9. spaces = [p \in Projects |-> spaces[p]] /\ \A p \in Projects : SpaceInv(spaces[p])
  BY <1>4, <1>7, <1>8, EmptySpace
<1>10. uses \in Clients /\ pools = Pools /\ volumes = {} /\ buckets = {}
  BY DEF Init
<1>11. StorageInv
  BY <1>10 DEF StorageInv
<1>. QED
  BY <1>3, <1>9, <1>10, <1>11 DEF DaemonInv, Enabling

LEMMA DaemonTyped == DaemonInv => TypeOK
<1>. SUFFICES ASSUME DaemonInv
              PROVE  TypeOK
  OBVIOUS
<1>1. ASSUME NEW S, NEW T, NEW f \in Maps(S, T)
      PROVE  IsMap(f, S, T)
  BY DEF Maps, IsMap
<1>2. IsMap(projects, Projects, SUBSET Features) /\ default \in DOMAIN projects
  BY <1>1 DEF DaemonInv, Enabling
<1>3. ASSUME NEW p \in Projects
      PROVE  /\ IsMap(spaces[p].instances, Instances, Instance)
             /\ IsMap(spaces[p].profiles, ProfileNames, Device)
             /\ IsMap(spaces[p].networks, Networks, NetworkConfig)
             /\ spaces[p].acls \subseteq ACLs
             /\ spaces[p].zones \subseteq Zones
             /\ spaces[p].records \subseteq spaces[p].zones \X Records
             /\ IsMap(spaces[p].images, AllFingerprints, SUBSET Aliases)
             /\ \A a \in Aliases \ Catalog : Cardinality(aliasOwner(spaces[p], a)) <= 1
  <2> DEFINE sp == spaces[p]
  <2>1. SpaceInv(sp) /\ sp \in Space
    BY SpaceIs
  <2>2. /\ sp.instances \in Maps(Instances, Instance)
        /\ sp.profiles \in Maps(ProfileNames, Device)
        /\ sp.networks \in Maps(Networks, NetworkConfig)
        /\ sp.images \in Maps(AllFingerprints, Tagging)
        /\ sp.acls \subseteq ACLs /\ sp.zones \subseteq Zones
        /\ sp.records \subseteq Zones \X Records
    BY <2>1 DEF Space
  <2>. HIDE DEF sp
  <2>3. /\ IsMap(sp.instances, Instances, Instance)
        /\ IsMap(sp.profiles, ProfileNames, Device)
        /\ IsMap(sp.networks, Networks, NetworkConfig)
        /\ IsMap(sp.images, AllFingerprints, Tagging)
    BY <1>1, <2>2
  <2>4. sp.records \subseteq sp.zones \X Records
    BY <2>1, <2>2 DEF SpaceInv
  <2>5. ASSUME NEW a \in Aliases \ Catalog
        PROVE  Cardinality(aliasOwner(sp, a)) <= 1
    <3> DEFINE having == aliasOwner(sp, a)
    <3>1. \A f, g \in having : f = g
      BY <2>1 DEF SpaceInv, aliasOwner
    <3>. HIDE DEF having
    <3>2. ASSUME NEW f \in having
          PROVE  Cardinality(having) <= 1
      <4>1. having = {f}
        BY <3>1
      <4>2. Cardinality({f}) = 1
        BY FS_Singleton
      <4>. QED
        BY <4>1, <4>2
    <3>3. Cardinality(having) <= 1
      <4>1. CASE having = {}
        <5>1. Cardinality(having) = 0
          BY <4>1, FS_EmptySet
        <5>. QED
          BY <5>1
      <4>. QED
        BY <3>2, <4>1
    <3>. QED
      BY <3>3 DEF having
  <2>. QED
    BY <2>2, <2>3, <2>4, <2>5 DEF sp, Tagging
<1>4. pools \subseteq Pools /\ volumes \subseteq pools \X (DOMAIN projects) \X Volumes
      /\ buckets \subseteq pools \X Projects \X Buckets
  BY DEF DaemonInv, StorageInv
<1>5. uses \in Clients
  BY DEF DaemonInv
<1>. QED
  BY <1>2, <1>3, <1>4, <1>5 DEF TypeOK

LEMMA TokensTyped == TokenInv => Tokens!TypeOK
<1>. SUFFICES ASSUME TokenInv
              PROVE  Tokens!TypeOK
  OBVIOUS
<1>1. ASSUME NEW n \in DOMAIN docs
      PROVE  docs[n].shown \in Texts /\ docs[n].version \in 0 .. MaxVersion /\ docs[n].born < born
  BY DEF TokenInv, DocsInv, Doc
<1>2. ASSUME NEW t \in Tabs, pages[t].open
      PROVE  pages[t].token \in 0 .. MaxVersion
  <2>1. PageInv(pages[t])
    BY DEF TokenInv
  <2>2. CASE pages[t] = Tokens!NoPage
    BY <1>2, <2>2 DEF Tokens!NoPage
  <2>3. CASE pages[t] \in Rendered
    BY <2>3 DEF Rendered
  <2>. QED
    BY <2>1, <2>2, <2>3 DEF PageInv
<1>. QED
  BY <1>1, <1>2 DEF TokenInv, DocsInv, Tokens!TypeOK

\* The references between resources stay well-formed through every sequence of
\* calls, for any projects, features and names: a record's zone exists, a volume
\* is in a pool and a project that exist, an alias that is not the catalog's
\* names one image of a space; and files keep their directories, snapshots their
\* names, tokens their range (projects.go, zones.go, storage.go, images.go).
THEOREM ResourcesTyped == FakeSpec => []FakeTypeOK
<1> DEFINE Inv == DaemonInv /\ ContentsInv /\ TokenInv
<1>1. FakeInit => Inv
  BY DaemonStart, ContentsStart, TokensStart DEF FakeInit, NoContents, NoResources
<1>2. Inv /\ [FakeNext]_<<side, vars, inside, versions>> => Inv'
  BY DaemonKept, ContentsKept, TokensKept
<1>3. Inv => FakeTypeOK
  BY DaemonTyped, ContentsTyped, TokensTyped DEF FakeTypeOK
<1>. QED
  BY <1>1, <1>2, <1>3, PTL DEF FakeSpec

-----------------------------------------------------------------------------
(* What a step of one owner leaves of the others.                          *)

\* An owner's view, by what it is made from.
Shown(o, ts, as, ss) ==
  [value |-> o.value, backups |-> o.backups,
   snapshots |-> SubSeq(as[o.snapshots.array], 1, o.snapshots.len),
   files |-> [p \in DOMAIN ts[o.tree] |-> IF ts[o.tree][p] = 0 THEN <<>> ELSE ss[ts[o.tree][p]]]]

LEMMA ViewIs ==
  \A i : /\ Contents!View(i) = Shown(owners[i], trees, arrays, slices)
         /\ Contents!View(i)' = Shown(owners'[i], trees', arrays', slices')
BY DEF Contents!View, Contents!List, Contents!Tree, Contents!Directory, Shown

\* It is the same when its tree, its array and the slices in its tree are.
LEMMA ShownAlike ==
  ASSUME NEW o, NEW ts, NEW as, NEW ss, NEW newTs, NEW newAs, NEW newSs,
         newTs[o.tree] = ts[o.tree], newAs[o.snapshots.array] = as[o.snapshots.array],
         \A p \in DOMAIN ts[o.tree] : ts[o.tree][p] # 0 => newSs[ts[o.tree][p]] = ss[ts[o.tree][p]]
  PROVE  Shown(o, newTs, newAs, newSs) = Shown(o, ts, as, ss)
<1> DEFINE files == [p \in DOMAIN ts[o.tree] |->
                       IF ts[o.tree][p] = 0 THEN <<>> ELSE ss[ts[o.tree][p]]]
           newFiles == [p \in DOMAIN newTs[o.tree] |->
                          IF newTs[o.tree][p] = 0 THEN <<>> ELSE newSs[newTs[o.tree][p]]]
<1>1. newFiles = files
  OBVIOUS
<1>2. /\ Shown(o, ts, as, ss) = [value |-> o.value, backups |-> o.backups, files |-> files,
                                 snapshots |-> SubSeq(as[o.snapshots.array], 1, o.snapshots.len)]
      /\ Shown(o, newTs, newAs, newSs)
           = [value |-> o.value, backups |-> o.backups, files |-> newFiles,
              snapshots |-> SubSeq(newAs[o.snapshots.array], 1, o.snapshots.len)]
  BY DEF Shown
<1>. HIDE DEF files, newFiles
<1>. QED
  BY <1>1, <1>2

\* What a name showed it still shows.
ShowsOn(n) == Shown(owners'[n], trees', arrays', slices') = Shown(owners[n], trees, arrays, slices)

\* Nothing changes but what i shows.
OnlyAt(i) ==
  \A n \in Instances \ {i} :
    /\ n \in DOMAIN owners' <=> n \in DOMAIN owners
    /\ n \in DOMAIN owners => ShowsOn(n)

\* A step that is about one owner.
LEMMA OneChanges ==
  ASSUME NEW i, OnlyAt(i)
  PROVE  Contents!OthersUntouched
<1>1. ASSUME NEW n \in Instances \ {i}
      PROVE  Contents!Stays(n)
  BY ViewIs DEF Contents!Stays, OnlyAt, ShowsOn
<1>2. \A n \in {x \in Instances : ~Contents!Stays(x)} : n = i
  BY <1>1
<1>. QED
  BY <1>2 DEF Contents!OthersUntouched

\* The slice of a file that is there is one of the heap.
LEMMA FileSlices ==
  ASSUME ContentsInv, NEW i \in DOMAIN owners,
         NEW p \in DOMAIN trees[owners[i].tree], trees[owners[i].tree][p] # 0
  PROVE  trees[owners[i].tree][p] \in DOMAIN slices
BY OwnersAre, NodesAre

\* Of the heaps that SetAll leaves, a tree that an owner had and one has still,
\* with the slices in it.
LEMMA SetAllTree ==
  ASSUME ContentsInv, NEW os, NEW nt, NEW na, NEW ns, Contents!SetAll(os, nt, na, ns),
         DOMAIN ns \cap DOMAIN slices = {},
         NEW x \in DOMAIN owners, NEW y \in DOMAIN os, os[y].tree = owners[x].tree,
         owners[x].tree \notin DOMAIN nt, NEW t, t = owners[x].tree
  PROVE  /\ trees'[t] = trees[t]
         /\ \A p \in DOMAIN trees[t] : trees[t][p] # 0 => slices'[trees[t][p]] = slices[trees[t][p]]
<1>1. /\ trees' = Contents!Keep(Contents!Merged(nt, trees), {os[i].tree : i \in DOMAIN os})
      /\ calls' = calls
      /\ slices' = Contents!Keep(Contents!Merged(ns, slices), Contents!SliceRefs(trees', calls))
  BY DEF Contents!SetAll
<1>2. t \in DOMAIN trees /\ t \in {os[i].tree : i \in DOMAIN os}
  BY OwnersAre
<1>3. trees'[t] = trees[t] /\ t \in DOMAIN trees'
  <2>1. Contents!Merged(nt, trees)[t] = trees[t]
    BY <1>2 DEF Contents!Merged
  <2>. QED
    BY <1>1, <1>2, <2>1, KeepIs
<1>4. ASSUME NEW p \in DOMAIN trees[t], trees[t][p] # 0
      PROVE  slices'[trees[t][p]] = slices[trees[t][p]]
  <2> DEFINE s == trees[t][p]
  <2>1. s \in DOMAIN slices
    BY <1>4, FileSlices
  <2>2. s \in Contents!SliceRefs(trees', calls)
    BY <1>3, <1>4, RefsAre
  <2>. HIDE DEF s
  <2>3. Contents!Merged(ns, slices)[s] = slices[s]
    BY <2>1 DEF Contents!Merged
  <2>4. slices'[s] = slices[s]
    BY <1>1, <2>2, <2>3, KeepIs
  <2>. QED
    BY <2>4 DEF s
<1>. QED
  BY <1>3, <1>4

\* The array that an owner had and one has still.
LEMMA SetAllArray ==
  ASSUME ContentsInv, NEW os, NEW nt, NEW na, NEW ns, Contents!SetAll(os, nt, na, ns),
         NEW x \in DOMAIN owners, NEW y \in DOMAIN os,
         os[y].snapshots.array = owners[x].snapshots.array,
         owners[x].snapshots.array \notin DOMAIN na
  PROVE  arrays'[owners[x].snapshots.array] = arrays[owners[x].snapshots.array]
<1> DEFINE a == owners[x].snapshots.array
<1>1. arrays' = Contents!Keep(Contents!Merged(na, arrays), {os[i].snapshots.array : i \in DOMAIN os})
  BY DEF Contents!SetAll
<1>2. a \in DOMAIN arrays /\ a \in {os[i].snapshots.array : i \in DOMAIN os} /\ a \notin DOMAIN na
  BY OwnersAre
<1>. HIDE DEF a
<1>3. Contents!Merged(na, arrays)[a] = arrays[a]
  BY <1>2 DEF Contents!Merged
<1>4. arrays'[a] = arrays[a]
  BY <1>1, <1>2, <1>3, KeepIs
<1>. QED
  BY <1>4 DEF a

\* Of the heaps that SetAll leaves: an owner that brings no new tree or array
\* shows what the one it was shows.
LEMMA SetAllShows ==
  ASSUME ContentsInv, NEW os, NEW nt, NEW na, NEW ns, Contents!SetAll(os, nt, na, ns),
         DOMAIN ns \cap DOMAIN slices = {},
         NEW x \in DOMAIN owners, NEW y \in DOMAIN os, os[y] = owners[x],
         owners[x].tree \notin DOMAIN nt, owners[x].snapshots.array \notin DOMAIN na
  PROVE  Shown(owners'[y], trees', arrays', slices') = Shown(owners[x], trees, arrays, slices)
<1> DEFINE o == owners[x]
<1>1. owners' = os
  BY DEF Contents!SetAll
<1>2. /\ trees'[o.tree] = trees[o.tree]
      /\ \A p \in DOMAIN trees[o.tree] :
           trees[o.tree][p] # 0 => slices'[trees[o.tree][p]] = slices[trees[o.tree][p]]
  BY SetAllTree
<1>3. arrays'[o.snapshots.array] = arrays[o.snapshots.array]
  BY SetAllArray
<1>. HIDE DEF o
<1>4. Shown(o, trees', arrays', slices') = Shown(o, trees, arrays, slices)
  BY <1>2, <1>3, ShownAlike
<1>. QED
  BY <1>1, <1>4 DEF o

\* All but one of the owners stay as they are.
LEMMA SetAllOthers ==
  ASSUME ContentsInv, NEW os, NEW nt, NEW na, NEW ns, Contents!SetAll(os, nt, na, ns), NEW i,
         DOMAIN ns \cap DOMAIN slices = {},
         \A n \in Instances \ {i} : n \in DOMAIN os <=> n \in DOMAIN owners,
         \A n \in DOMAIN owners \ {i} :
           /\ os[n] = owners[n]
           /\ owners[n].tree \notin DOMAIN nt /\ owners[n].snapshots.array \notin DOMAIN na
  PROVE  OnlyAt(i)
<1>1. owners' = os
  BY DEF Contents!SetAll
<1>2. ASSUME NEW n \in Instances \ {i}, n \in DOMAIN owners
      PROVE  ShowsOn(n)
  <2>1. n \in DOMAIN os /\ os[n] = owners[n]
        /\ owners[n].tree \notin DOMAIN nt /\ owners[n].snapshots.array \notin DOMAIN na
    BY <1>2
  <2>. QED
    BY <1>2, <2>1, SetAllShows DEF ShowsOn
<1>. QED
  BY <1>1, <1>2 DEF OnlyAt

\* The same without new trees, arrays or slices.
LEMMA SetOwnersOthers ==
  ASSUME ContentsInv, NEW os, Contents!SetOwners(os, <<>>, <<>>), NEW i,
         \A n \in Instances \ {i} : n \in DOMAIN os <=> n \in DOMAIN owners,
         \A n \in DOMAIN owners \ {i} : os[n] = owners[n]
  PROVE  OnlyAt(i)
<1>1. Contents!SetAll(os, <<>>, <<>>, <<>>)
  BY DEF Contents!SetOwners
<1>2. DOMAIN <<>> = {}
  BY EmptyHeap
<1>3. DOMAIN <<>> \cap DOMAIN slices = {}
  BY <1>2
<1>4. \A n \in DOMAIN owners \ {i} :
        /\ os[n] = owners[n]
        /\ owners[n].tree \notin DOMAIN <<>> /\ owners[n].snapshots.array \notin DOMAIN <<>>
  BY <1>2
<1>. QED
  BY <1>1, <1>3, <1>4, SetAllOthers

LEMMA EditedOthers ==
  ASSUME ContentsInv, NEW i, NEW h, Contents!SetOwners([owners EXCEPT ![i] = h], <<>>, <<>>)
  PROVE  OnlyAt(i)
<1> DEFINE os == [owners EXCEPT ![i] = h]
<1>1. DOMAIN os = DOMAIN owners /\ \A n \in DOMAIN owners \ {i} : os[n] = owners[n]
  OBVIOUS
<1>. HIDE DEF os
<1>2. Contents!SetOwners(os, <<>>, <<>>)
  BY DEF os
<1>. QED
  BY <1>1, <1>2, SetOwnersOthers

LEMMA CreateOwnerOthers ==
  ASSUME ContentsInv, NEW i \in Instances, NEW v, Contents!Create(i, v)
  PROVE  OnlyAt(i)
<1> DEFINE t == Contents!Fresh(trees)
           a == Contents!Fresh(arrays)
           h == [value |-> v, tree |-> t, backups |-> <<>>, snapshots |-> [array |-> a, len |-> 0]]
           os == Contents!With(owners, i, h)
           nt == Contents!Only(t, Contents!Only(Contents!Root, Contents!Directory))
           na == Contents!Only(a, <<>>)
<1>1. Contents!SetAll(os, nt, na, <<>>)
  BY DEF Contents!Create, Contents!New, Contents!SetOwners, Contents!NewTree, Contents!NewArray
<1>2. t \notin DOMAIN trees /\ a \notin DOMAIN arrays
  BY FreshIsNew DEF ContentsInv
<1>. HIDE DEF t, a, h
<1>3. DOMAIN nt = {t} /\ DOMAIN na = {a}
  BY OnlyIs
<1>4. DOMAIN os = DOMAIN owners \cup {i} /\ \A n \in DOMAIN owners \ {i} : os[n] = owners[n]
  BY DEF Contents!With, Contents!Merged, Contents!Only
<1>. HIDE DEF os, nt, na
<1>5. \A n \in DOMAIN owners \ {i} :
        /\ os[n] = owners[n]
        /\ owners[n].tree \notin DOMAIN nt /\ owners[n].snapshots.array \notin DOMAIN na
  BY <1>2, <1>3, <1>4, OwnersAre
<1>6. DOMAIN <<>> \cap DOMAIN slices = {}
  BY EmptyHeap
<1>7. \A n \in Instances \ {i} : n \in DOMAIN os <=> n \in DOMAIN owners
  BY <1>4
<1>. DEFINE ns == <<>>
<1>8. Contents!SetAll(os, nt, na, ns) /\ DOMAIN ns \cap DOMAIN slices = {}
  BY <1>1, <1>6
<1>. HIDE DEF ns
<1>. QED
  BY <1>5, <1>7, <1>8, SetAllOthers

LEMMA DeleteOwnerOthers ==
  ASSUME ContentsInv, NEW i \in Instances, Contents!Delete(i)
  PROVE  OnlyAt(i)
<1> DEFINE os == Contents!Without(owners, i)
<1>1. Contents!SetOwners(os, <<>>, <<>>)
  BY DEF Contents!Delete
<1>2. DOMAIN os = DOMAIN owners \ {i} /\ \A n \in DOMAIN owners \ {i} : os[n] = owners[n]
  BY DEF Contents!Without
<1>. HIDE DEF os
<1>. QED
  BY <1>1, <1>2, SetOwnersOthers

\* What the old name showed the new one shows.
LEMMA RenameOwnerOthers ==
  ASSUME ContentsInv, NEW i \in Instances, NEW j \in Instances, Contents!Rename(i, j)
  PROVE  Contents!OthersUntouched
<1> DEFINE os == Contents!With(Contents!Without(owners, i), j, owners[i])
<1>1. /\ i \in DOMAIN owners /\ j \notin DOMAIN owners
      /\ Contents!SetOwners(os, <<>>, <<>>)
  BY DEF Contents!Rename
<1>2. Contents!SetAll(os, <<>>, <<>>, <<>>) /\ owners' = os
  BY <1>1 DEF Contents!SetOwners, Contents!SetAll
<1>3. /\ DOMAIN os = (DOMAIN owners \ {i}) \cup {j} /\ os[j] = owners[i]
      /\ \A k \in DOMAIN owners \ {i} : os[k] = owners[k]
  BY <1>1 DEF Contents!With, Contents!Without, Contents!Merged, Contents!Only
<1>. HIDE DEF os
<1>4. DOMAIN <<>> = {} /\ DOMAIN <<>> \cap DOMAIN slices = {}
  BY EmptyHeap
<1>5. \A x \in DOMAIN owners : /\ owners[x].tree \notin DOMAIN <<>>
                               /\ owners[x].snapshots.array \notin DOMAIN <<>>
  BY <1>4
<1>6. ASSUME NEW x \in DOMAIN owners, NEW y \in DOMAIN os, os[y] = owners[x]
      PROVE  Contents!View(y)' = Contents!View(x)
  BY <1>2, <1>4, <1>5, <1>6, SetAllShows, ViewIs
<1>7. ASSUME NEW n \in Instances, ~Contents!Stays(n)
      PROVE  n \in {i, j}
  <2>1. CASE n \in DOMAIN owners \ {i}
    BY <1>1, <1>2, <1>3, <1>6, <1>7, <2>1 DEF Contents!Stays
  <2>2. CASE n \notin DOMAIN owners /\ n # j
    BY <1>2, <1>3, <1>7, <2>2 DEF Contents!Stays
  <2>. QED
    BY <2>1, <2>2
<1>8. Contents!View(j)' = Contents!View(i)
  BY <1>1, <1>3, <1>6
<1>9. i \notin DOMAIN owners' /\ j \in DOMAIN owners'
  BY <1>1, <1>2, <1>3
<1>. SUFFICES ASSUME NEW x \in Instances, ~Contents!Stays(x),
                     NEW y \in Instances, ~Contents!Stays(y), x # y
              PROVE  /\ i \in {x, y} /\ i \in DOMAIN owners /\ i \notin DOMAIN owners'
                     /\ j \in {x, y} /\ j \notin DOMAIN owners /\ j \in DOMAIN owners'
                     /\ Contents!View(j)' = Contents!View(i)
  BY Zenon DEF Contents!OthersUntouched
<1>10. i \in {x, y} /\ j \in {x, y}
  BY <1>7
<1>. QED
  BY <1>1, <1>8, <1>9, <1>10

LEMMA CloneOthers ==
  ASSUME ContentsInv, NEW i \in Instances, NEW j \in Instances, Contents!CloneInstance(i, j)
  PROVE  OnlyAt(j)
<1> DEFINE t == Contents!Fresh(trees)
           a == Contents!Fresh(arrays)
           h == [owners[i] EXCEPT !.tree = t, !.backups = <<>>, !.snapshots.array = a]
           tree == trees[owners[i].tree]
           files == {p \in DOMAIN tree : tree[p] # 0}
           copies == Contents!Copies(tree)
           os == Contents!With(owners, j, h)
           nt == Contents!Only(t, Contents!Merged(copies, tree))
           na == Contents!Only(a, Contents!List(i))
           new == {copies[p] : p \in DOMAIN copies}
           ns == [n \in new |-> slices[tree[CHOOSE p \in DOMAIN copies : copies[p] = n]]]
<1>1. i \in DOMAIN owners /\ j \notin DOMAIN owners
  BY DEF Contents!CloneInstance
<1>2. t \notin DOMAIN trees /\ a \notin DOMAIN arrays
  BY FreshIsNew DEF ContentsInv
<1>3. Contents!SetAll(os, nt, na, ns)
  BY <1>2 DEF Contents!CloneInstance, Contents!ClonedArray, Contents!NewTree, Contents!NewArray
<1>. HIDE DEF t, a, h
<1>4. Rooted(tree)
  BY <1>1, OwnersAre
<1>5. PICK n \in Nat : copies \in [files -> (1 .. n) \ DOMAIN slices]
  BY <1>4, CopiesAre
<1>. HIDE DEF copies
<1>6. DOMAIN ns \cap DOMAIN slices = {}
  BY <1>5
<1>7. DOMAIN nt = {t} /\ DOMAIN na = {a}
  BY OnlyIs
<1>8. DOMAIN os = DOMAIN owners \cup {j} /\ \A k \in DOMAIN owners \ {j} : os[k] = owners[k]
  BY DEF Contents!With, Contents!Merged, Contents!Only
<1>. HIDE DEF os, nt, na, ns
<1>9. \A k \in DOMAIN owners \ {j} :
        /\ os[k] = owners[k]
        /\ owners[k].tree \notin DOMAIN nt /\ owners[k].snapshots.array \notin DOMAIN na
  BY <1>2, <1>7, <1>8, OwnersAre
<1>. QED
  BY <1>3, <1>6, <1>8, <1>9, SetAllOthers

\* A list is changed in its own array, or put in one that is new.
LEMMA SetListOthers ==
  ASSUME ContentsInv, NEW i \in DOMAIN owners, NEW a, NEW cells, NEW len,
         Contents!SetList(i, a, cells, len),
         a = owners[i].snapshots.array \/ a \notin DOMAIN arrays
  PROVE  OnlyAt(i)
<1> DEFINE os == [owners EXCEPT ![i].snapshots = [array |-> a, len |-> len]]
           na == Contents!Only(a, cells)
<1>1. Contents!SetAll(os, <<>>, na, <<>>)
  BY DEF Contents!SetList, Contents!SetOwners
<1>2. DOMAIN os = DOMAIN owners /\ \A n \in DOMAIN owners \ {i} : os[n] = owners[n]
  OBVIOUS
<1>3. DOMAIN na = {a}
  BY OnlyIs
<1>. HIDE DEF os, na
<1>4. DOMAIN <<>> = {} /\ DOMAIN <<>> \cap DOMAIN slices = {}
  BY EmptyHeap
<1>5. ASSUME NEW n \in DOMAIN owners \ {i}
      PROVE  owners[n].snapshots.array # a
  <2>1. owners[n].snapshots.array \in DOMAIN arrays
    BY OwnersAre
  <2>2. owners[n].snapshots.array # owners[i].snapshots.array
    BY DEF ContentsInv, Alone
  <2>. QED
    BY <2>1, <2>2
<1>6. \A n \in DOMAIN owners \ {i} :
        /\ os[n] = owners[n]
        /\ owners[n].tree \notin DOMAIN <<>> /\ owners[n].snapshots.array \notin DOMAIN na
  BY <1>2, <1>3, <1>4, <1>5
<1>7. \A n \in Instances \ {i} : n \in DOMAIN os <=> n \in DOMAIN owners
  BY <1>2
<1>. DEFINE none == <<>>
<1>8. Contents!SetAll(os, none, na, none) /\ DOMAIN none \cap DOMAIN slices = {}
  BY <1>1, <1>4
<1>9. \A n \in DOMAIN owners \ {i} :
        /\ os[n] = owners[n]
        /\ owners[n].tree \notin DOMAIN none /\ owners[n].snapshots.array \notin DOMAIN na
  BY <1>6
<1>. HIDE DEF none
<1>. QED
  BY <1>7, <1>8, <1>9, SetAllOthers

\* A tree is changed for its owner, and a slice it gets is new.
LEMMA SetTreeOthers ==
  ASSUME ContentsInv, NEW i \in DOMAIN owners, NEW t, NEW ns, Contents!SetTree(i, t, ns, calls),
         DOMAIN ns \cap DOMAIN slices = {}
  PROVE  OnlyAt(i)
<1> DEFINE r == owners[i].tree
<1>1. /\ trees' = [trees EXCEPT ![r] = t] /\ UNCHANGED <<owners, arrays>>
      /\ slices' = Contents!Keep(Contents!Merged(ns, slices), Contents!SliceRefs(trees', calls))
  BY DEF Contents!SetTree
<1>2. ASSUME NEW n \in DOMAIN owners \ {i}
      PROVE  ShowsOn(n)
  <2> DEFINE o == owners[n]
  <2>1. o.tree \in DOMAIN trees /\ o.tree # r
    BY OwnersAre DEF ContentsInv, Alone
  <2>2. trees'[o.tree] = trees[o.tree] /\ o.tree \in DOMAIN trees'
    BY <1>1, <2>1
  <2>3. ASSUME NEW p \in DOMAIN trees[o.tree], trees[o.tree][p] # 0
        PROVE  slices'[trees[o.tree][p]] = slices[trees[o.tree][p]]
    <3> DEFINE s == trees[o.tree][p]
    <3>1. s \in DOMAIN slices
      BY <2>3, FileSlices
    <3>2. s \in Contents!SliceRefs(trees', calls)
      BY <2>2, <2>3, RefsAre
    <3>. HIDE DEF s
    <3>3. Contents!Merged(ns, slices)[s] = slices[s]
      BY <3>1 DEF Contents!Merged
    <3>4. slices'[s] = slices[s]
      BY <1>1, <3>2, <3>3, KeepIs
    <3>. QED
      BY <3>4 DEF s
  <2>. HIDE DEF o
  <2>4. arrays'[o.snapshots.array] = arrays[o.snapshots.array]
    BY <1>1
  <2>5. Shown(o, trees', arrays', slices') = Shown(o, trees, arrays, slices)
    BY <2>2, <2>3, <2>4, ShownAlike
  <2>. QED
    BY <1>1, <2>5 DEF o, ShowsOn
<1>. QED
  BY <1>1, <1>2 DEF OnlyAt

\* A download or a restoration takes nothing away from what owners hold.
LEMMA CallsOthers ==
  ASSUME ContentsInv, UNCHANGED <<owners, trees, arrays>>,
         \A n \in DOMAIN owners : \A p \in DOMAIN trees[owners[n].tree] :
           trees[owners[n].tree][p] # 0
             => slices'[trees[owners[n].tree][p]] = slices[trees[owners[n].tree][p]]
  PROVE  /\ owners' = owners /\ \A n \in DOMAIN owners : ShowsOn(n)
         /\ \A i : OnlyAt(i)
         /\ Contents!OthersUntouched
<1>1. ASSUME NEW n \in DOMAIN owners
      PROVE  ShowsOn(n)
  <2> DEFINE o == owners[n]
  <2>1. \A p \in DOMAIN trees[o.tree] : trees[o.tree][p] # 0
           => slices'[trees[o.tree][p]] = slices[trees[o.tree][p]]
    OBVIOUS
  <2>2. trees'[o.tree] = trees[o.tree] /\ arrays'[o.snapshots.array] = arrays[o.snapshots.array]
    OBVIOUS
  <2>. HIDE DEF o
  <2>3. Shown(o, trees', arrays', slices') = Shown(o, trees, arrays, slices)
    BY <2>1, <2>2, ShownAlike
  <2>. QED
    BY <2>3 DEF o, ShowsOn
<1>2. \A i : OnlyAt(i)
  BY <1>1 DEF OnlyAt
<1>. QED
  BY <1>1, <1>2, OneChanges

LEMMA ImportOthers ==
  ASSUME ContentsInv, NEW c \in Calls, NEW j \in Instances, Contents!ImportInstance(c, j)
  PROVE  OnlyAt(j)
<1>1. slices' = slices
  BY DEF Contents!ImportInstance
<1>2. CASE j \in DOMAIN owners
  <2>1. UNCHANGED <<owners, trees, arrays>>
    BY <1>2 DEF Contents!ImportInstance
  <2>. QED
    BY <1>1, <2>1, CallsOthers
<1>3. CASE j \notin DOMAIN owners
  <2> DEFINE t == Contents!Fresh(trees)
             a == Contents!Fresh(arrays)
             h == [value |-> calls[c].blob, tree |-> t, backups |-> <<>>,
                   snapshots |-> [array |-> a, len |-> 0]]
             tree == Contents!Only(Contents!Root, Contents!Directory)
  <2>1. /\ owners' = Contents!With(owners, j, h)
        /\ trees' = Contents!With(trees, t, tree)
        /\ arrays' = Contents!With(arrays, a, <<>>)
    BY <1>3 DEF Contents!ImportInstance, Contents!NewTree, Contents!NewArray
  <2>2. t \notin DOMAIN trees /\ a \notin DOMAIN arrays
    BY FreshIsNew DEF ContentsInv
  <2>. HIDE DEF t, a, h, tree
  <2>3. /\ DOMAIN owners' = DOMAIN owners \cup {j}
        /\ \A n \in DOMAIN owners \ {j} : owners'[n] = owners[n]
    BY <2>1 DEF Contents!With, Contents!Merged, Contents!Only
  <2>4. \A x \in DOMAIN trees : trees'[x] = trees[x]
    BY <2>1, <2>2 DEF Contents!With, Contents!Merged, Contents!Only
  <2>5. \A x \in DOMAIN arrays : arrays'[x] = arrays[x]
    BY <2>1, <2>2 DEF Contents!With, Contents!Merged, Contents!Only
  <2>6. ASSUME NEW n \in DOMAIN owners \ {j}
        PROVE  ShowsOn(n)
    <3> DEFINE o == owners[n]
    <3>1. o.tree \in DOMAIN trees /\ o.snapshots.array \in DOMAIN arrays
      BY OwnersAre
    <3>2. owners'[n] = o
      BY <2>3
    <3>. HIDE DEF o
    <3>3. trees'[o.tree] = trees[o.tree] /\ arrays'[o.snapshots.array] = arrays[o.snapshots.array]
      BY <2>4, <2>5, <3>1
    <3>4. Shown(o, trees', arrays', slices') = Shown(o, trees, arrays, slices)
      BY <1>1, <3>3, ShownAlike
    <3>. QED
      BY <3>2, <3>4 DEF o, ShowsOn
  <2>. QED
    BY <2>3, <2>6 DEF OnlyAt
<1>. QED
  BY <1>2, <1>3

LEMMA InstanceStepOthers ==
  ASSUME ContentsInv, Contents!InstanceStep \/ Contents!VolumeStep
  PROVE  Contents!OthersUntouched
<1>1. ASSUME NEW i \in Instances, NEW v \in Texts, Contents!UpdateVolume(i, v)
      PROVE  Contents!OthersUntouched
  <2>1. Contents!SetOwners([owners EXCEPT ![i] = [owners[i] EXCEPT !.value = v]], <<>>, <<>>)
    BY <1>1 DEF Contents!UpdateVolume
  <2>. QED
    BY <2>1, EditedOthers, OneChanges
<1>2. ASSUME NEW i \in Instances, NEW v, Contents!Create(i, v) \/ Contents!Delete(i)
      PROVE  Contents!OthersUntouched
  <2>1. OnlyAt(i)
    BY <1>2, CreateOwnerOthers, DeleteOwnerOthers
  <2>. QED
    BY <2>1, OneChanges
<1>3. ASSUME NEW i \in Instances, NEW j \in Instances, Contents!CloneInstance(i, j)
      PROVE  Contents!OthersUntouched
  <2>1. OnlyAt(j)
    BY <1>3, CloneOthers
  <2>. QED
    BY <2>1, OneChanges
<1>. QED
  BY <1>1, <1>2, <1>3, RenameOwnerOthers
     DEF Contents!InstanceStep, Contents!VolumeStep, Contents!RebuildInstance

LEMMA FileStepOthers ==
  ASSUME ContentsInv, Contents!FileStep
  PROVE  Contents!OthersUntouched
<1>1. ASSUME NEW i \in Instances, NEW p, NEW v, Contents!PushFile(i, p, v)
      PROVE  Contents!OthersUntouched
  <2> DEFINE s == Contents!Fresh(slices)
             ns == Contents!Only(s, <<v, v>>)
             t == Contents!With(Contents!Tree(i), p, s)
  <2>1. i \in DOMAIN owners /\ Contents!SetTree(i, t, ns, calls)
    BY <1>1 DEF Contents!PushFile, Contents!NewSlice
  <2>2. s \notin DOMAIN slices
    BY FreshIsNew DEF ContentsInv
  <2>. HIDE DEF s
  <2>3. DOMAIN ns = {s}
    BY OnlyIs
  <2>. HIDE DEF ns, t
  <2>4. DOMAIN ns \cap DOMAIN slices = {}
    BY <2>2, <2>3
  <2>. QED
    BY <2>1, <2>4, SetTreeOthers, OneChanges
<1>2. DOMAIN <<>> \cap DOMAIN slices = {}
  BY EmptyHeap
<1>3. ASSUME NEW i \in Instances, NEW p, Contents!MakeDirectory(i, p) \/ Contents!DeleteFile(i, p)
      PROVE  Contents!OthersUntouched
  <2>1. i \in DOMAIN owners /\ \E t : Contents!SetTree(i, t, <<>>, calls)
    BY <1>3 DEF Contents!MakeDirectory, Contents!DeleteFile
  <2>. QED
    BY <1>2, <2>1, SetTreeOthers, OneChanges
<1>4. ASSUME UNCHANGED <<owners, trees, arrays, slices>>
      PROVE  Contents!OthersUntouched
  BY <1>4, CallsOthers
<1>5. ASSUME NEW c \in Calls, Contents!EndPull(c)
      PROVE  Contents!OthersUntouched
  <2>1. /\ slices' = Contents!Keep(slices, Contents!SliceRefs(trees, calls'))
        /\ UNCHANGED <<owners, trees, arrays>>
    BY <1>5 DEF Contents!EndPull
  <2>2. ASSUME NEW n \in DOMAIN owners, NEW p \in DOMAIN trees[owners[n].tree],
               trees[owners[n].tree][p] # 0
        PROVE  slices'[trees[owners[n].tree][p]] = slices[trees[owners[n].tree][p]]
    <3> DEFINE t == owners[n].tree
               s == trees[t][p]
    <3>1. t \in DOMAIN trees
      BY OwnersAre
    <3>2. s \in Contents!SliceRefs(trees, calls')
      BY <2>2, <3>1, RefsAre
    <3>. HIDE DEF s, t
    <3>3. slices'[s] = slices[s]
      BY <2>1, <3>2, KeepIs
    <3>. QED
      BY <3>3 DEF s, t
  <2>. QED
    BY <2>1, <2>2, CallsOthers
<1>6. ASSUME NEW i \in Instances, NEW p, NEW c \in Calls,
             Contents!PullFile(c, i, p) \/ Contents!StreamBlock(c)
      PROVE  Contents!OthersUntouched
  BY <1>4, <1>6 DEF Contents!PullFile, Contents!StreamBlock
<1>7. ASSUME NEW c \in Calls, Contents!StreamBlock(c)
      PROVE  Contents!OthersUntouched
  BY <1>4, <1>7 DEF Contents!StreamBlock
<1>. QED
  BY <1>1, <1>3, <1>5, <1>6, <1>7 DEF Contents!FileStep

LEMMA SnapshotStepOthers ==
  ASSUME ContentsInv, Contents!SnapshotStep
  PROVE  Contents!OthersUntouched
<1>1. ASSUME NEW i, NEW s, Contents!Has(i, s)
      PROVE  i \in DOMAIN owners
  BY <1>1 DEF Contents!Has
<1>2. ASSUME NEW i \in Instances, NEW s, Contents!CreateSnapshot(i, s)
      PROVE  Contents!OthersUntouched
  <2>1. i \in DOMAIN owners /\ Contents!Appended(i, s)
    BY <1>2 DEF Contents!CreateSnapshot
  <2>2. Contents!Fresh(arrays) \notin DOMAIN arrays
    BY FreshIsNew DEF ContentsInv
  <2>3. \E a, cells, len : /\ Contents!SetList(i, a, cells, len)
                           /\ a = owners[i].snapshots.array \/ a \notin DOMAIN arrays
    BY <2>1, <2>2 DEF Contents!Appended
  <2>. QED
    BY <2>1, <2>3, SetListOthers, OneChanges
<1>3. ASSUME NEW i \in Instances, NEW s, NEW t,
             Contents!RenameSnapshot(i, s, t)
      PROVE  Contents!OthersUntouched
  <2>1. i \in DOMAIN owners
    BY <1>1, <1>3 DEF Contents!RenameSnapshot
  <2>2. \E cells, len : Contents!SetList(i, owners[i].snapshots.array, cells, len)
    BY <1>3 DEF Contents!RenameSnapshot
  <2>. QED
    BY <2>1, <2>2, SetListOthers, OneChanges
<1>4. ASSUME NEW i \in Instances, NEW s, Contents!DeleteSnapshot(i, s)
      PROVE  Contents!OthersUntouched
  <2>1. i \in DOMAIN owners
    BY <1>1, <1>4 DEF Contents!DeleteSnapshot
  <2>2. \E cells, len : Contents!SetList(i, owners[i].snapshots.array, cells, len)
    BY <1>4 DEF Contents!DeleteSnapshot
  <2>. QED
    BY <2>1, <2>2, SetListOthers, OneChanges
<1>. QED
  BY <1>2, <1>3, <1>4 DEF Contents!SnapshotStep

LEMMA BackupStepOthers ==
  ASSUME ContentsInv, Contents!BackupStep
  PROVE  Contents!OthersUntouched
<1>1. ASSUME NEW i \in Instances, NEW bs, Contents!SetOwners([owners EXCEPT ![i].backups = bs], <<>>, <<>>)
      PROVE  Contents!OthersUntouched
  <2>1. Contents!SetOwners([owners EXCEPT ![i] = [owners[i] EXCEPT !.backups = bs]], <<>>, <<>>)
    BY <1>1
  <2>. QED
    BY <2>1, EditedOthers, OneChanges
<1>2. ASSUME NEW i \in Instances, NEW b,
             Contents!CreateInstanceBackup(i, b) \/ Contents!DeleteInstanceBackup(i, b)
      PROVE  Contents!OthersUntouched
  BY <1>1, <1>2 DEF Contents!CreateInstanceBackup, Contents!DeleteInstanceBackup
<1>3. ASSUME NEW i \in Instances, NEW b, NEW c \in Calls, Contents!RestoreInstanceBackup(c, i, b)
      PROVE  Contents!OthersUntouched
  <2>1. UNCHANGED <<owners, trees, arrays, slices>>
    BY <1>3 DEF Contents!RestoreInstanceBackup
  <2>. QED
    BY <2>1, CallsOthers
<1>4. ASSUME NEW c \in Calls, NEW j \in Instances, Contents!ImportInstance(c, j)
      PROVE  Contents!OthersUntouched
  <2>1. OnlyAt(j)
    BY <1>4, ImportOthers
  <2>. QED
    BY <2>1, OneChanges
<1>. QED
  BY <1>2, <1>3, <1>4 DEF Contents!BackupStep

\* Every step of the contents' side, and of the others.
LEMMA OthersStay ==
  ContentsInv /\ [FakeNext]_<<side, vars, inside, versions>> => Contents!OthersUntouched
<1>. SUFFICES ASSUME ContentsInv, [FakeNext]_<<side, vars, inside, versions>>
              PROVE  Contents!OthersUntouched
  OBVIOUS
<1>1. CASE Contents!Next
  BY <1>1, InstanceStepOthers, FileStepOthers, SnapshotStepOthers, BackupStepOthers DEF Contents!Next
<1>2. CASE UNCHANGED inside
  <2>1. UNCHANGED <<owners, trees, arrays, slices>>
    BY <1>2 DEF inside
  <2>. QED
    BY <2>1, CallsOthers
<1>. QED
  BY <1>1, <1>2 DEF FakeNext

-----------------------------------------------------------------------------
(* What projects show, and no step loses.                                  *)

Owns(p, fs, feature) == p = default \/ feature \in fs

\* Of a project with features fs, a space sp, and volumes among vs.
Holds(p, fs, sp, vs, t) ==
  \/ \E i \in DOMAIN sp.instances : t = <<"instance", i>>
  \/ Owns(p, fs, "profiles") /\ \E n \in DOMAIN sp.profiles \ {default} : t = <<"profile", n>>
  \/ Owns(p, fs, "images") /\ \E f \in DOMAIN sp.images : t = <<"image", f>>
  \/ Owns(p, fs, "networks") /\ \E n \in DOMAIN sp.networks : t = <<"network", n>>
  \/ Owns(p, fs, "networks") /\ \E a \in sp.acls : t = <<"acl", a>>
  \/ Owns(p, fs, "volumes") /\ \E v \in vs : v[2] = p /\ t = <<"volume", v>>

LEMMA OwnIs ==
  \A p \in DOMAIN projects : \A feature : Owner(p, feature) = p <=> Owns(p, projects[p], feature)
BY DEF Owner, Owns

\* The things are those that projects show.
ThingsAre ==
  \A x : x \in Things <=>
    \E p \in DOMAIN projects : \E t : x = <<p, t>> /\ Holds(p, projects[p], spaces[p], volumes, t)

LEMMA ThingIs == ThingsAre
<1> DEFINE Own(p, feature, S) == IF Owner(p, feature) = p THEN S ELSE {}
           of(p) ==
             LET sp == spaces[p] IN
               {<<"instance", i>> : i \in DOMAIN sp.instances}
               \cup Own(p, "profiles", {<<"profile", n>> : n \in DOMAIN sp.profiles \ {default}})
               \cup Own(p, "images", {<<"image", f>> : f \in DOMAIN sp.images})
               \cup Own(p, "networks", {<<"network", n>> : n \in DOMAIN sp.networks})
               \cup Own(p, "networks", {<<"acl", a>> : a \in sp.acls})
               \cup Own(p, "volumes", {<<"volume", v>> : v \in {w \in volumes : w[2] = p}})
<1>1. Things = UNION {{<<p, t>> : t \in of(p)} : p \in DOMAIN projects}
  BY DEF Things
<1>2. ASSUME NEW p \in DOMAIN projects, NEW t
      PROVE  t \in of(p) <=> Holds(p, projects[p], spaces[p], volumes, t)
  <2>1. \A feature, S : t \in Own(p, feature, S) <=> Owns(p, projects[p], feature) /\ t \in S
    BY OwnIs
  <2>. HIDE DEF Own
  <2>2. t \in of(p) <=>
          \/ t \in {<<"instance", i>> : i \in DOMAIN spaces[p].instances}
          \/ t \in Own(p, "profiles", {<<"profile", n>> : n \in DOMAIN spaces[p].profiles \ {default}})
          \/ t \in Own(p, "images", {<<"image", f>> : f \in DOMAIN spaces[p].images})
          \/ t \in Own(p, "networks", {<<"network", n>> : n \in DOMAIN spaces[p].networks})
          \/ t \in Own(p, "networks", {<<"acl", a>> : a \in spaces[p].acls})
          \/ t \in Own(p, "volumes", {<<"volume", v>> : v \in {w \in volumes : w[2] = p}})
    OBVIOUS
  <2>. HIDE DEF of
  <2>3. t \in of(p) <=>
          \/ t \in {<<"instance", i>> : i \in DOMAIN spaces[p].instances}
          \/ /\ Owns(p, projects[p], "profiles")
             /\ t \in {<<"profile", n>> : n \in DOMAIN spaces[p].profiles \ {default}}
          \/ /\ Owns(p, projects[p], "images")
             /\ t \in {<<"image", f>> : f \in DOMAIN spaces[p].images}
          \/ /\ Owns(p, projects[p], "networks")
             /\ t \in {<<"network", n>> : n \in DOMAIN spaces[p].networks}
          \/ Owns(p, projects[p], "networks") /\ t \in {<<"acl", a>> : a \in spaces[p].acls}
          \/ /\ Owns(p, projects[p], "volumes")
             /\ t \in {<<"volume", v>> : v \in {w \in volumes : w[2] = p}}
    BY <2>1, <2>2
  <2>. QED
    BY <2>3 DEF Holds
<1>. HIDE DEF of
<1>. QED
  BY <1>1, <1>2 DEF ThingsAre

\* The things that there may be.
MayBe ==
  ({"instance"} \X Instances) \cup ({"profile"} \X ProfileNames) \cup ({"image"} \X AllFingerprints)
  \cup ({"network"} \X Networks) \cup ({"acl"} \X ACLs)
  \cup ({"volume"} \X (Pools \X Projects \X Volumes))

\* The volumes that there may be.
LEMMA PlacesFinite == IsFiniteSet(Pools \X Projects \X Volumes)
<1> DEFINE S == Pools \X Projects \X Volumes
           T == (Pools \X Projects) \X Volumes
           f == [v \in S |-> <<<<v[1], v[2]>>, v[3]>>]
<1>1. IsFiniteSet(T)
  <2>1. IsFiniteSet(Projects)
    BY NamesAreFinite, FS_AddElement DEF Projects
  <2>. QED
    BY <2>1, NamesAreFinite, FS_Product
<1>2. f \in [S -> T]
  OBVIOUS
<1>3. ASSUME NEW v \in S, NEW w \in S, f[v] = f[w]
      PROVE  v = w
  <2>1. v = <<v[1], v[2], v[3]>> /\ w = <<w[1], w[2], w[3]>>
    OBVIOUS
  <2>2. v[1] = w[1] /\ v[2] = w[2] /\ v[3] = w[3]
    BY <1>3
  <2>. QED
    BY <2>1, <2>2
<1>. HIDE DEF f, S, T
<1>4. f \in Injection(S, T)
  BY <1>2, <1>3 DEF Injection, IsInjective
<1>5. IsFiniteSet(S)
  BY <1>1, <1>4, FS_Injection
<1>. QED
  BY <1>5 DEF S

LEMMA MayBeFinite == IsFiniteSet(Projects \X MayBe)
<1>1. \A x, S : IsFiniteSet(S) => IsFiniteSet({x} \X S)
  BY FS_Singleton, FS_Product
<1>2. IsFiniteSet(Projects) /\ IsFiniteSet(ProfileNames)
  BY NamesAreFinite, FS_AddElement DEF Projects, ProfileNames
<1>3. IsFiniteSet(AllFingerprints)
  <2>1. IsFiniteSet(Instances \X Seconds)
    BY NamesAreFinite, FS_Product
  <2>2. IsFiniteSet(Fingerprints \cup Catalog)
    BY NamesAreFinite, FS_Union
  <2>. QED
    BY <2>1, <2>2, FS_Union DEF AllFingerprints
<1>4. IsFiniteSet(Pools \X Projects \X Volumes)
  BY PlacesFinite
<1>5. /\ IsFiniteSet({"instance"} \X Instances) /\ IsFiniteSet({"profile"} \X ProfileNames)
      /\ IsFiniteSet({"image"} \X AllFingerprints) /\ IsFiniteSet({"network"} \X Networks)
      /\ IsFiniteSet({"acl"} \X ACLs) /\ IsFiniteSet({"volume"} \X (Pools \X Projects \X Volumes))
  BY <1>1, <1>2, <1>3, <1>4, NamesAreFinite
<1>6. \A S, T : IsFiniteSet(S) /\ IsFiniteSet(T) => IsFiniteSet(S \cup T)
  BY FS_Union
<1>7. IsFiniteSet(MayBe)
  BY <1>5, <1>6 DEF MayBe
<1>. QED
  BY <1>2, <1>7, FS_Product

LEMMA ThingsFinite == DaemonInv => IsFiniteSet(Things)
<1>. SUFFICES ASSUME DaemonInv
              PROVE  IsFiniteSet(Things)
  OBVIOUS
<1>1. ASSUME NEW p \in DOMAIN projects, NEW t, Holds(p, projects[p], spaces[p], volumes, t)
      PROVE  p \in Projects /\ t \in MayBe
  <2>1. p \in Projects
    BY DEF DaemonInv, Maps
  <2>2. /\ DOMAIN spaces[p].instances \subseteq Instances
        /\ DOMAIN spaces[p].profiles \subseteq ProfileNames
        /\ DOMAIN spaces[p].images \subseteq AllFingerprints
        /\ DOMAIN spaces[p].networks \subseteq Networks
        /\ spaces[p].acls \subseteq ACLs
    <3>1. \A S, T : \A f \in Maps(S, T) : DOMAIN f \subseteq S
      BY DEF Maps
    <3>. QED
      BY <2>1, <3>1, SpaceIs
  <2>3. volumes \subseteq Pools \X Projects \X Volumes
    <3>1. DOMAIN projects \subseteq Projects
      BY DEF DaemonInv, Maps
    <3>. QED
      BY <3>1 DEF DaemonInv, StorageInv
  <2>4. t \in MayBe
    BY <1>1, <2>2, <2>3 DEF Holds, MayBe
  <2>. QED
    BY <2>1, <2>4
<1>2. Things \subseteq Projects \X MayBe
  BY <1>1, ThingIs DEF ThingsAre
<1>. QED
  BY <1>2, MayBeFinite, FS_Subset

\* What is finite is counted, and one less without one.
LEMMA OneLess ==
  ASSUME NEW S, NEW T, NEW y, IsFiniteSet(S), IsFiniteSet(T), S \ {y} \subseteq T
  PROVE  Cardinality(T) >= Cardinality(S) - 1
<1>1. Cardinality(S \ {y}) <= Cardinality(T)
  BY FS_Subset
<1>2. Cardinality(S \ {y}) = IF y \in S THEN Cardinality(S) - 1 ELSE Cardinality(S)
  BY FS_RemoveElement
<1>3. Cardinality(S) \in Nat /\ Cardinality(T) \in Nat /\ Cardinality(S \ {y}) \in Nat
  BY FS_RemoveElement, FS_CardinalityType
<1>. QED
  BY <1>1, <1>2, <1>3

\* What a project's space shows, the other does too, but for y.
Keeps(q, sp, new, y) ==
  /\ \A i \in DOMAIN sp.instances : i \in DOMAIN new.instances \/ y = <<q, <<"instance", i>>>>
  /\ \A n \in DOMAIN sp.profiles : n \in DOMAIN new.profiles \/ y = <<q, <<"profile", n>>>>
  /\ \A f \in DOMAIN sp.images : f \in DOMAIN new.images \/ y = <<q, <<"image", f>>>>
  /\ \A n \in DOMAIN sp.networks : n \in DOMAIN new.networks \/ y = <<q, <<"network", n>>>>
  /\ \A a \in sp.acls : a \in new.acls \/ y = <<q, <<"acl", a>>>>

\* A step of no project that takes y away at most.
KeepsAllBut(y) ==
  /\ projects' = projects
  /\ \A q \in Projects : Keeps(q, spaces[q], spaces'[q], y)
  /\ \A v \in volumes : v \in volumes' \/ y = <<v[2], <<"volume", v>>>>

KeepsAlmostAll == \E y : KeepsAllBut(y)

LEMMA LosesOne ==
  ASSUME DaemonInv, DaemonInv', KeepsAlmostAll
  PROVE  LosesNothing
<1>1. PICK y : KeepsAllBut(y)
  BY DEF KeepsAlmostAll
<1>2. ThingsAre /\ ThingsAre'
  BY ThingIs, PTL
<1>3. IsFiniteSet(Things) /\ IsFiniteSet(Things')
  <2>1. IsFiniteSet(Things)'
    BY ThingsFinite, PTL
  <2>. QED
    BY <2>1, ThingsFinite
<1>4. projects' = projects
  BY <1>1 DEF KeepsAllBut
<1>5. ASSUME NEW p \in DOMAIN projects, NEW t, Holds(p, projects[p], spaces[p], volumes, t),
             y # <<p, t>>
      PROVE  Holds(p, projects[p], spaces'[p], volumes', t)
  <2>1. p \in Projects
    BY DEF DaemonInv, Maps
  <2>2. Keeps(p, spaces[p], spaces'[p], y)
    BY <1>1, <2>1 DEF KeepsAllBut
  <2>3. \A v \in volumes : v \in volumes' \/ y = <<v[2], <<"volume", v>>>>
    BY <1>1 DEF KeepsAllBut
  <2>. QED
    BY <1>5, <2>2, <2>3 DEF Holds, Keeps
<1>6. Things \ {y} \subseteq Things'
  <2> SUFFICES ASSUME NEW x \in Things, x # y
               PROVE  x \in Things'
    OBVIOUS
  <2>1. PICK p \in DOMAIN projects : \E t : x = <<p, t>> /\ Holds(p, projects[p], spaces[p], volumes, t)
    BY <1>2 DEF ThingsAre
  <2>2. PICK t : x = <<p, t>> /\ Holds(p, projects[p], spaces[p], volumes, t)
    BY <2>1
  <2>3. Holds(p, projects'[p], spaces'[p], volumes', t) /\ p \in DOMAIN projects'
    BY <1>4, <1>5, <2>2
  <2>. QED
    BY <1>2, <2>2, <2>3 DEF ThingsAre
<1>7. Cardinality(Things') >= Cardinality(Things) - 1
  BY <1>3, <1>6, OneLess
<1>. QED
  BY <1>4, <1>7 DEF LosesNothing

\* A step of a project takes nothing away, if nothing that is shown goes.
LEMMA LosesNone ==
  ASSUME DaemonInv, DaemonInv', NEW f \in Injection(Things, Things')
  PROVE  LosesNothing
<1>1. IsFiniteSet(Things) /\ IsFiniteSet(Things')
  <2>1. IsFiniteSet(Things)'
    BY ThingsFinite, PTL
  <2>. QED
    BY <2>1, ThingsFinite
<1>2. Cardinality(Things) <= Cardinality(Things')
  BY <1>1, FS_Injection
<1>3. Cardinality(Things) \in Nat /\ Cardinality(Things') \in Nat
  BY <1>1, FS_CardinalityType
<1>. QED
  BY <1>2, <1>3 DEF LosesNothing

\* Nothing is taken away from what stays the same.
LEMMA KeepsSame == ASSUME NEW q, NEW sp, NEW y PROVE Keeps(q, sp, sp, y)
BY DEF Keeps

\* A part of a space is replaced.
LEMMA KeepsPart ==
  ASSUME NEW sp, SpaceInv(sp), NEW f, NEW q, NEW x
  PROVE  /\ DOMAIN sp.instances \ {x} \subseteq DOMAIN f
              => Keeps(q, sp, [sp EXCEPT !.instances = f], <<q, <<"instance", x>>>>)
         /\ DOMAIN sp.profiles \ {x} \subseteq DOMAIN f
              => Keeps(q, sp, [sp EXCEPT !.profiles = f], <<q, <<"profile", x>>>>)
         /\ DOMAIN sp.images \ {x} \subseteq DOMAIN f
              => Keeps(q, sp, [sp EXCEPT !.images = f], <<q, <<"image", x>>>>)
         /\ DOMAIN sp.networks \ {x} \subseteq DOMAIN f
              => Keeps(q, sp, [sp EXCEPT !.networks = f], <<q, <<"network", x>>>>)
         /\ sp.acls \ {x} \subseteq f
              => Keeps(q, sp, [sp EXCEPT !.acls = f], <<q, <<"acl", x>>>>)
<1>. sp \in Space
  BY DEF SpaceInv
<1>1. ASSUME DOMAIN sp.instances \ {x} \subseteq DOMAIN f
      PROVE  Keeps(q, sp, [sp EXCEPT !.instances = f], <<q, <<"instance", x>>>>)
  BY <1>1 DEF Keeps, Space
<1>2. ASSUME DOMAIN sp.profiles \ {x} \subseteq DOMAIN f
      PROVE  Keeps(q, sp, [sp EXCEPT !.profiles = f], <<q, <<"profile", x>>>>)
  BY <1>2 DEF Keeps, Space
<1>3. ASSUME DOMAIN sp.images \ {x} \subseteq DOMAIN f
      PROVE  Keeps(q, sp, [sp EXCEPT !.images = f], <<q, <<"image", x>>>>)
  BY <1>3 DEF Keeps, Space
<1>4. ASSUME DOMAIN sp.networks \ {x} \subseteq DOMAIN f
      PROVE  Keeps(q, sp, [sp EXCEPT !.networks = f], <<q, <<"network", x>>>>)
  BY <1>4 DEF Keeps, Space
<1>5. ASSUME sp.acls \ {x} \subseteq f
      PROVE  Keeps(q, sp, [sp EXCEPT !.acls = f], <<q, <<"acl", x>>>>)
  BY <1>5 DEF Keeps, Space
<1>. QED
  BY <1>1, <1>2, <1>3, <1>4, <1>5

\* One space is replaced.
LEMMA SetSpaceKeeps ==
  ASSUME DaemonInv, NEW o \in Projects, NEW sp, NEW y, Keeps(o, spaces[o], sp, y),
         spaces' = [spaces EXCEPT ![o] = sp], UNCHANGED <<projects, volumes>>
  PROVE  KeepsAlmostAll
<1>1. ASSUME NEW q \in Projects
      PROVE  Keeps(q, spaces[q], spaces'[q], y)
  <2>1. CASE q = o
    <3>1. spaces'[q] = sp
      BY <2>1 DEF DaemonInv
    <3>. QED
      BY <2>1, <3>1
  <2>2. CASE q # o
    <3>1. spaces'[q] = spaces[q]
      BY <2>2 DEF DaemonInv
    <3>. QED
      BY <3>1, KeepsSame
  <2>. QED
    BY <2>1, <2>2
<1>2. KeepsAllBut(y)
  BY <1>1 DEF KeepsAllBut
<1>. QED
  BY <1>2 DEF KeepsAlmostAll

LEMMA SetInstancesKeeps ==
  ASSUME DaemonInv, NEW p \in Projects, NEW f, NEW x, DOMAIN spaces[p].instances \ {x} \subseteq DOMAIN f,
         SetInstances(p, f)
  PROVE  KeepsAlmostAll
<1>1. Keeps(p, spaces[p], [spaces[p] EXCEPT !.instances = f], <<p, <<"instance", x>>>>)
  BY SpaceIs, KeepsPart
<1>2. spaces' = [spaces EXCEPT ![p] = [spaces[p] EXCEPT !.instances = f]] /\ UNCHANGED <<projects, volumes>>
  BY DEF SetInstances, storage
<1>. QED
  BY <1>1, <1>2, SetSpaceKeeps

LEMMA SetProfilesKeeps ==
  ASSUME DaemonInv, NEW p \in Projects, NEW f, NEW x, DOMAIN ProfilesSeen(p) \ {x} \subseteq DOMAIN f,
         SetProfiles(p, f)
  PROVE  KeepsAlmostAll
<1> DEFINE o == Owner(p, "profiles")
<1>1. o \in Projects
  BY OwnerIs
<1>2. DOMAIN spaces[o].profiles \ {x} \subseteq DOMAIN f
  BY DEF ProfilesSeen
<1>3. spaces' = [spaces EXCEPT ![o] = [spaces[o] EXCEPT !.profiles = f]] /\ UNCHANGED <<projects, volumes>>
  BY DEF SetProfiles, storage
<1>. HIDE DEF o
<1>4. Keeps(o, spaces[o], [spaces[o] EXCEPT !.profiles = f], <<o, <<"profile", x>>>>)
  BY <1>1, <1>2, SpaceIs, KeepsPart
<1>. QED
  BY <1>1, <1>3, <1>4, SetSpaceKeeps

LEMMA SetImagesKeeps ==
  ASSUME DaemonInv, NEW p \in Projects, NEW f, NEW x, DOMAIN ImageSpace(p).images \ {x} \subseteq DOMAIN f,
         SetImages(p, f)
  PROVE  KeepsAlmostAll
<1> DEFINE o == Owner(p, "images")
<1>1. o \in Projects
  BY OwnerIs
<1>2. DOMAIN spaces[o].images \ {x} \subseteq DOMAIN f
  BY DEF ImageSpace
<1>3. spaces' = [spaces EXCEPT ![o] = [spaces[o] EXCEPT !.images = f]] /\ UNCHANGED <<projects, volumes>>
  BY DEF SetImages, storage
<1>. HIDE DEF o
<1>4. Keeps(o, spaces[o], [spaces[o] EXCEPT !.images = f], <<o, <<"image", x>>>>)
  BY <1>1, <1>2, SpaceIs, KeepsPart
<1>. QED
  BY <1>1, <1>3, <1>4, SetSpaceKeeps

\* The owner's networks, or its ACLs, are replaced.
LEMMA SetNetworksKeeps ==
  ASSUME DaemonInv, NEW p \in Projects, NEW f, NEW x
  PROVE  /\ DOMAIN NetworkSpace(p).networks \ {x} \subseteq DOMAIN f
            /\ SetNetworkSpace(p, [NetworkSpace(p) EXCEPT !.networks = f]) => KeepsAlmostAll
         /\ NetworkSpace(p).acls \ {x} \subseteq f
            /\ SetNetworkSpace(p, [NetworkSpace(p) EXCEPT !.acls = f]) => KeepsAlmostAll
<1> DEFINE o == Owner(p, "networks")
<1>1. o \in Projects /\ NetworkSpace(p) = spaces[o]
  BY OwnerIs DEF NetworkSpace
<1>2. ASSUME NEW sp, SetNetworkSpace(p, sp)
      PROVE  spaces' = [spaces EXCEPT ![o] = sp] /\ UNCHANGED <<projects, volumes>>
  BY <1>2 DEF SetNetworkSpace, storage
<1>. HIDE DEF o
<1>3. ASSUME NEW sp, NEW y, Keeps(o, spaces[o], sp, y), SetNetworkSpace(p, sp)
      PROVE  KeepsAlmostAll
  BY <1>1, <1>2, <1>3, SetSpaceKeeps
<1>4. SpaceInv(spaces[o])
  BY <1>1, SpaceIs
<1>5. ASSUME DOMAIN spaces[o].networks \ {x} \subseteq DOMAIN f,
             SetNetworkSpace(p, [spaces[o] EXCEPT !.networks = f])
      PROVE  KeepsAlmostAll
  <2>1. Keeps(o, spaces[o], [spaces[o] EXCEPT !.networks = f], <<o, <<"network", x>>>>)
    BY <1>4, <1>5, KeepsPart
  <2>. QED
    BY <1>3, <1>5, <2>1
<1>6. ASSUME spaces[o].acls \ {x} \subseteq f,
             SetNetworkSpace(p, [spaces[o] EXCEPT !.acls = f])
      PROVE  KeepsAlmostAll
  <2>1. Keeps(o, spaces[o], [spaces[o] EXCEPT !.acls = f], <<o, <<"acl", x>>>>)
    BY <1>4, <1>6, KeepsPart
  <2>. QED
    BY <1>3, <1>6, <2>1
<1>. QED
  BY <1>1, <1>5, <1>6

LEMMA InstanceStepKeeps == ASSUME DaemonInv, InstanceStep PROVE KeepsAlmostAll
<1>1. ASSUME NEW p \in Projects, NEW i, NEW in, SetInstances(p, With(spaces[p].instances, i, in))
      PROVE  KeepsAlmostAll
  <2> DEFINE f == With(spaces[p].instances, i, in)
  <2>1. DOMAIN spaces[p].instances \ {i} \subseteq DOMAIN f
    BY DEF With, Without
  <2>. HIDE DEF f
  <2>2. SetInstances(p, f)
    BY <1>1 DEF f
  <2>. QED
    BY <2>1, <2>2, SetInstancesKeeps
<1>2. ASSUME NEW p \in Projects, NEW i \in Instances, NEW ps \in ProfileLists, NEW d \in Devices,
             NEW s \in States, CreateInstance(p, i, ps, d, s)
      PROVE  KeepsAlmostAll
  BY <1>1, <1>2 DEF CreateInstance
<1>3. ASSUME NEW p \in Projects, NEW i \in Instances, NEW s \in States, setStatus(p, i, s)
      PROVE  KeepsAlmostAll
  <2> DEFINE f == [spaces[p].instances EXCEPT ![i].status = s]
  <2>1. DOMAIN spaces[p].instances \ {i} \subseteq DOMAIN f
    OBVIOUS
  <2>2. SetInstances(p, f)
    BY <1>3 DEF setStatus
  <2>. HIDE DEF f
  <2>. QED
    BY <2>1, <2>2, SetInstancesKeeps
<1>4. ASSUME NEW p \in Projects, NEW i \in Instances, DeleteInstance(p, i)
      PROVE  KeepsAlmostAll
  <2> DEFINE f == Without(spaces[p].instances, i)
  <2>1. DOMAIN spaces[p].instances \ {i} \subseteq DOMAIN f
    BY DEF With, Without
  <2>2. SetInstances(p, f)
    BY <1>4 DEF DeleteInstance
  <2>. HIDE DEF f
  <2>. QED
    BY <2>1, <2>2, SetInstancesKeeps
<1>5. ASSUME NEW p \in Projects, NEW i \in Instances, NEW j \in Instances, CloneInstance(p, i, j)
      PROVE  KeepsAlmostAll
  BY <1>1, <1>5 DEF CloneInstance
<1>6. ASSUME NEW p \in Projects, NEW i \in Instances, NEW j \in Instances, RenameInstance(p, i, j)
      PROVE  KeepsAlmostAll
  <2> DEFINE f == With(Without(spaces[p].instances, i), j, spaces[p].instances[i])
  <2>1. DOMAIN spaces[p].instances \ {i} \subseteq DOMAIN f
    BY DEF With, Without
  <2>2. SetInstances(p, f)
    BY <1>6 DEF RenameInstance
  <2>. HIDE DEF f
  <2>. QED
    BY <2>1, <2>2, SetInstancesKeeps
<1>7. ASSUME NEW p \in Projects, NEW i \in Instances, NEW j \in Instances, MigrateWithin(p, i, j)
      PROVE  KeepsAlmostAll
  <2> DEFINE g == Without(spaces[p].instances, i)
             sp == [spaces[p] EXCEPT !.instances = g]
             left == [spaces EXCEPT ![p] = sp]
             in == spaces[p].instances[i]
             f == With(left[default].instances, j, in)
             dsp == [left[default] EXCEPT !.instances = f]
             y == <<p, <<"instance", i>>>>
  <2>1. spaces' = [left EXCEPT ![default] = dsp] /\ UNCHANGED <<projects, volumes>>
    BY <1>7 DEF MigrateWithin, storage
  <2>2. Keeps(p, spaces[p], sp, y)
    <3>1. DOMAIN spaces[p].instances \ {i} \subseteq DOMAIN g
      BY DEF With, Without
    <3>. HIDE DEF g
    <3>. QED
      BY <3>1, SpaceIs, KeepsPart
  <2>3. DOMAIN left[default].instances \subseteq DOMAIN f
    BY DEF With, Without
  <2>4. sp \in Space
    BY SpaceIs, IsMapWithout DEF Space
  <2>. HIDE DEF g, sp, in, f
  <2>5. left = [q \in Projects |-> IF q = p THEN sp ELSE spaces[q]]
    BY DEF DaemonInv
  <2>6. ASSUME NEW q \in Projects
        PROVE  left[q] \in Space /\ Keeps(q, spaces[q], left[q], y)
    BY <2>2, <2>4, <2>5, SpaceIs, KeepsSame
  <2>. HIDE DEF left, y
  <2>7. ASSUME NEW q \in Projects
        PROVE  Keeps(q, spaces[q], spaces'[q], y)
    <3>1. CASE q = default
      <4>1. spaces'[q] = dsp
        BY <2>1, <2>5, <3>1
      <4>2. dsp = [left[q] EXCEPT !.instances = f] /\ left[q] \in Space
        BY <2>6, <3>1
      <4>3. /\ dsp.instances = f /\ dsp.profiles = left[q].profiles /\ dsp.images = left[q].images
            /\ dsp.networks = left[q].networks /\ dsp.acls = left[q].acls
        BY <4>2 DEF Space
      <4>. HIDE DEF dsp
      <4>4. Keeps(q, spaces[q], left[q], y)
        BY <2>6
      <4>. QED
        BY <2>3, <3>1, <4>1, <4>3, <4>4 DEF Keeps
    <3>2. CASE q # default
      <4>1. spaces'[q] = left[q]
        BY <2>1, <2>5, <3>2
      <4>. QED
        BY <2>6, <4>1
    <3>. QED
      BY <3>1, <3>2
  <2>8. KeepsAllBut(y)
    BY <2>1, <2>7 DEF KeepsAllBut
  <2>. QED
    BY <2>8 DEF KeepsAlmostAll
<1>8. ASSUME NEW p \in Projects, NEW i \in Instances, ImportInstance(p, i)
      PROVE  KeepsAlmostAll
  BY <1>1, <1>8 DEF ImportInstance
<1>9. ASSUME NEW i \in Instances, NEW ps \in ProfileLists, NEW d \in Devices, MigrateInstance(i, ps, d)
      PROVE  KeepsAlmostAll
  BY <1>1, <1>9 DEF MigrateInstance, Projects
<1>. QED
  BY CallersAre, <1>2, <1>3, <1>4, <1>5, <1>6, <1>7, <1>8, <1>9 DEF InstanceStep

LEMMA DeviceStepKeeps == ASSUME DaemonInv, DeviceStep PROVE KeepsAlmostAll
<1>1. ASSUME NEW p \in Projects, NEW i \in Instances, NEW d,
             SetInstances(p, [spaces[p].instances EXCEPT ![i].device = d])
      PROVE  KeepsAlmostAll
  <2> DEFINE f == [spaces[p].instances EXCEPT ![i].device = d]
  <2>1. DOMAIN spaces[p].instances \ {i} \subseteq DOMAIN f
    OBVIOUS
  <2>2. SetInstances(p, f)
    BY <1>1
  <2>. HIDE DEF f
  <2>. QED
    BY <2>1, <2>2, SetInstancesKeeps
<1>. QED
  BY <1>1, CallersAre DEF DeviceStep, AddDevice, UpdateDevice, RemoveDevice

LEMMA ProfileStepKeeps == ASSUME DaemonInv, ProfileStep PROVE KeepsAlmostAll
<1>1. ASSUME NEW p \in Projects, NEW i \in Instances, NEW ps \in ProfileLists,
             SetInstanceProfiles(p, i, ps)
      PROVE  KeepsAlmostAll
  <2> DEFINE f == [spaces[p].instances EXCEPT ![i].profiles = ps]
  <2>1. DOMAIN spaces[p].instances \ {i} \subseteq DOMAIN f
    OBVIOUS
  <2>2. SetInstances(p, f)
    BY <1>1 DEF SetInstanceProfiles
  <2>. HIDE DEF f
  <2>. QED
    BY <2>1, <2>2, SetInstancesKeeps
<1>2. ASSUME NEW p \in Projects, NEW n \in Profiles, CreateProfile(p, n)
      PROVE  KeepsAlmostAll
  <2> DEFINE f == With(ProfilesSeen(p), n, NoDevice)
  <2>1. DOMAIN ProfilesSeen(p) \ {n} \subseteq DOMAIN f
    BY DEF With, Without
  <2>2. SetProfiles(p, f)
    BY <1>2 DEF CreateProfile
  <2>. HIDE DEF f
  <2>. QED
    BY <2>1, <2>2, SetProfilesKeeps
<1>3. ASSUME NEW p \in Projects, NEW n \in Profiles, DeleteProfile(p, n)
      PROVE  KeepsAlmostAll
  <2> DEFINE f == Without(ProfilesSeen(p), n)
  <2>1. DOMAIN ProfilesSeen(p) \ {n} \subseteq DOMAIN f
    BY DEF With, Without
  <2>2. SetProfiles(p, f)
    BY <1>3 DEF DeleteProfile
  <2>. HIDE DEF f
  <2>. QED
    BY <2>1, <2>2, SetProfilesKeeps
<1>4. ASSUME NEW p \in Projects, NEW n \in Profiles, NEW m \in Profiles, RenameProfile(p, n, m)
      PROVE  KeepsAlmostAll
  <2> DEFINE o == Owner(p, "profiles")
             renamed == With(Without(ProfilesSeen(p), n), m, ProfilesSeen(p)[n])
             osp == [spaces[o] EXCEPT !.profiles = renamed]
             moved == [spaces EXCEPT ![o] = osp]
             y == <<o, <<"profile", n>>>>
  <2>1. PICK users \in profileUsers(p) :
          spaces' = [q \in Projects |->
            [moved[q] EXCEPT !.instances = Renamed(moved[q].instances, q, users, n, m)]]
    BY <1>4 DEF RenameProfile
  <2>2. UNCHANGED <<projects, volumes>>
    BY <1>4 DEF RenameProfile, storage
  <2>3. o \in Projects
    BY OwnerIs
  <2>4. DOMAIN spaces[o].profiles \ {n} \subseteq DOMAIN renamed
    BY DEF With, Without, ProfilesSeen
  <2>5. SpaceInv(spaces[o])
    BY <2>3, SpaceIs
  <2>. HIDE DEF renamed
  <2>. HIDE DEF o
  <2>6. Keeps(o, spaces[o], osp, y)
    BY <2>4, <2>5, KeepsPart
  <2>8. DOMAIN osp = DOMAIN newSpace
    BY <2>5 DEF SpaceInv, Space, newSpace
  <2>. HIDE DEF osp, y
  <2>9. moved = [q \in Projects |-> IF q = o THEN osp ELSE spaces[q]]
    BY DEF DaemonInv
  <2>. HIDE DEF moved
  <2>10. ASSUME NEW q \in Projects
         PROVE  Keeps(q, spaces[q], moved[q], y)
    BY <2>6, <2>9, KeepsSame
  <2>11. ASSUME NEW q \in Projects
         PROVE  Keeps(q, spaces[q], spaces'[q], y)
    <3> DEFINE sp == moved[q]
               f == Renamed(sp.instances, q, users, n, m)
               new == [sp EXCEPT !.instances = f]
    <3>1. spaces'[q] = new
      BY <2>1
    <3>2. DOMAIN f = DOMAIN sp.instances
      BY DEF Renamed
    <3>. HIDE DEF f
    <3>3. DOMAIN sp = DOMAIN newSpace
      BY <2>8, <2>9, SpaceIs DEF Space, newSpace
    <3>. HIDE DEF sp
    <3>4. /\ new.instances = f /\ new.profiles = sp.profiles /\ new.images = sp.images
          /\ new.networks = sp.networks /\ new.acls = sp.acls
      BY <3>3 DEF newSpace
    <3>. HIDE DEF new
    <3>5. Keeps(q, spaces[q], sp, y)
      BY <2>10 DEF sp
    <3>. QED
      BY <3>1, <3>2, <3>4, <3>5 DEF Keeps
  <2>12. KeepsAllBut(y)
    BY <2>2, <2>11 DEF KeepsAllBut
  <2>. QED
    BY <2>12 DEF KeepsAlmostAll
<1>. QED
  BY CallersAre, <1>1, <1>2, <1>3, <1>4 DEF ProfileStep

LEMMA ProfileDeviceStepKeeps == ASSUME DaemonInv, ProfileDeviceStep PROVE KeepsAlmostAll
<1>1. PICK p \in Callers, n \in ProfileNames, d \in Devices : SetProfileDevice(p, n, d)
  BY DEF ProfileDeviceStep
<1> DEFINE f == [ProfilesSeen(p) EXCEPT ![n] = d]
<1>2. DOMAIN ProfilesSeen(p) \ {n} \subseteq DOMAIN f
  OBVIOUS
<1>3. SetProfiles(p, f) /\ p \in Projects
  BY <1>1, CallersAre DEF SetProfileDevice
<1>. HIDE DEF f
<1>. QED
  BY <1>2, <1>3, SetProfilesKeeps

\* Only pools, volumes and buckets change.
LEMMA SetStorageKeeps ==
  ASSUME DaemonInv, NEW ps, NEW vs, NEW bs, SetStorage(ps, vs, bs),
         NEW y, \A v \in volumes : v \in vs \/ y = <<v[2], <<"volume", v>>>>
  PROVE  KeepsAlmostAll
<1>1. KeepsAllBut(y)
  BY KeepsSame DEF SetStorage, KeepsAllBut
<1>. QED
  BY <1>1 DEF KeepsAlmostAll

LEMMA NetworkStepKeeps == ASSUME DaemonInv, NetworkStep PROVE KeepsAlmostAll
<1>1. ASSUME NEW p \in Projects, NEW n \in Networks, NEW c \in NetworkConfigs, CreateNetwork(p, n, c)
      PROVE  KeepsAlmostAll
  <2> DEFINE f == With(NetworkSpace(p).networks, n, c)
  <2>1. DOMAIN NetworkSpace(p).networks \ {n} \subseteq DOMAIN f
    BY DEF With
  <2>2. SetNetworkSpace(p, [NetworkSpace(p) EXCEPT !.networks = f])
    BY <1>1 DEF CreateNetwork
  <2>. HIDE DEF f
  <2>. QED
    BY <2>1, <2>2, SetNetworksKeeps
<1>2. ASSUME NEW p \in Projects, NEW n \in Networks, NEW c \in NetworkConfigs, UpdateNetwork(p, n, c)
      PROVE  KeepsAlmostAll
  <2> DEFINE f == [NetworkSpace(p).networks EXCEPT ![n] = c]
  <2>1. DOMAIN NetworkSpace(p).networks \ {n} \subseteq DOMAIN f
    OBVIOUS
  <2>2. SetNetworkSpace(p, [NetworkSpace(p) EXCEPT !.networks = f])
    BY <1>2 DEF UpdateNetwork
  <2>. HIDE DEF f
  <2>. QED
    BY <2>1, <2>2, SetNetworksKeeps
<1>3. ASSUME NEW p \in Projects, NEW n \in Networks, DeleteNetwork(p, n)
      PROVE  KeepsAlmostAll
  <2> DEFINE f == Without(NetworkSpace(p).networks, n)
  <2>1. DOMAIN NetworkSpace(p).networks \ {n} \subseteq DOMAIN f
    BY DEF Without
  <2>2. SetNetworkSpace(p, [NetworkSpace(p) EXCEPT !.networks = f])
    BY <1>3 DEF DeleteNetwork
  <2>. HIDE DEF f
  <2>. QED
    BY <2>1, <2>2, SetNetworksKeeps
<1>4. ASSUME NEW p \in Projects, NEW a, NEW s, NetworkSpace(p).acls \ {a} \subseteq s,
             SetNetworkSpace(p, [NetworkSpace(p) EXCEPT !.acls = s])
      PROVE  KeepsAlmostAll
  BY <1>4, SetNetworksKeeps
<1>5. ASSUME NEW p \in Projects, NEW a \in ACLs, CreateNetworkACL(p, a)
      PROVE  KeepsAlmostAll
  <2> DEFINE s == NetworkSpace(p).acls \cup {a}
  <2>1. NetworkSpace(p).acls \ {a} \subseteq s
    OBVIOUS
  <2>2. SetNetworkSpace(p, [NetworkSpace(p) EXCEPT !.acls = s])
    BY <1>5 DEF CreateNetworkACL
  <2>. HIDE DEF s
  <2>. QED
    BY <1>4, <2>1, <2>2
<1>6. ASSUME NEW p \in Projects, NEW a \in ACLs, DeleteNetworkACL(p, a)
      PROVE  KeepsAlmostAll
  <2> DEFINE s == NetworkSpace(p).acls \ {a}
  <2>1. NetworkSpace(p).acls \ {a} \subseteq s
    OBVIOUS
  <2>2. SetNetworkSpace(p, [NetworkSpace(p) EXCEPT !.acls = s])
    BY <1>6 DEF DeleteNetworkACL
  <2>. HIDE DEF s
  <2>. QED
    BY <1>4, <2>1, <2>2
<1>7. ASSUME NEW p \in Projects, NEW a \in ACLs, NEW b \in ACLs, RenameNetworkACL(p, a, b)
      PROVE  KeepsAlmostAll
  <2> DEFINE s == (NetworkSpace(p).acls \ {a}) \cup {b}
  <2>1. NetworkSpace(p).acls \ {a} \subseteq s
    OBVIOUS
  <2>2. SetNetworkSpace(p, [NetworkSpace(p) EXCEPT !.acls = s])
    BY <1>7 DEF RenameNetworkACL
  <2>. HIDE DEF s
  <2>. QED
    BY <1>4, <2>1, <2>2
<1>. QED
  BY CallersAre, <1>1, <1>2, <1>3, <1>5, <1>6, <1>7 DEF NetworkStep

\* Zones and records are not among the things that projects show.
LEMMA ZoneStepKeeps == ASSUME DaemonInv, ZoneStep PROVE KeepsAlmostAll
<1>1. ASSUME NEW p \in Projects, NEW zs, NEW rs,
             SetZoneSpace(p, [ZoneSpace(p) EXCEPT !.zones = zs, !.records = rs])
      PROVE  KeepsAlmostAll
  <2> DEFINE o == Owner(p, "zones")
             sp == [spaces[o] EXCEPT !.zones = zs, !.records = rs]
  <2>1. o \in Projects
    BY OwnerIs
  <2>2. spaces' = [spaces EXCEPT ![o] = sp] /\ UNCHANGED <<projects, volumes>>
    BY <1>1 DEF SetZoneSpace, ZoneSpace, storage
  <2>. HIDE DEF o
  <2>3. /\ sp.instances = spaces[o].instances /\ sp.profiles = spaces[o].profiles
        /\ sp.images = spaces[o].images /\ sp.networks = spaces[o].networks
        /\ sp.acls = spaces[o].acls
    BY <2>1, SpaceIs DEF Space
  <2>. HIDE DEF sp
  <2>4. Keeps(o, spaces[o], sp, 0)
    BY <2>3 DEF Keeps
  <2>. QED
    BY <2>1, <2>2, <2>4, SetSpaceKeeps
<1>2. ASSUME NEW p \in Projects
      PROVE  /\ \A s : [ZoneSpace(p) EXCEPT !.zones = s] =
                       [ZoneSpace(p) EXCEPT !.zones = s, !.records = ZoneSpace(p).records]
             /\ \A s : [ZoneSpace(p) EXCEPT !.records = s] =
                       [ZoneSpace(p) EXCEPT !.zones = ZoneSpace(p).zones, !.records = s]
  <2>1. ZoneSpace(p) \in Space
    BY OwnerIs, SpaceIs DEF ZoneSpace
  <2>. QED
    BY <2>1 DEF Space
<1>3. ASSUME NEW p \in Projects, NEW z \in Zones, CreateNetworkZone(p, z)
      PROVE  KeepsAlmostAll
  <2> DEFINE zs == ZoneSpace(p).zones \cup {z}
  <2>1. SetZoneSpace(p, [ZoneSpace(p) EXCEPT !.zones = zs])
    BY <1>3 DEF CreateNetworkZone
  <2>. HIDE DEF zs
  <2>2. SetZoneSpace(p, [ZoneSpace(p) EXCEPT
          !.zones = zs, !.records = ZoneSpace(p).records])
    BY <1>2, <2>1
  <2>. QED
    BY <1>1, <2>2
<1>4. ASSUME NEW p \in Projects, NEW z \in Zones, DeleteNetworkZone(p, z)
      PROVE  KeepsAlmostAll
  BY <1>1, <1>4 DEF DeleteNetworkZone
<1>5. ASSUME NEW p \in Projects, NEW z \in Zones, NEW r \in Records, CreateZoneRecord(p, z, r)
      PROVE  KeepsAlmostAll
  <2> DEFINE rs == ZoneSpace(p).records \cup {<<z, r>>}
  <2>1. SetZoneSpace(p, [ZoneSpace(p) EXCEPT !.records = rs])
    BY <1>5 DEF CreateZoneRecord
  <2>. HIDE DEF rs
  <2>2. SetZoneSpace(p, [ZoneSpace(p) EXCEPT
          !.zones = ZoneSpace(p).zones, !.records = rs])
    BY <1>2, <2>1
  <2>. QED
    BY <1>1, <2>2
<1>6. ASSUME NEW p \in Projects, NEW z \in Zones, NEW r \in Records, DeleteZoneRecord(p, z, r)
      PROVE  KeepsAlmostAll
  <2> DEFINE rs == ZoneSpace(p).records \ {<<z, r>>}
  <2>1. SetZoneSpace(p, [ZoneSpace(p) EXCEPT !.records = rs])
    BY <1>6 DEF DeleteZoneRecord
  <2>. HIDE DEF rs
  <2>2. SetZoneSpace(p, [ZoneSpace(p) EXCEPT
          !.zones = ZoneSpace(p).zones, !.records = rs])
    BY <1>2, <2>1
  <2>. QED
    BY <1>1, <2>2
<1>. QED
  BY CallersAre, <1>3, <1>4, <1>5, <1>6 DEF ZoneStep

LEMMA PoolStepKeeps == ASSUME DaemonInv, PoolStep PROVE KeepsAlmostAll
<1>1. PICK ps, bs : SetStorage(ps, volumes, bs)
  BY DEF PoolStep, CreateStoragePool, DeleteStoragePool
<1>. QED
  BY <1>1, SetStorageKeeps

LEMMA BucketStepKeeps == ASSUME DaemonInv, BucketStep PROVE KeepsAlmostAll
<1>1. PICK ps, bs : SetStorage(ps, volumes, bs)
  BY DEF BucketStep, CreateBucket, DeleteBucket
<1>. QED
  BY <1>1, SetStorageKeeps

LEMMA VolumeStepKeeps == ASSUME DaemonInv, VolumeStep PROVE KeepsAlmostAll
<1>1. ASSUME NEW p \in Projects, NEW pl \in Pools, NEW v \in Volumes,
             CreateVolume(p, pl, v) \/ DeleteVolume(p, pl, v)
      PROVE  KeepsAlmostAll
  <2> DEFINE w == Volume(p, pl, v)
             y == <<w[2], <<"volume", w>>>>
  <2>1. PICK vs : SetStorage(pools, vs, buckets) /\ volumes \ {w} \subseteq vs
    BY <1>1 DEF CreateVolume, DeleteVolume
  <2>. HIDE DEF w
  <2>2. \A x \in volumes : x \in vs \/ y = <<x[2], <<"volume", x>>>>
    BY <2>1
  <2>. HIDE DEF y
  <2>. QED
    BY <2>1, <2>2, SetStorageKeeps
<1>2. ASSUME NEW p \in Projects, NEW pl \in Pools, NEW v \in Volumes, NEW w \in Volumes,
             RenameVolume(p, pl, v, w)
      PROVE  KeepsAlmostAll
  <2> DEFINE x == Volume(p, pl, v)
             y == <<x[2], <<"volume", x>>>>
  <2>1. /\ spaces' = [q \in Projects |->
             [spaces[q] EXCEPT !.instances = Reattached(spaces[q].instances, q, Attached(p, pl, v), w)]]
        /\ projects' = projects
        /\ volumes \ {x} \subseteq volumes'
    BY <1>2 DEF RenameVolume
  <2>. HIDE DEF x
  <2>2. \A u \in volumes : u \in volumes' \/ y = <<u[2], <<"volume", u>>>>
    BY <2>1
  <2>. HIDE DEF y
  <2>3. ASSUME NEW q \in Projects
        PROVE  Keeps(q, spaces[q], spaces'[q], y)
    <3> DEFINE f == Reattached(spaces[q].instances, q, Attached(p, pl, v), w)
               new == [spaces[q] EXCEPT !.instances = f]
    <3>1. spaces'[q] = new
      BY <2>1
    <3>2. DOMAIN f = DOMAIN spaces[q].instances
      BY DEF Reattached
    <3>. HIDE DEF f
    <3>3. /\ new.instances = f /\ new.profiles = spaces[q].profiles
          /\ new.images = spaces[q].images /\ new.networks = spaces[q].networks
          /\ new.acls = spaces[q].acls
      BY SpaceIs DEF Space
    <3>. HIDE DEF new
    <3>. QED
      BY <3>1, <3>2, <3>3 DEF Keeps
  <2>4. KeepsAllBut(y)
    BY <2>1, <2>2, <2>3 DEF KeepsAllBut
  <2>. QED
    BY <2>4 DEF KeepsAlmostAll
<1>. QED
  BY CallersAre, <1>1, <1>2 DEF VolumeStep

LEMMA ImageStepKeeps == ASSUME DaemonInv, ImageStep PROVE KeepsAlmostAll
<1>1. ASSUME NEW p \in Projects, NEW f, NEW as, SetImages(p, With(ImageSpace(p).images, f, as))
      PROVE  KeepsAlmostAll
  <2> DEFINE g == With(ImageSpace(p).images, f, as)
  <2>1. DOMAIN ImageSpace(p).images \ {f} \subseteq DOMAIN g
    BY DEF With
  <2>2. SetImages(p, g)
    BY <1>1
  <2>. HIDE DEF g
  <2>. QED
    BY <2>1, <2>2, SetImagesKeeps
<1>2. ASSUME NEW p \in Projects, NEW f, NEW as, SetImages(p, [ImageSpace(p).images EXCEPT ![f] = as])
      PROVE  KeepsAlmostAll
  <2> DEFINE g == [ImageSpace(p).images EXCEPT ![f] = as]
  <2>1. DOMAIN ImageSpace(p).images \ {f} \subseteq DOMAIN g
    OBVIOUS
  <2>2. SetImages(p, g)
    BY <1>2
  <2>. HIDE DEF g
  <2>. QED
    BY <2>1, <2>2, SetImagesKeeps
<1>3. ASSUME NEW p \in Projects, NEW f, DeleteImage(p, f)
      PROVE  KeepsAlmostAll
  <2> DEFINE g == Without(ImageSpace(p).images, f)
  <2>1. DOMAIN ImageSpace(p).images \ {f} \subseteq DOMAIN g
    BY DEF Without
  <2>2. SetImages(p, g)
    BY <1>3 DEF DeleteImage
  <2>. HIDE DEF g
  <2>. QED
    BY <2>1, <2>2, SetImagesKeeps
<1>4. ASSUME NEW p \in Projects, NEW i, NEW t, NEW alias, PublishImage(p, i, t, alias)
      PROVE  KeepsAlmostAll
  BY <1>1, <1>4 DEF PublishImage
<1>5. ASSUME NEW p \in Projects, NEW f, NEW alias, ImportImage(p, f, alias)
      PROVE  KeepsAlmostAll
  BY <1>1, <1>5 DEF ImportImage
<1>6. ASSUME NEW p \in Projects, NEW alias, CopyImage(p, alias)
      PROVE  KeepsAlmostAll
  BY <1>1, <1>6 DEF CopyImage
<1>7. ASSUME NEW p \in Projects, NEW f, NEW alias, AddImageAlias(p, f, alias)
      PROVE  KeepsAlmostAll
  BY <1>2, <1>7 DEF AddImageAlias
<1>8. ASSUME NEW p \in Projects, NEW alias, RemoveImageAlias(p, alias)
      PROVE  KeepsAlmostAll
  BY <1>2, <1>8 DEF RemoveImageAlias
<1>. QED
  BY CallersAre, <1>3, <1>4, <1>5, <1>6, <1>7, <1>8 DEF ImageStep

-----------------------------------------------------------------------------
(* What steps of projects lose: nothing.                                   *)

\* Nothing goes of what a project shows.
LEMMA NoneGoes ==
  ASSUME DaemonInv, DaemonInv',
         \A r \in DOMAIN projects : \A t :
           Holds(r, projects[r], spaces[r], volumes, t)
             => r \in DOMAIN projects' /\ Holds(r, projects'[r], spaces'[r], volumes', t)
  PROVE  LosesNothing
<1>1. ThingsAre /\ ThingsAre'
  BY ThingIs, PTL
<1>2. Things \subseteq Things'
  BY <1>1 DEF ThingsAre
<1> DEFINE f == [x \in Things |-> x]
<1>3. f \in Injection(Things, Things')
  BY <1>2 DEF Injection, IsInjective
<1>. QED
  BY <1>3, LosesNone

\* Emptiness, as the code has it, leaves nothing that is shown.
LEMMA EmptyShowsNothing ==
  ASSUME DaemonInv, NEW p \in DOMAIN projects \ {default}, IsEmpty(p), NEW t
  PROVE  ~Holds(p, projects[p], spaces[p], volumes, t)
<1> DEFINE sp == spaces[p]
<1>1. \A u \in UsedBy(p) : u = <<"profile", default>>
  BY DEF IsEmpty
<1>2. /\ \A i \in DOMAIN sp.instances : <<"instance", i>> \in UsedBy(p)
      /\ \A n \in DOMAIN sp.profiles : <<"profile", n>> \in UsedBy(p)
      /\ \A f \in DOMAIN sp.images : <<"image", f>> \in UsedBy(p)
      /\ \A v \in volumes : v[2] = p => <<"volume", v>> \in UsedBy(p)
  BY DEF UsedBy
<1>3. Owns(p, projects[p], "networks") =>
        /\ \A n \in DOMAIN sp.networks : <<"network", n>> \in UsedBy(p)
        /\ \A a \in sp.acls : <<"acl", a>> \in UsedBy(p)
  BY OwnIs DEF UsedBy
<1>. HIDE DEF sp
<1>4. \A i : i \notin DOMAIN sp.instances
  BY <1>1, <1>2
<1>5. \A n \in DOMAIN sp.profiles : n = default
  BY <1>1, <1>2
<1>6. \A f : f \notin DOMAIN sp.images
  BY <1>1, <1>2
<1>7. \A v \in volumes : v[2] # p
  BY <1>1, <1>2
<1>8. Owns(p, projects[p], "networks") =>
        (\A n : n \notin DOMAIN sp.networks) /\ (\A a : a \notin sp.acls)
  BY <1>1, <1>3
<1>9. ~Holds(p, projects[p], sp, volumes, t)
  BY <1>4, <1>5, <1>6, <1>7, <1>8 DEF Holds
<1>. QED
  BY <1>9 DEF sp

LEMMA CreateProjectKeeps ==
  ASSUME DaemonInv, DaemonInv', NEW p \in Others, NEW fs, CreateProject(p, fs)
  PROVE  LosesNothing
<1>1. /\ p \notin DOMAIN projects /\ projects' = With(projects, p, fs) /\ volumes' = volumes
      /\ \A r \in Projects \ {p} : spaces'[r] = spaces[r]
  BY DEF CreateProject, storage, DaemonInv
<1>2. DOMAIN projects \subseteq Projects
  BY DEF DaemonInv, Maps
<1>3. \A r \in DOMAIN projects : r \in DOMAIN projects' /\ projects'[r] = projects[r]
  BY <1>1 DEF With
<1>4. \A r \in DOMAIN projects : spaces'[r] = spaces[r]
  BY <1>1, <1>2
<1>. QED
  BY <1>1, <1>3, <1>4, NoneGoes

\* Of a project with resources, features but zones stay.
LEMMA UpdateProjectKeeps ==
  ASSUME DaemonInv, DaemonInv', NEW p \in Others, NEW fs, UpdateProject(p, fs)
  PROVE  LosesNothing
<1>1. /\ p \in DOMAIN projects \ {default} /\ (FeatureChanged(p, fs) => IsEmpty(p))
      /\ projects' = [projects EXCEPT ![p] = fs] /\ volumes' = volumes /\ spaces' = spaces
  BY DEF UpdateProject, storage
<1>2. DOMAIN projects' = DOMAIN projects /\ projects'[p] = fs
      /\ \A r \in DOMAIN projects \ {p} : projects'[r] = projects[r]
  BY <1>1
<1>3. ASSUME NEW r \in DOMAIN projects, NEW t, Holds(r, projects[r], spaces[r], volumes, t)
      PROVE  r \in DOMAIN projects' /\ Holds(r, projects'[r], spaces'[r], volumes', t)
  <2>1. CASE r # p
    BY <1>1, <1>2, <1>3, <2>1
  <2>2. CASE r = p
    <3>1. ~FeatureChanged(p, fs)
      BY <1>1, <1>3, <2>2, EmptyShowsNothing
    <3>2. projects[p] \subseteq fs
      BY <3>1 DEF FeatureChanged
    <3>3. \A feature : Owns(p, projects[p], feature) => Owns(p, fs, feature)
      BY <3>2 DEF Owns
    <3>4. Holds(p, fs, spaces[p], volumes, t)
      BY <1>3, <2>2, <3>3 DEF Holds
    <3>. QED
      BY <1>1, <1>2, <2>2, <3>4
  <2>. QED
    BY <2>1, <2>2
<1>. QED
  BY <1>3, NoneGoes

LEMMA DeleteProjectKeeps ==
  ASSUME DaemonInv, DaemonInv', NEW p \in Others, DeleteProject(p)
  PROVE  LosesNothing
<1>1. /\ p \in DOMAIN projects \ {default} /\ IsEmpty(p)
      /\ projects' = Without(projects, p)
      /\ spaces' = [spaces EXCEPT ![p] = newSpace]
      /\ volumes' = {v \in volumes : v[2] # p}
  BY DEF DeleteProject
<1>2. DOMAIN projects \subseteq Projects
  BY DEF DaemonInv, Maps
<1>3. ASSUME NEW r \in DOMAIN projects, NEW t, Holds(r, projects[r], spaces[r], volumes, t)
      PROVE  r \in DOMAIN projects' /\ Holds(r, projects'[r], spaces'[r], volumes', t)
  <2>1. r # p
    BY <1>1, <1>3, EmptyShowsNothing
  <2>2. r \in DOMAIN projects' /\ projects'[r] = projects[r]
    BY <1>1, <2>1 DEF Without
  <2>3. spaces'[r] = spaces[r]
    BY <1>1, <1>2, <2>1 DEF DaemonInv
  <2>4. \A v \in volumes : v[2] = r => v \in volumes'
    BY <1>1, <2>1
  <2>5. Holds(r, projects[r], spaces[r], volumes', t)
    BY <1>3, <2>4 DEF Holds
  <2>. QED
    BY <2>2, <2>3, <2>5
<1>. QED
  BY <1>3, NoneGoes

\* A renamed project shows the same, its volumes under their new names.
LEMMA RenameProjectKeeps ==
  ASSUME DaemonInv, DaemonInv', NEW p \in Others, NEW q \in Others, RenameProject(p, q)
  PROVE  LosesNothing
<1> DEFINE V(v) == <<v[1], q, v[3]>>
           new(t) == IF t[1] = "volume" THEN <<"volume", V(t[2])>> ELSE t
           f == [x \in Things |-> IF x[1] = p THEN <<q, new(x[2])>> ELSE x]
<1>1. /\ p \in DOMAIN projects \ {default} /\ q \notin DOMAIN projects
      /\ projects' = With(Without(projects, p), q, projects[p])
      /\ spaces' = [spaces EXCEPT ![q] = spaces[p], ![p] = newSpace]
      /\ volumes' = {IF v[2] = p THEN <<v[1], q, v[3]>> ELSE v : v \in volumes}
  BY DEF RenameProject
<1>2. DOMAIN projects \subseteq Projects /\ q \in Projects /\ p # q /\ q # default
  BY <1>1, SpacesAssumption DEF DaemonInv, Maps, Projects
<1>3. /\ q \in DOMAIN projects' /\ projects'[q] = projects[p] /\ spaces'[q] = spaces[p]
      /\ \A r \in DOMAIN projects \ {p} :
           r \in DOMAIN projects' /\ projects'[r] = projects[r] /\ spaces'[r] = spaces[r]
  <2>1. spaces'[q] = spaces[p] /\ \A r \in DOMAIN projects \ {p} : spaces'[r] = spaces[r]
    BY <1>1, <1>2 DEF DaemonInv
  <2>. QED
    BY <1>1, <2>1 DEF With, Without
<1>4. ASSUME NEW v \in volumes
      PROVE  (IF v[2] = p THEN V(v) ELSE v) \in volumes'
  BY <1>1
<1>5. ASSUME NEW r \in DOMAIN projects \ {p}, NEW t, Holds(r, projects[r], spaces[r], volumes, t)
      PROVE  Holds(r, projects'[r], spaces'[r], volumes', t)
  <2>1. \A v \in volumes : v[2] = r => v \in volumes'
    BY <1>4
  <2>2. Holds(r, projects[r], spaces[r], volumes', t)
    BY <1>5, <2>1 DEF Holds
  <2>. QED
    BY <1>3, <2>2
<1>6. ASSUME NEW t, Holds(p, projects[p], spaces[p], volumes, t)
      PROVE  Holds(q, projects'[q], spaces'[q], volumes', new(t))
  <2>1. \A feature : Owns(p, projects[p], feature) => Owns(q, projects[p], feature)
    BY <1>1 DEF Owns
  <2>2. CASE t[1] = "volume"
    <3>1. PICK v \in volumes : v[2] = p /\ t = <<"volume", v>> /\ Owns(p, projects[p], "volumes")
      BY <1>6, <2>2 DEF Holds
    <3>2. V(v) \in volumes' /\ V(v)[2] = q /\ new(t) = <<"volume", V(v)>>
      BY <1>4, <3>1
    <3>. HIDE DEF V, new
    <3>. QED
      BY <1>3, <2>1, <3>1, <3>2 DEF Holds
  <2>3. CASE t[1] # "volume"
    <3>1. Holds(q, projects[p], spaces[p], volumes', t)
      BY <1>6, <2>1, <2>3 DEF Holds
    <3>. QED
      BY <1>3, <2>3, <3>1
  <2>. QED
    BY <2>2, <2>3
<1>7. \A t, u : Holds(p, projects[p], spaces[p], volumes, t) /\ Holds(p, projects[p], spaces[p], volumes, u)
        /\ new(t) = new(u) => t = u
  <2> SUFFICES ASSUME NEW t, NEW u, Holds(p, projects[p], spaces[p], volumes, t),
                      Holds(p, projects[p], spaces[p], volumes, u), new(t) = new(u)
               PROVE  t = u
    OBVIOUS
  <2>1. CASE t[1] = "volume"
    <3>1. u[1] = "volume"
      BY <2>1
    <3>2. PICK v \in volumes : v[2] = p /\ t = <<"volume", v>>
      BY <2>1 DEF Holds
    <3>3. PICK w \in volumes : w[2] = p /\ u = <<"volume", w>>
      BY <3>1 DEF Holds
    <3>4. V(v) = V(w)
      BY <3>2, <3>3
    <3>5. v[1] = w[1] /\ v[3] = w[3]
      BY <3>4
    <3>6. v = <<v[1], v[2], v[3]>> /\ w = <<w[1], w[2], w[3]>>
      BY DEF DaemonInv, StorageInv
    <3>. QED
      BY <3>2, <3>3, <3>5, <3>6
  <2>2. CASE t[1] # "volume"
    <3>1. u[1] # "volume"
      BY <2>2
    <3>. QED
      BY <2>2, <3>1
  <2>. QED
    BY <2>1, <2>2
<1>8. ThingsAre /\ ThingsAre'
  BY ThingIs, PTL
<1>9. ASSUME NEW x \in Things
      PROVE  /\ x = <<x[1], x[2]>> /\ x[1] \in DOMAIN projects
             /\ Holds(x[1], projects[x[1]], spaces[x[1]], volumes, x[2])
  BY <1>8 DEF ThingsAre
<1>. HIDE DEF new
<1>10. ASSUME NEW x \in Things
       PROVE  f[x] \in Things'
  <2>1. CASE x[1] = p
    <3>1. f[x] = <<q, new(x[2])>>
      BY <2>1
    <3>2. Holds(q, projects'[q], spaces'[q], volumes', new(x[2]))
      BY <1>6, <1>9, <2>1
    <3>. QED
      BY <1>3, <1>8, <3>1, <3>2 DEF ThingsAre
  <2>2. CASE x[1] # p
    <3>1. f[x] = <<x[1], x[2]>> /\ x[1] \in DOMAIN projects'
      BY <1>3, <1>9, <2>2
    <3>2. Holds(x[1], projects'[x[1]], spaces'[x[1]], volumes', x[2])
      BY <1>5, <1>9, <2>2
    <3>. QED
      BY <1>8, <3>1, <3>2 DEF ThingsAre
  <2>. QED
    BY <2>1, <2>2
<1>11. ASSUME NEW x \in Things, NEW y \in Things, f[x] = f[y]
       PROVE  x = y
  <2>1. CASE x[1] = p /\ y[1] = p
    <3>1. new(x[2]) = new(y[2])
      BY <1>11, <2>1
    <3>2. x[2] = y[2]
      BY <1>7, <1>9, <2>1, <3>1
    <3>. QED
      BY <1>9, <2>1, <3>2
  <2>2. CASE x[1] # p /\ y[1] # p
    BY <1>11, <2>2
  <2>3. CASE x[1] = p /\ y[1] # p
    BY <1>1, <1>9, <1>11, <2>3
  <2>4. CASE x[1] # p /\ y[1] = p
    BY <1>1, <1>9, <1>11, <2>4
  <2>. QED
    BY <2>1, <2>2, <2>3, <2>4
<1>12. f = [x \in Things |-> f[x]]
  OBVIOUS
<1>. HIDE DEF f
<1>13. f \in Injection(Things, Things')
  BY <1>10, <1>11, <1>12 DEF Injection, IsInjective
<1>. QED
  BY <1>13, LosesNone

LEMMA ProjectStepKeeps == ASSUME DaemonInv, DaemonInv', ProjectStep PROVE LosesNothing
BY CreateProjectKeeps, UpdateProjectKeeps, RenameProjectKeeps, DeleteProjectKeeps DEF ProjectStep

\* Every step of the three sides.
LEMMA NothingIsLost ==
  DaemonInv /\ DaemonInv' /\ [FakeNext]_<<side, vars, inside, versions>> => LosesNothing
<1>. SUFFICES ASSUME DaemonInv, DaemonInv', [FakeNext]_<<side, vars, inside, versions>>
              PROVE  LosesNothing
  OBVIOUS
<1>1. ASSUME Next
      PROVE  LosesNothing
  <2>1. CASE ProjectStep
    BY <2>1, ProjectStepKeeps
  <2>2. CASE ~ProjectStep
    <3>1. KeepsAlmostAll
      BY <1>1, <2>2, InstanceStepKeeps, DeviceStepKeeps, ProfileStepKeeps, ProfileDeviceStepKeeps,
         NetworkStepKeeps, ZoneStepKeeps, PoolStepKeeps, VolumeStepKeeps, BucketStepKeeps,
         ImageStepKeeps DEF Next
    <3>. QED
      BY <3>1, LosesOne
  <2>. QED
    BY <2>1, <2>2
<1>2. ASSUME UNCHANGED vars
      PROVE  LosesNothing
  <2>1. KeepsAllBut(0)
    BY <1>2, KeepsSame DEF vars, KeepsAllBut
  <2>2. KeepsAlmostAll
    BY <2>1 DEF KeepsAlmostAll
  <2>. QED
    BY <2>2, LosesOne
<1>. QED
  BY <1>1, <1>2 DEF FakeNext

\* No call takes away what it does not name, for any projects, instances and
\* uploads: creating, changing, renaming or deleting a project loses nothing of
\* what any project shows and every other call at most one thing, and what a call
\* on one instance or volume does to files, snapshots and backups is not seen in
\* any other (projects.go, instances.go, files.go).
THEOREM CallsSpareOthers == FakeSpec => NothingElseChanges
<1> DEFINE Inv == DaemonInv /\ ContentsInv
           step == [FakeNext]_<<side, vars, inside, versions>>
<1>1. FakeInit => Inv
  BY DaemonStart, ContentsStart DEF FakeInit, NoContents, NoResources
<1>2. Inv /\ step => Inv'
  BY DaemonKept, ContentsKept
<1>3. Inv /\ Inv' /\ step => LosesNothing /\ Contents!OthersUntouched
  BY NothingIsLost, OthersStay
<1>. QED
  BY <1>1, <1>2, <1>3, PTL DEF FakeSpec, NothingElseChanges

-----------------------------------------------------------------------------
(* What refers to another resource goes on doing so.                       *)

\* A step that takes no ACL, network or pool away, renames no volume, and leaves
\* the names of profiles.
ACLsGrow == \A q \in Projects : spaces[q].acls \subseteq spaces'[q].acls
NetworksGrow == \A q \in Projects : DOMAIN spaces[q].networks \subseteq DOMAIN spaces'[q].networks
ProfilesStand == \A q \in Projects : DOMAIN spaces'[q].profiles = DOMAIN spaces[q].profiles

References == ACLsStay /\ InstancesStayConnected /\ RenamedVolumesAreFollowed /\ ProfilesAreFollowed

LEMMA GrowingKeeps ==
  ASSUME DaemonInv
  PROVE  /\ ACLsGrow => ACLsStay
         /\ NetworksGrow /\ pools \subseteq pools' => InstancesStayConnected
         /\ volumes' = volumes => RenamedVolumesAreFollowed
         /\ ProfilesStand => ProfilesAreFollowed
<1>1. ACLsGrow => ACLsStay
  BY DEF ACLsGrow, ACLsStay
<1>2. ASSUME NetworksGrow, pools \subseteq pools'
      PROVE  InstancesStayConnected
  <2>1. ASSUME NEW p \in DOMAIN projects, NEW i \in DOMAIN spaces[p].instances
        PROVE  StaysConnected(p, i)
    <3>1. p \in Projects
      BY DEF DaemonInv, Maps
    <3>2. Owner(p, "networks") \in Projects
      BY <3>1, OwnerIs
    <3>. QED
      BY <1>2, <3>2 DEF NetworksGrow, StaysConnected
  <2>. QED
    BY <2>1 DEF InstancesStayConnected
<1>3. volumes' = volumes => RenamedVolumesAreFollowed
  BY DEF RenamedVolumesAreFollowed
<1>4. ProfilesStand => ProfilesAreFollowed
  BY DEF ProfilesStand, ProfilesAreFollowed, ProfilesChange
<1>. QED
  BY <1>1, <1>2, <1>3, <1>4

\* Two spaces, the second of which has what references name in the first.
Supplies(sp, new) ==
  /\ sp.acls \subseteq new.acls
  /\ DOMAIN sp.networks \subseteq DOMAIN new.networks
  /\ DOMAIN new.profiles = DOMAIN sp.profiles

LEMMA SuppliesSame == ASSUME NEW sp PROVE Supplies(sp, sp)
BY DEF Supplies

LEMMA SuppliesPart ==
  ASSUME NEW sp, SpaceInv(sp), NEW f
  PROVE  /\ Supplies(sp, [sp EXCEPT !.instances = f])
         /\ Supplies(sp, [sp EXCEPT !.images = f])
         /\ DOMAIN f = DOMAIN sp.profiles => Supplies(sp, [sp EXCEPT !.profiles = f])
         /\ DOMAIN sp.networks \subseteq DOMAIN f => Supplies(sp, [sp EXCEPT !.networks = f])
         /\ sp.acls \subseteq f => Supplies(sp, [sp EXCEPT !.acls = f])
BY DEF Supplies, SpaceInv, Space

\* A step on one space's parts that references name, or on none.
LEMMA SuppliedKeep ==
  ASSUME DaemonInv, \A q \in Projects : Supplies(spaces[q], spaces'[q]),
         pools \subseteq pools', volumes' = volumes
  PROVE  References
<1>1. ACLsGrow /\ NetworksGrow /\ ProfilesStand
  BY DEF Supplies, ACLsGrow, NetworksGrow, ProfilesStand
<1>. QED
  BY <1>1, GrowingKeeps DEF References

LEMMA SetSpaceReferences ==
  ASSUME DaemonInv, NEW o \in Projects, NEW sp, Supplies(spaces[o], sp),
         spaces' = [spaces EXCEPT ![o] = sp], UNCHANGED <<pools, volumes>>
  PROVE  References
<1>1. spaces' = [q \in Projects |-> IF q = o THEN sp ELSE spaces[q]]
  BY DEF DaemonInv
<1>2. \A q \in Projects : Supplies(spaces[q], spaces'[q])
  BY <1>1, SuppliesSame
<1>. QED
  BY <1>2, SuppliedKeep

LEMMA SetInstancesReferences ==
  ASSUME DaemonInv, NEW p \in Projects, NEW f, SetInstances(p, f)
  PROVE  References
<1>1. Supplies(spaces[p], [spaces[p] EXCEPT !.instances = f])
  BY SpaceIs, SuppliesPart
<1>2. spaces' = [spaces EXCEPT ![p] = [spaces[p] EXCEPT !.instances = f]] /\ UNCHANGED <<pools, volumes>>
  BY DEF SetInstances, storage
<1>. QED
  BY <1>1, <1>2, SetSpaceReferences

LEMMA SetImagesReferences ==
  ASSUME DaemonInv, NEW p \in Projects, NEW f, SetImages(p, f)
  PROVE  References
<1> DEFINE o == Owner(p, "images")
<1>1. o \in Projects
  BY OwnerIs
<1>2. spaces' = [spaces EXCEPT ![o] = [spaces[o] EXCEPT !.images = f]] /\ UNCHANGED <<pools, volumes>>
  BY DEF SetImages, storage
<1>. HIDE DEF o
<1>3. Supplies(spaces[o], [spaces[o] EXCEPT !.images = f])
  BY <1>1, SpaceIs, SuppliesPart
<1>. QED
  BY <1>1, <1>2, <1>3, SetSpaceReferences

\* Only the instances change, of whatever project.
LEMMA InstancesOnlyReferences ==
  ASSUME DaemonInv, NEW g, spaces' = [q \in Projects |-> [spaces[q] EXCEPT !.instances = g[q]]]
  PROVE  /\ ACLsGrow /\ NetworksGrow /\ ProfilesStand
         /\ \A q \in Projects : spaces'[q].instances = g[q]
<1>1. ASSUME NEW q \in Projects
      PROVE  Supplies(spaces[q], spaces'[q]) /\ spaces'[q].instances = g[q]
  <2>1. spaces'[q] = [spaces[q] EXCEPT !.instances = g[q]]
    OBVIOUS
  <2>2. SpaceInv(spaces[q])
    BY SpaceIs
  <2> DEFINE f == g[q]
  <2>. HIDE DEF f
  <2>3. Supplies(spaces[q], [spaces[q] EXCEPT !.instances = f])
    BY <2>2, SuppliesPart
  <2>4. [spaces[q] EXCEPT !.instances = f].instances = f
    BY <2>2 DEF SpaceInv, Space
  <2>. QED
    BY <2>1, <2>3, <2>4 DEF f
<1>. QED
  BY <1>1 DEF Supplies, ACLsGrow, NetworksGrow, ProfilesStand

LEMMA InstanceStepReferences == ASSUME DaemonInv, InstanceStep PROVE References
<1>1. ASSUME NEW p \in Projects, NEW i \in Instances, NEW j \in Instances, MigrateWithin(p, i, j)
      PROVE  References
  <2> DEFINE g == Without(spaces[p].instances, i)
             sp == [spaces[p] EXCEPT !.instances = g]
             left == [spaces EXCEPT ![p] = sp]
             in == spaces[p].instances[i]
             f == With(left[default].instances, j, in)
             dsp == [left[default] EXCEPT !.instances = f]
  <2>1. spaces' = [left EXCEPT ![default] = dsp] /\ UNCHANGED <<pools, volumes>>
    BY <1>1 DEF MigrateWithin, storage
  <2>2. Supplies(spaces[p], sp) /\ sp \in Space
    <3>1. g \in Maps(Instances, Instance)
      BY SpaceIs, IsMapWithout
    <3>. HIDE DEF g
    <3>2. Supplies(spaces[p], sp)
      BY SpaceIs, SuppliesPart
    <3>3. sp \in Space
      BY <3>1, SpaceIs DEF Space
    <3>. QED
      BY <3>2, <3>3
  <2>. HIDE DEF g, sp, in, f
  <2>3. left = [q \in Projects |-> IF q = p THEN sp ELSE spaces[q]]
    BY DEF DaemonInv
  <2>4. ASSUME NEW q \in Projects
        PROVE  left[q] \in Space /\ Supplies(spaces[q], left[q])
    BY <2>2, <2>3, SpaceIs, SuppliesSame
  <2>. HIDE DEF left
  <2>5. ASSUME NEW q \in Projects
        PROVE  Supplies(spaces[q], spaces'[q])
    <3>1. CASE q = default
      <4>1. spaces'[q] = dsp
        BY <2>1, <2>3, <3>1
      <4>2. dsp.acls = left[q].acls /\ dsp.networks = left[q].networks /\ dsp.profiles = left[q].profiles
        BY <2>4, <3>1 DEF Space
      <4>. HIDE DEF dsp
      <4>. QED
        BY <2>4, <4>1, <4>2 DEF Supplies
    <3>2. CASE q # default
      <4>1. spaces'[q] = left[q]
        BY <2>1, <2>3, <3>2
      <4>. QED
        BY <2>4, <4>1
    <3>. QED
      BY <3>1, <3>2
  <2>. QED
    BY <2>1, <2>5, SuppliedKeep
<1>2. ASSUME ~\E p \in Projects, i \in Instances, j \in Instances : MigrateWithin(p, i, j)
      PROVE  \E p \in Projects : \E f : SetInstances(p, f)
  <2>1. default \in Projects
    BY DEF Projects
  <2>2. PICK p \in Projects, i \in Instances, j \in Instances : \E ps, d, s :
          \/ CreateInstance(p, i, ps, d, s) \/ setStatus(p, i, s) \/ DeleteInstance(p, i)
          \/ CloneInstance(p, i, j) \/ RenameInstance(p, i, j) \/ ImportInstance(p, i)
          \/ MigrateInstance(i, ps, d)
    BY <1>2, <2>1, CallersAre DEF InstanceStep
  <2>. QED
    BY <2>1, <2>2 DEF CreateInstance, setStatus, DeleteInstance, CloneInstance, RenameInstance,
      ImportInstance, MigrateInstance
<1>. QED
  BY <1>1, <1>2, SetInstancesReferences

LEMMA DeviceStepReferences == ASSUME DaemonInv, DeviceStep PROVE References
<1>1. \E p \in Projects : \E f : SetInstances(p, f)
  BY CallersAre DEF DeviceStep, AddDevice, UpdateDevice, RemoveDevice
<1>. QED
  BY <1>1, SetInstancesReferences

LEMMA ImageStepReferences == ASSUME DaemonInv, ImageStep PROVE References
<1>1. \E p \in Projects : \E f : SetImages(p, f)
  BY CallersAre DEF ImageStep, PublishImage, ImportImage, DeleteImage, AddImageAlias, CopyImage,
    RemoveImageAlias
<1>. QED
  BY <1>1, SetImagesReferences

LEMMA ProfileDeviceStepReferences == ASSUME DaemonInv, ProfileDeviceStep PROVE References
<1>1. PICK p \in Callers, n \in ProfileNames, d \in Devices : SetProfileDevice(p, n, d)
  BY DEF ProfileDeviceStep
<1> DEFINE o == Owner(p, "profiles")
           f == [spaces[o].profiles EXCEPT ![n] = d]
<1>2. o \in Projects
  BY CallersAre, OwnerIs
<1>3. spaces' = [spaces EXCEPT ![o] = [spaces[o] EXCEPT !.profiles = f]] /\ UNCHANGED <<pools, volumes>>
  BY <1>1 DEF SetProfileDevice, SetProfiles, ProfilesSeen, storage
<1>4. DOMAIN f = DOMAIN spaces[o].profiles
  OBVIOUS
<1>. HIDE DEF o, f
<1>5. Supplies(spaces[o], [spaces[o] EXCEPT !.profiles = f])
  BY <1>2, <1>4, SpaceIs, SuppliesPart
<1>. QED
  BY <1>2, <1>3, <1>5, SetSpaceReferences

LEMMA ZoneStepReferences == ASSUME DaemonInv, ZoneStep PROVE References
<1>1. PICK p \in Projects : \E sp : /\ SetZoneSpace(p, sp)
                                     /\ sp.acls = ZoneSpace(p).acls
                                     /\ sp.networks = ZoneSpace(p).networks
                                     /\ sp.profiles = ZoneSpace(p).profiles
  <2>1. PICK p \in Projects, z \in Zones : \E r :
          \/ CreateNetworkZone(p, z) \/ DeleteNetworkZone(p, z)
          \/ CreateZoneRecord(p, z, r) \/ DeleteZoneRecord(p, z, r)
    BY CallersAre DEF ZoneStep
  <2> DEFINE old == ZoneSpace(p)
  <2>2. old \in Space
    BY OwnerIs, SpaceIs DEF ZoneSpace
  <2>3. PICK zs, rs : \/ SetZoneSpace(p, [old EXCEPT !.zones = zs])
                      \/ SetZoneSpace(p, [old EXCEPT !.records = rs])
                      \/ SetZoneSpace(p, [old EXCEPT !.zones = zs, !.records = rs])
    BY <2>1 DEF CreateNetworkZone, DeleteNetworkZone, CreateZoneRecord, DeleteZoneRecord
  <2>. HIDE DEF old
  <2> DEFINE Alike(new) ==
        new.acls = old.acls /\ new.networks = old.networks /\ new.profiles = old.profiles
  <2>4. /\ Alike([old EXCEPT !.zones = zs]) /\ Alike([old EXCEPT !.records = rs])
        /\ Alike([old EXCEPT !.zones = zs, !.records = rs])
    BY <2>2 DEF Space
  <2>5. \E new : SetZoneSpace(p, new) /\ Alike(new)
    <3>. HIDE DEF Alike
    <3>. QED
      BY <2>3, <2>4
  <2>. QED
    BY <2>5 DEF old
<1>0. PICK sp : /\ SetZoneSpace(p, sp)
                /\ sp.acls = ZoneSpace(p).acls /\ sp.networks = ZoneSpace(p).networks
                /\ sp.profiles = ZoneSpace(p).profiles
  BY <1>1
<1> DEFINE o == Owner(p, "zones")
<1>2. o \in Projects
  BY OwnerIs
<1>3. spaces' = [spaces EXCEPT ![o] = sp] /\ UNCHANGED <<pools, volumes>>
  BY <1>0 DEF SetZoneSpace, storage
<1>4. Supplies(spaces[o], sp)
  BY <1>0 DEF Supplies, ZoneSpace
<1>. QED
  BY <1>2, <1>3, <1>4, SetSpaceReferences

LEMMA BucketStepReferences == ASSUME DaemonInv, BucketStep PROVE References
<1>1. UNCHANGED <<spaces, pools, volumes>>
  BY DEF BucketStep, CreateBucket, DeleteBucket, SetStorage
<1>. QED
  BY <1>1, SuppliesSame, SuppliedKeep

\* The instances that share a namespace, and what UsersByName makes of those that
\* share no name.
LEMMA UserIs ==
  ASSUME DaemonInv, NEW p \in Projects, NEW q \in DOMAIN projects, NEW i \in Instances, NEW feature,
         Owner(q, feature) = Owner(p, feature), HasInstance(q, i), Unambiguous(q, i, feature),
         NEW users \in UsersByName(p, feature)
  PROVE  <<q, i>> \in users
<1> DEFINE sharers == Sharers(Owner(p, feature), feature)
           all == {x \in sharers \X Instances : HasInstance(x[1], x[2])}
<1>1. users \subseteq all /\ \A x \in all : \E y \in users : y[2] = x[2]
  BY DEF UsersByName
<1>2. q \in sharers
  BY DEF Sharers, DaemonInv, Maps
<1>3. <<q, i>> \in all
  BY <1>2
<1>4. PICK y \in users : y[2] = i
  BY <1>1, <1>3
<1>5. y \in all
  BY <1>1, <1>4
<1>6. y = <<y[1], y[2]>> /\ y[1] \in sharers /\ HasInstance(y[1], i)
  BY <1>4, <1>5
<1>7. sharers = Sharers(Owner(q, feature), feature)
  OBVIOUS
<1>8. y[1] = q
  BY <1>6, <1>7 DEF Unambiguous
<1>. QED
  BY <1>4, <1>6, <1>8

\* Whoever has been collected shares the namespace.
LEMMA UserShares ==
  ASSUME NEW p, NEW feature, NEW users \in UsersByName(p, feature), NEW q, NEW i, <<q, i>> \in users
  PROVE  Owner(q, feature) = Owner(p, feature)
BY DEF UsersByName, Sharers

LEMMA ReferencesAre ==
  ASSUME DaemonInv, NEW p \in DOMAIN projects, NEW i, HasInstance(p, i)
  PROVE  p \in Projects /\ i \in Instances /\ spaces[p].instances[i] \in Instance
<1>1. p \in Projects
  BY DEF DaemonInv, Maps
<1>. QED
  BY <1>1, HadInstance

\* An ACL without users is taken away or renamed.
LEMMA ACLGoes ==
  ASSUME DaemonInv, NEW p \in Projects, NEW a \in ACLs, ACLUsers(p, a) = {}, NEW s,
         NetworkSpace(p).acls \ {a} \subseteq s, projects' = projects,
         SetNetworkSpace(p, [NetworkSpace(p) EXCEPT !.acls = s])
  PROVE  References
<1> DEFINE o == Owner(p, "networks")
           sp == [spaces[o] EXCEPT !.acls = s]
<1>1. o \in Projects /\ NetworkSpace(p) = spaces[o]
  BY OwnerIs DEF NetworkSpace
<1>2. spaces' = [spaces EXCEPT ![o] = sp] /\ UNCHANGED <<pools, volumes>>
  BY <1>1 DEF SetNetworkSpace, storage
<1>3. /\ sp.acls = s /\ sp.networks = spaces[o].networks /\ sp.profiles = spaces[o].profiles
      /\ sp.instances = spaces[o].instances
  BY <1>1, SpaceIs DEF Space
<1>. HIDE DEF sp
<1>4. spaces' = [q \in Projects |-> IF q = o THEN sp ELSE spaces[q]]
  BY <1>1, <1>2 DEF DaemonInv
<1>5. ASSUME NEW q \in Projects
      PROVE  /\ spaces'[q].instances = spaces[q].instances /\ spaces'[q].networks = spaces[q].networks
             /\ spaces'[q].profiles = spaces[q].profiles
             /\ spaces[q].acls \ {a} \subseteq spaces'[q].acls
             /\ q # o => spaces'[q].acls = spaces[q].acls
  BY <1>1, <1>3, <1>4
<1>6. InstancesStayConnected /\ RenamedVolumesAreFollowed /\ ProfilesAreFollowed
  BY <1>2, <1>5, GrowingKeeps DEF NetworksGrow, ProfilesStand
<1>7. ASSUME NEW q \in DOMAIN projects, NEW i \in Instances, HasInstance(q, i)
      PROVE  ACLsOf(q, i) \subseteq ACLsOf(q, i)'
  <2>1. q \in Projects /\ Owner(q, "networks") \in Projects /\ Owner(q, "profiles") \in Projects
    BY <1>7, ReferencesAre, OwnerIs
  <2>2. \A feature : Owner(q, feature)' = Owner(q, feature)
    BY DEF Owner
  <2>3. Expanded(q, i)' = Expanded(q, i)
    <3>1. spaces'[q].instances[i] = spaces[q].instances[i]
      BY <1>5, <2>1
    <3>2. ProfilesSeen(q)' = ProfilesSeen(q)
      BY <1>5, <2>1, <2>2 DEF ProfilesSeen
    <3>. QED
      BY <3>1, <3>2 DEF Expanded
  <2>4. CASE Owner(q, "networks") # o
    BY <1>5, <2>1, <2>2, <2>3, <2>4 DEF ACLsOf
  <2>5. CASE Owner(q, "networks") = o
    <3>1. ~NicNames(Expanded(q, i), a)
      <4>1. q \in Sharers(o, "networks")
        BY <2>1, <2>5 DEF Sharers
      <4> DEFINE named == {x \in Sharers(o, "networks") \X Instances :
                            HasInstance(x[1], x[2]) /\ NicNames(Expanded(x[1], x[2]), a)}
      <4>2. named \subseteq ACLUsers(p, a)
        BY DEF ACLUsers
      <4>3. <<q, i>> \notin named
        BY <4>2
      <4>. QED
        BY <1>7, <4>1, <4>3
    <3>2. CASE Expanded(q, i).network = None
      BY <3>2 DEF ACLsOf
    <3>3. CASE Expanded(q, i).network # None
      <4>1. a \notin Expanded(q, i).acls
        BY <3>1, <3>3 DEF NicNames
      <4>. QED
        BY <1>1, <1>5, <2>2, <2>3, <2>5, <3>3, <4>1 DEF ACLsOf
    <3>. QED
      BY <3>2, <3>3
  <2>. QED
    BY <2>4, <2>5
<1>8. ASSUME NEW q \in DOMAIN projects, NEW n \in Networks, n \in DOMAIN spaces[q].networks
      PROVE  ACLsOn(q, n) \subseteq ACLsOn(q, n)'
  <2>1. q \in Projects
    BY DEF DaemonInv, Maps
  <2>2. CASE q # o
    BY <1>5, <2>1, <2>2 DEF ACLsOn
  <2>3. CASE q = o
    <3>1. a \notin spaces[q].networks[n].acls
      BY <1>1, <1>8, <2>3 DEF ACLUsers
    <3>. QED
      BY <1>5, <2>1, <3>1 DEF ACLsOn
  <2>. QED
    BY <2>2, <2>3
<1>9. ACLsStay
  BY <1>7, <1>8 DEF ACLsStay, ACLsKept
<1>. QED
  BY <1>6, <1>9 DEF References

\* A network without users is deleted.
LEMMA NetworkGoes ==
  ASSUME DaemonInv, NEW p \in Projects, NEW n \in Networks, DeleteNetwork(p, n)
  PROVE  References
<1> DEFINE o == Owner(p, "networks")
           f == Without(spaces[o].networks, n)
           sp == [spaces[o] EXCEPT !.networks = f]
<1>1. o \in Projects /\ NetworkSpace(p) = spaces[o]
  BY OwnerIs DEF NetworkSpace
<1>2. spaces' = [spaces EXCEPT ![o] = sp] /\ UNCHANGED <<projects, pools, volumes>>
  BY <1>1 DEF DeleteNetwork, SetNetworkSpace, storage
<1>3. DOMAIN f = DOMAIN spaces[o].networks \ {n}
  BY DEF Without
<1>. HIDE DEF f
<1>4. sp.acls = spaces[o].acls /\ sp.networks = f /\ sp.profiles = spaces[o].profiles
  BY <1>1, SpaceIs DEF Space
<1>. HIDE DEF sp
<1>5. spaces' = [q \in Projects |-> IF q = o THEN sp ELSE spaces[q]]
  BY <1>1, <1>2 DEF DaemonInv
<1>6. ASSUME NEW q \in Projects
      PROVE  /\ spaces[q].acls \subseteq spaces'[q].acls
             /\ DOMAIN spaces[q].networks \ {n} \subseteq DOMAIN spaces'[q].networks
             /\ DOMAIN spaces'[q].profiles = DOMAIN spaces[q].profiles
             /\ q # o => DOMAIN spaces'[q].networks = DOMAIN spaces[q].networks
  BY <1>1, <1>3, <1>4, <1>5
<1>7. ACLsStay /\ RenamedVolumesAreFollowed /\ ProfilesAreFollowed
  BY <1>2, <1>6, GrowingKeeps DEF ACLsGrow, ProfilesStand
<1>8. ASSUME NEW q \in DOMAIN projects, NEW i \in DOMAIN spaces[q].instances
      PROVE  StaysConnected(q, i)
  <2> DEFINE in == spaces[q].instances[i]
             net == in.device.network
  <2>1. q \in Projects /\ i \in Instances /\ HasInstance(q, i) /\ Owner(q, "networks") \in Projects
    BY ReferencesAre, OwnerIs DEF HasInstance
  <2>2. ASSUME Unambiguous(q, i, "networks"), Owner(q, "networks") = o
        PROVE  net # n
    <3>1. PICK users \in UsersByName(p, "networks") : \A x \in users :
            n \notin NetworksUsed(spaces[x[1]].instances[x[2]], ProfilesSeen(p))
      BY DEF DeleteNetwork
    <3>2. <<q, i>> \in users
      BY <2>1, <2>2, <3>1, UserIs
    <3>3. n \notin NetworksUsed(in, ProfilesSeen(p))
      BY <3>1, <3>2
    <3>. QED
      BY <3>3 DEF NetworksUsed
  <2>3. ASSUME Unambiguous(q, i, "networks"), net \in DOMAIN spaces[Owner(q, "networks")].networks
        PROVE  net \in DOMAIN spaces'[Owner(q, "networks")].networks
    <3>1. CASE Owner(q, "networks") = o
      BY <1>1, <1>6, <2>2, <2>3, <3>1
    <3>2. CASE Owner(q, "networks") # o
      BY <1>6, <2>1, <2>3, <3>2
    <3>. QED
      BY <3>1, <3>2
  <2>. QED
    BY <1>2, <2>3 DEF StaysConnected
<1>9. InstancesStayConnected
  BY <1>8 DEF InstancesStayConnected
<1>. QED
  BY <1>7, <1>9 DEF References

LEMMA NetworkStepReferences == ASSUME DaemonInv, NetworkStep PROVE References
<1>1. ASSUME NEW p \in Projects, NEW sp, SetNetworkSpace(p, sp), Supplies(NetworkSpace(p), sp)
      PROVE  References
  <2> DEFINE o == Owner(p, "networks")
  <2>1. o \in Projects /\ NetworkSpace(p) = spaces[o]
    BY OwnerIs DEF NetworkSpace
  <2>2. spaces' = [spaces EXCEPT ![o] = sp] /\ UNCHANGED <<pools, volumes>>
    BY <1>1 DEF SetNetworkSpace, storage
  <2>. HIDE DEF o
  <2>. QED
    BY <1>1, <2>1, <2>2, SetSpaceReferences
<1>2. ASSUME NEW p \in Projects
      PROVE  SpaceInv(NetworkSpace(p))
  BY OwnerIs, SpaceIs DEF NetworkSpace
<1>3. ASSUME NEW p \in Projects, NEW n \in Networks, NEW c,
             CreateNetwork(p, n, c) \/ UpdateNetwork(p, n, c)
      PROVE  References
  <2>1. PICK f : /\ SetNetworkSpace(p, [NetworkSpace(p) EXCEPT !.networks = f])
                 /\ DOMAIN NetworkSpace(p).networks \subseteq DOMAIN f
    <3> DEFINE old == NetworkSpace(p).networks
    <3>1. \/ SetNetworkSpace(p, [NetworkSpace(p) EXCEPT !.networks = With(old, n, c)])
          \/ SetNetworkSpace(p, [NetworkSpace(p) EXCEPT !.networks = [old EXCEPT ![n] = c]])
      BY <1>3 DEF CreateNetwork, UpdateNetwork
    <3>2. DOMAIN old \subseteq DOMAIN With(old, n, c)
      BY DEF With
    <3>3. DOMAIN old \subseteq DOMAIN [old EXCEPT ![n] = c]
      OBVIOUS
    <3>. QED
      BY <3>1, <3>2, <3>3
  <2>2. Supplies(NetworkSpace(p), [NetworkSpace(p) EXCEPT !.networks = f])
    BY <1>2, <2>1, SuppliesPart
  <2>. QED
    BY <1>1, <2>1, <2>2
<1>4. ASSUME NEW p \in Projects, NEW a \in ACLs, CreateNetworkACL(p, a)
      PROVE  References
  <2> DEFINE s == NetworkSpace(p).acls \cup {a}
  <2>1. SetNetworkSpace(p, [NetworkSpace(p) EXCEPT !.acls = s]) /\ NetworkSpace(p).acls \subseteq s
    BY <1>4 DEF CreateNetworkACL
  <2>. HIDE DEF s
  <2>2. Supplies(NetworkSpace(p), [NetworkSpace(p) EXCEPT !.acls = s])
    BY <1>2, <2>1, SuppliesPart
  <2>. QED
    BY <1>1, <2>1, <2>2
<1>5. ASSUME NEW p \in Projects, NEW a \in ACLs, NEW s, ACLUsers(p, a) = {},
             NetworkSpace(p).acls \ {a} \subseteq s,
             SetNetworkSpace(p, [NetworkSpace(p) EXCEPT !.acls = s])
      PROVE  References
  <2>1. projects' = projects
    BY <1>5 DEF SetNetworkSpace
  <2>. QED
    BY <1>5, <2>1, ACLGoes
<1>6. ASSUME NEW p \in Projects, NEW a \in ACLs, DeleteNetworkACL(p, a)
      PROVE  References
  <2> DEFINE s == NetworkSpace(p).acls \ {a}
  <2>1. /\ SetNetworkSpace(p, [NetworkSpace(p) EXCEPT !.acls = s]) /\ ACLUsers(p, a) = {}
        /\ NetworkSpace(p).acls \ {a} \subseteq s
    BY <1>6 DEF DeleteNetworkACL
  <2>. HIDE DEF s
  <2>. QED
    BY <1>5, <2>1
<1>7. ASSUME NEW p \in Projects, NEW a \in ACLs, NEW b \in ACLs, RenameNetworkACL(p, a, b)
      PROVE  References
  <2> DEFINE s == (NetworkSpace(p).acls \ {a}) \cup {b}
  <2>1. /\ SetNetworkSpace(p, [NetworkSpace(p) EXCEPT !.acls = s]) /\ ACLUsers(p, a) = {}
        /\ NetworkSpace(p).acls \ {a} \subseteq s
    BY <1>7 DEF RenameNetworkACL
  <2>. HIDE DEF s
  <2>. QED
    BY <1>5, <2>1
<1>. QED
  BY CallersAre, NetworkGoes, <1>3, <1>4, <1>6, <1>7 DEF NetworkStep

\* A pool without users is deleted.
LEMMA PoolStepReferences == ASSUME DaemonInv, PoolStep PROVE References
<1>1. PICK pl \in Pools : CreateStoragePool(pl) \/ DeleteStoragePool(pl)
  BY DEF PoolStep
<1>2. UNCHANGED <<spaces, volumes>>
  BY <1>1 DEF CreateStoragePool, DeleteStoragePool, SetStorage
<1>3. CASE CreateStoragePool(pl)
  <2>1. pools \subseteq pools'
    BY <1>3 DEF CreateStoragePool, SetStorage
  <2>. QED
    BY <1>2, <2>1, SuppliesSame, SuppliedKeep
<1>4. CASE DeleteStoragePool(pl)
  <2>1. PoolUsers(pl) = {} /\ pools' = pools \ {pl}
    BY <1>4 DEF DeleteStoragePool, SetStorage
  <2>2. ACLsStay /\ RenamedVolumesAreFollowed /\ ProfilesAreFollowed
    BY <1>2, GrowingKeeps DEF ACLsGrow, ProfilesStand
  <2>3. ASSUME NEW q \in DOMAIN projects, NEW i \in DOMAIN spaces[q].instances
        PROVE  StaysConnected(q, i)
    <3>1. q \in Projects /\ i \in Instances /\ HasInstance(q, i)
      BY ReferencesAre DEF HasInstance
    <3>2. spaces[q].instances[i].device.pool # pl
      <4> DEFINE named == {x \in Projects \X Instances :
                            HasInstance(x[1], x[2]) /\ spaces[x[1]].instances[x[2]].device.pool = pl}
      <4>1. named \subseteq PoolUsers(pl)
        BY DEF PoolUsers
      <4>2. <<q, i>> \notin named
        BY <2>1, <4>1
      <4>. QED
        BY <3>1, <4>2
    <3>. QED
      BY <1>2, <2>1, <3>2 DEF StaysConnected
  <2>. QED
    BY <2>2, <2>3 DEF References, InstancesStayConnected
<1>. QED
  BY <1>1, <1>3, <1>4

\* A volume more or less is no renaming; the devices follow a renaming.
LEMMA CountOfVolumes ==
  ASSUME DaemonInv, NEW v, \/ v \notin volumes /\ volumes' = volumes \cup {v}
                           \/ v \in volumes /\ volumes' = volumes \ {v}
  PROVE  RenamedVolumesAreFollowed
<1>1. volumes \subseteq Pools \X Projects \X Volumes
  <2>1. DOMAIN projects \subseteq Projects
    BY DEF DaemonInv, Maps
  <2>. QED
    BY <2>1 DEF DaemonInv, StorageInv
<1>2. IsFiniteSet(volumes)
  BY <1>1, PlacesFinite, FS_Subset
<1>3. Cardinality(volumes) \in Nat
  BY <1>2, FS_CardinalityType
<1>4. \/ v \notin volumes /\ Cardinality(volumes') = Cardinality(volumes) + 1
      \/ v \in volumes /\ Cardinality(volumes') = Cardinality(volumes) - 1
  BY <1>2, FS_AddElement, FS_RemoveElement
<1>5. Cardinality(volumes') # Cardinality(volumes)
  BY <1>3, <1>4
<1>. QED
  BY <1>5 DEF RenamedVolumesAreFollowed

LEMMA RenamedVolumeIsFollowed ==
  ASSUME DaemonInv, NEW p \in Projects, NEW pl \in Pools, NEW v \in Volumes, NEW w \in Volumes,
         RenameVolume(p, pl, v, w)
  PROVE  References
<1> DEFINE o == Owner(p, "volumes")
           users == Attached(p, pl, v)
           g == [q \in Projects |-> Reattached(spaces[q].instances, q, users, w)]
<1>1. /\ spaces' = [q \in Projects |-> [spaces[q] EXCEPT !.instances = g[q]]]
      /\ volumes' = (volumes \ {<<pl, o, v>>}) \cup {<<pl, o, w>>}
      /\ projects' = projects /\ pools' = pools
      /\ \A x \in users : spaces[x[1]].instances[x[2]].status # "Running"
  BY DEF RenameVolume, Volume
<1>2. \A q \in Projects : g[q] = Reattached(spaces[q].instances, q, users, w)
  OBVIOUS
<1>3. ASSUME NEW q \in Projects, NEW i \in Instances, HasInstance(q, i)
      PROVE  LET d == spaces[q].instances[i].device IN
             <<q, i>> \in users <=>
               Owner(q, "volumes") = o /\ d.pool = pl /\ d.source = v
  BY <1>3 DEF Attached, Attaching, Sharers
<1>. HIDE DEF g, users
<1>4. ACLsGrow /\ NetworksGrow /\ ProfilesStand /\ \A q \in Projects : spaces'[q].instances = g[q]
  BY <1>1, InstancesOnlyReferences
<1>5. ACLsStay /\ InstancesStayConnected /\ ProfilesAreFollowed
  BY <1>1, <1>4, GrowingKeeps
<1>6. ASSUME NEW q \in DOMAIN projects, NEW i \in DOMAIN spaces[q].instances
      PROVE  /\ HasVolume(q, i) => HasVolume(q, i)'
             /\ spaces[q].instances[i].status = "Running"
                  => spaces'[q].instances[i] = spaces[q].instances[i]
  <2> DEFINE in == spaces[q].instances[i]
  <2>1. q \in Projects /\ i \in Instances /\ in \in Instance /\ HasInstance(q, i)
    BY ReferencesAre DEF HasInstance
  <2>2. spaces'[q].instances[i] = IF <<q, i>> \notin users THEN in
                                  ELSE [in EXCEPT !.device.source = w]
    <3> DEFINE old == spaces[q].instances
    <3>1. i \in DOMAIN old /\ spaces'[q].instances = Reattached(old, q, users, w)
      BY <1>2, <1>4, <2>1
    <3>. HIDE DEF old
    <3>2. Reattached(old, q, users, w)[i] = IF <<q, i>> \notin users THEN old[i]
                                            ELSE [old[i] EXCEPT !.device.source = w]
      BY <3>1 DEF Reattached
    <3>. QED
      BY <3>1, <3>2 DEF old
  <2>3. Owner(q, "volumes")' = Owner(q, "volumes")
    BY <1>1 DEF Owner
  <2>4. <<q, i>> \in users <=>
          Owner(q, "volumes") = o /\ in.device.pool = pl /\ in.device.source = v
    BY <1>3, <2>1
  <2>5. in.status = "Running" => spaces'[q].instances[i] = in
    BY <1>1, <2>2
  <2>6. CASE <<q, i>> \in users
    <3>1. [in EXCEPT !.device.source = w].device.pool = in.device.pool
          /\ [in EXCEPT !.device.source = w].device.source = w
      <4>1. in.device \in Device
        BY <2>1, InstanceIs
      <4>. QED
        BY <2>1, <4>1 DEF Instance, Device
    <3> DEFINE new == spaces'[q].instances[i]
    <3>2. new.device.pool = pl /\ new.device.source = w
      BY <2>2, <2>4, <2>6, <3>1
    <3>3. HasVolume(q, i)' <=> <<new.device.pool, o, new.device.source>> \in volumes'
      BY <2>3, <2>4, <2>6 DEF HasVolume
    <3>4. <<pl, o, w>> \in volumes'
      BY <1>1
    <3>. HIDE DEF new
    <3>5. HasVolume(q, i)'
      BY <3>2, <3>3, <3>4
    <3>. QED
      BY <2>5, <3>5
  <2>7. CASE <<q, i>> \notin users
    <3> DEFINE place == <<in.device.pool, Owner(q, "volumes"), in.device.source>>
    <3>1. HasVolume(q, i) <=> place \in volumes
      BY DEF HasVolume
    <3>2. spaces'[q].instances[i] = in
      BY <2>2, <2>7
    <3>3. HasVolume(q, i)' <=> place \in volumes'
      BY <2>3, <3>2 DEF HasVolume
    <3>4. place # <<pl, o, v>>
      BY <2>4, <2>7
    <3>. HIDE DEF place
    <3>. QED
      BY <1>1, <2>5, <3>1, <3>3, <3>4
  <2>. QED
    BY <2>6, <2>7
<1>7. RenamedVolumesAreFollowed
  BY <1>6 DEF RenamedVolumesAreFollowed, VolumesFollow
<1>. QED
  BY <1>5, <1>7 DEF References

LEMMA VolumeStepReferences == ASSUME DaemonInv, VolumeStep PROVE References
<1>1. PICK p \in Projects, pl \in Pools, v \in Volumes :
        \/ CreateVolume(p, pl, v) \/ DeleteVolume(p, pl, v)
        \/ \E w \in Volumes : RenameVolume(p, pl, v, w)
  BY CallersAre DEF VolumeStep
<1>2. ASSUME CreateVolume(p, pl, v) \/ DeleteVolume(p, pl, v)
      PROVE  References
  <2> DEFINE x == Volume(p, pl, v)
  <2>1. /\ \/ x \notin volumes /\ volumes' = volumes \cup {x}
           \/ x \in volumes /\ volumes' = volumes \ {x}
        /\ UNCHANGED <<spaces, pools>>
    BY <1>2 DEF CreateVolume, DeleteVolume, SetStorage
  <2>. HIDE DEF x
  <2>2. RenamedVolumesAreFollowed
    BY <2>1, CountOfVolumes
  <2>3. ACLsStay /\ InstancesStayConnected /\ ProfilesAreFollowed
    BY <2>1, GrowingKeeps DEF ACLsGrow, NetworksGrow, ProfilesStand
  <2>. QED
    BY <2>2, <2>3 DEF References
<1>. QED
  BY <1>1, <1>2, RenamedVolumeIsFollowed

\* A namespace's profiles are replaced by others that have what the instances
\* sharing it name.
LEMMA SetProfilesReferences ==
  ASSUME DaemonInv, NEW p \in Projects, NEW f, SetProfiles(p, f),
         \A q \in DOMAIN projects : \A i \in Instances :
           /\ Owner(q, "profiles") = Owner(p, "profiles")
           /\ HasInstance(q, i) /\ Unambiguous(q, i, "profiles")
           => \A k \in DOMAIN spaces[q].instances[i].profiles :
                spaces[q].instances[i].profiles[k] \in DOMAIN ProfilesSeen(p)
                  => spaces[q].instances[i].profiles[k] \in DOMAIN f
  PROVE  References
<1> DEFINE o == Owner(p, "profiles")
           sp == [spaces[o] EXCEPT !.profiles = f]
<1>1. o \in Projects /\ ProfilesSeen(p) = spaces[o].profiles
  BY OwnerIs DEF ProfilesSeen
<1>2. spaces' = [spaces EXCEPT ![o] = sp] /\ UNCHANGED <<projects, pools, volumes>>
  BY DEF SetProfiles, storage
<1>3. /\ sp.acls = spaces[o].acls /\ sp.networks = spaces[o].networks /\ sp.profiles = f
      /\ sp.instances = spaces[o].instances
  BY <1>1, SpaceIs DEF Space
<1>. HIDE DEF sp
<1>4. spaces' = [q \in Projects |-> IF q = o THEN sp ELSE spaces[q]]
  BY <1>1, <1>2 DEF DaemonInv
<1>5. ASSUME NEW q \in Projects
      PROVE  /\ spaces'[q].acls = spaces[q].acls /\ spaces'[q].networks = spaces[q].networks
             /\ spaces'[q].instances = spaces[q].instances
             /\ spaces'[q].profiles = IF q = o THEN f ELSE spaces[q].profiles
  BY <1>1, <1>3, <1>4
<1>6. ACLsStay /\ InstancesStayConnected /\ RenamedVolumesAreFollowed
  BY <1>2, <1>5, GrowingKeeps DEF ACLsGrow, NetworksGrow
<1>7. ASSUME NEW q \in DOMAIN projects, NEW i \in Instances, Unambiguous(q, i, "profiles"),
             HasInstance(q, i), Resolved(q, i)
      PROVE  Resolved(q, i)'
  <2> DEFINE in == spaces[q].instances[i]
  <2>1. q \in Projects /\ Owner(q, "profiles") \in Projects
    BY <1>7, ReferencesAre, OwnerIs
  <2>2. Owner(q, "profiles")' = Owner(q, "profiles") /\ spaces'[q].instances[i] = in
    BY <1>2, <1>5, <2>1 DEF Owner
  <2>3. ASSUME NEW k \in DOMAIN in.profiles
        PROVE  in.profiles[k] \in DOMAIN ProfilesSeen(q)'
    <3>1. in.profiles[k] \in DOMAIN ProfilesSeen(q)
      BY <1>7 DEF Resolved
    <3>2. CASE Owner(q, "profiles") = o
      <4>1. ProfilesSeen(q) = ProfilesSeen(p)
        BY <3>2 DEF ProfilesSeen
      <4>2. in.profiles[k] \in DOMAIN f
        BY <1>7, <3>1, <3>2, <4>1
      <4>. QED
        BY <1>5, <2>1, <2>2, <3>2, <4>2 DEF ProfilesSeen
    <3>3. CASE Owner(q, "profiles") # o
      BY <1>5, <2>1, <2>2, <3>1, <3>3 DEF ProfilesSeen
    <3>. QED
      BY <3>2, <3>3
  <2>. QED
    BY <2>2, <2>3 DEF Resolved
<1>8. ProfilesAreFollowed
  BY <1>7 DEF ProfilesAreFollowed, Follows
<1>. QED
  BY <1>6, <1>8 DEF References

\* A renamed profile is found under its new name by who named it.
LEMMA RenamedProfileIsFollowed ==
  ASSUME DaemonInv, NEW p \in Projects, NEW n \in Profiles, NEW m \in Profiles,
         RenameProfile(p, n, m)
  PROVE  References
<1> DEFINE o == Owner(p, "profiles")
           was == ProfilesSeen(p)
           renamed == With(Without(was, n), m, was[n])
           osp == [spaces[o] EXCEPT !.profiles = renamed]
           moved == [spaces EXCEPT ![o] = osp]
<1>1. PICK users \in profileUsers(p) :
        spaces' = [q \in Projects |->
          [moved[q] EXCEPT !.instances = Renamed(moved[q].instances, q, users, n, m)]]
  BY DEF RenameProfile
<1>2. UNCHANGED <<projects, pools, volumes>>
  BY DEF RenameProfile, storage
<1>3. o \in Projects /\ was = spaces[o].profiles
  BY OwnerIs DEF ProfilesSeen
<1>4. DOMAIN renamed = (DOMAIN was \ {n}) \cup {m}
  BY DEF With, Without
<1>. HIDE DEF renamed, was
<1>5. /\ osp.acls = spaces[o].acls /\ osp.networks = spaces[o].networks /\ osp.profiles = renamed
      /\ osp.instances = spaces[o].instances /\ DOMAIN osp = DOMAIN newSpace
  BY <1>3, SpaceIs DEF Space, newSpace
<1>. HIDE DEF o, osp
<1>6. moved = [q \in Projects |-> IF q = o THEN osp ELSE spaces[q]]
  BY DEF DaemonInv
<1>. HIDE DEF moved
<1>7. ASSUME NEW q \in Projects
      PROVE  /\ spaces'[q].acls = spaces[q].acls /\ spaces'[q].networks = spaces[q].networks
             /\ spaces'[q].instances = Renamed(spaces[q].instances, q, users, n, m)
             /\ spaces'[q].profiles = IF q = o THEN renamed ELSE spaces[q].profiles
  <2> DEFINE sp == moved[q]
             f == Renamed(sp.instances, q, users, n, m)
             new == [sp EXCEPT !.instances = f]
  <2>1. spaces'[q] = new
    BY <1>1
  <2>2. DOMAIN sp = DOMAIN newSpace
    BY <1>5, <1>6, SpaceIs DEF Space, newSpace
  <2>3. /\ sp.acls = spaces[q].acls /\ sp.networks = spaces[q].networks
        /\ sp.instances = spaces[q].instances
        /\ sp.profiles = IF q = o THEN renamed ELSE spaces[q].profiles
    BY <1>5, <1>6
  <2>. HIDE DEF sp
  <2>. HIDE DEF f
  <2>4. /\ new.instances = f /\ new.profiles = sp.profiles /\ new.networks = sp.networks
        /\ new.acls = sp.acls
    BY <2>2 DEF newSpace
  <2>. HIDE DEF new
  <2>. QED
    BY <2>1, <2>3, <2>4 DEF f
<1>8. ACLsStay /\ InstancesStayConnected /\ RenamedVolumesAreFollowed
  BY <1>2, <1>7, GrowingKeeps DEF ACLsGrow, NetworksGrow
<1>9. ASSUME NEW q \in DOMAIN projects, NEW i \in Instances, Unambiguous(q, i, "profiles"),
             HasInstance(q, i), Resolved(q, i)
      PROVE  Resolved(q, i)'
  <2> DEFINE in == spaces[q].instances[i]
             new == spaces'[q].instances[i]
  <2>1. q \in Projects /\ Owner(q, "profiles") \in Projects /\ in \in Instance
    BY <1>9, ReferencesAre, OwnerIs
  <2>2. Owner(q, "profiles")' = Owner(q, "profiles")
    BY <1>2 DEF Owner
  <2>3. new = IF <<q, i>> \notin users THEN in
              ELSE [in EXCEPT !.profiles =
                      [k \in DOMAIN in.profiles |-> IF in.profiles[k] = n THEN m ELSE in.profiles[k]]]
    <3> DEFINE old == spaces[q].instances
    <3>1. i \in DOMAIN old /\ new = Renamed(old, q, users, n, m)[i]
      BY <1>7, <1>9, <2>1 DEF HasInstance
    <3>2. in = old[i]
      OBVIOUS
    <3>. HIDE DEF old, in
    <3>. QED
      BY <3>1, <3>2 DEF Renamed
  <2>4. \A k \in DOMAIN in.profiles : in.profiles[k] \in DOMAIN ProfilesSeen(q)
    BY <1>9 DEF Resolved
  <2>5. ProfilesSeen(q) = spaces[Owner(q, "profiles")].profiles
        /\ ProfilesSeen(q)' = spaces'[Owner(q, "profiles")].profiles
    BY <2>2 DEF ProfilesSeen
  <2>6. CASE Owner(q, "profiles") = o
    <3>1. <<q, i>> \in users
      <4>1. users \in UsersByName(p, "profiles")
        BY DEF profileUsers
      <4>. QED
        BY <1>9, <2>6, <4>1, UserIs DEF o
    <3> DEFINE list == [k \in DOMAIN in.profiles |-> IF in.profiles[k] = n THEN m ELSE in.profiles[k]]
    <3>2. new.profiles = list
      BY <2>1, <2>3, <3>1 DEF Instance
    <3>3. \A k \in DOMAIN list : list[k] \in DOMAIN renamed
      BY <1>3, <1>4, <2>4, <2>5, <2>6
    <3>. HIDE DEF list, new
    <3>4. \A k \in DOMAIN new.profiles : new.profiles[k] \in DOMAIN ProfilesSeen(q)'
      BY <1>7, <2>1, <2>5, <2>6, <3>2, <3>3
    <3>. QED
      BY <3>4 DEF Resolved, new
  <2>7. CASE Owner(q, "profiles") # o
    <3>1. <<q, i>> \notin users
      BY <2>7, UserShares DEF profileUsers, o
    <3>2. new = in
      BY <2>3, <3>1
    <3>. QED
      BY <1>7, <2>1, <2>4, <2>5, <2>7, <3>2 DEF Resolved
  <2>. QED
    BY <2>6, <2>7
<1>10. ProfilesAreFollowed
  BY <1>9 DEF ProfilesAreFollowed, Follows
<1>. QED
  BY <1>8, <1>10 DEF References

LEMMA ProfileStepReferences == ASSUME DaemonInv, ProfileStep PROVE References
<1>1. ASSUME NEW p \in Projects, NEW i \in Instances, NEW ps, SetInstanceProfiles(p, i, ps)
      PROVE  References
  BY <1>1, SetInstancesReferences DEF SetInstanceProfiles
<1>2. ASSUME NEW p \in Projects, NEW n \in Profiles, CreateProfile(p, n)
      PROVE  References
  <2> DEFINE f == With(ProfilesSeen(p), n, NoDevice)
  <2>1. SetProfiles(p, f) /\ DOMAIN ProfilesSeen(p) \subseteq DOMAIN f
    BY <1>2 DEF CreateProfile, With
  <2>. HIDE DEF f
  <2>. QED
    BY <2>1, SetProfilesReferences
<1>3. ASSUME NEW p \in Projects, NEW n \in Profiles, DeleteProfile(p, n)
      PROVE  References
  <2> DEFINE f == Without(ProfilesSeen(p), n)
  <2>1. SetProfiles(p, f) /\ DOMAIN f = DOMAIN ProfilesSeen(p) \ {n}
    BY <1>3 DEF DeleteProfile, Without
  <2>. HIDE DEF f
  <2>2. PICK users \in UsersByName(p, "profiles") : \A x \in users : ~NamesProfile(x, n)
    BY <1>3 DEF DeleteProfile, profileUsers
  <2>3. ASSUME NEW q \in DOMAIN projects, NEW i \in Instances,
               Owner(q, "profiles") = Owner(p, "profiles"), HasInstance(q, i),
               Unambiguous(q, i, "profiles"), NEW k \in DOMAIN spaces[q].instances[i].profiles
        PROVE  spaces[q].instances[i].profiles[k] # n
    <3>1. <<q, i>> \in users
      BY <2>3, UserIs
    <3>. QED
      BY <2>2, <3>1 DEF NamesProfile
  <2>. QED
    BY <2>1, <2>3, SetProfilesReferences
<1>4. ASSUME NEW p \in Projects, NEW n \in Profiles, NEW m \in Profiles, RenameProfile(p, n, m)
      PROVE  References
  BY <1>4, RenamedProfileIsFollowed
<1>. QED
  BY CallersAre, <1>1, <1>2, <1>3, <1>4 DEF ProfileStep

\* The one step of projects that leaves them as they were.
LEMMA ProjectStepReferences ==
  ASSUME DaemonInv, ProjectStep, projects' = projects
  PROVE  References
<1>1. PICK p \in Others : \/ \E fs \in FeatureSets : CreateProject(p, fs) \/ UpdateProject(p, fs)
                          \/ \E q \in Others : RenameProject(p, q)
                          \/ DeleteProject(p)
  BY DEF ProjectStep
<1>2. \A fs : ~CreateProject(p, fs)
  BY DEF CreateProject, With
<1>3. \A q : ~RenameProject(p, q)
  <2>1. ASSUME NEW q, RenameProject(p, q)
        PROVE  FALSE
    <3>1. q \in DOMAIN projects' /\ q \notin DOMAIN projects
      BY <2>1 DEF RenameProject, With
    <3>. QED
      BY <3>1
  <2>. QED
    BY <2>1
<1>4. ~DeleteProject(p)
  BY DEF DeleteProject, Without
<1>5. UNCHANGED <<spaces, pools, volumes>>
  BY <1>1, <1>2, <1>3, <1>4 DEF UpdateProject, storage
<1>. QED
  BY <1>5, SuppliesSame, SuppliedKeep

\* Every step of the three sides.
LEMMA ReferencesKept ==
  DaemonInv /\ [FakeNext]_<<side, vars, inside, versions>> /\ projects' = projects => References
<1>. SUFFICES ASSUME DaemonInv, [FakeNext]_<<side, vars, inside, versions>>, projects' = projects
              PROVE  References
  OBVIOUS
<1>1. ASSUME Next
      PROVE  References
  BY <1>1, ProjectStepReferences, InstanceStepReferences, DeviceStepReferences,
     ProfileStepReferences, ProfileDeviceStepReferences, NetworkStepReferences, ZoneStepReferences,
     PoolStepReferences, VolumeStepReferences, BucketStepReferences, ImageStepReferences DEF Next
<1>2. ASSUME UNCHANGED vars
      PROVE  References
  BY <1>2, SuppliesSame, SuppliedKeep DEF vars
<1>. QED
  BY <1>1, <1>2 DEF FakeNext

\* No call that leaves the projects as they were makes a reference dangle, for any
\* projects, features and names, whatever project it is made from: an ACL that a
\* nic or network names and a pool in use are not taken away, a renamed volume is
\* found by every device that had it and changes no running instance; and the same
\* of networks and profiles for an instance whose name no other project that shares
\* them uses (acls.go, networks.go, storage.go, profiles.go).
THEOREM ReferencesHold == FakeSpec => NothingDangles
<1> DEFINE step == [FakeNext]_<<side, vars, inside, versions>>
<1>1. FakeInit => DaemonInv
  BY DaemonStart DEF FakeInit, NoResources
<1>2. DaemonInv /\ step => DaemonInv'
  BY DaemonKept
<1>3. DaemonInv /\ step =>
        [projects' = projects =>
           ACLsStay /\ InstancesStayConnected /\ RenamedVolumesAreFollowed /\ ProfilesAreFollowed]_vars
  BY ReferencesKept DEF References
<1>. QED
  BY <1>1, <1>2, <1>3, PTL DEF FakeSpec, NothingDangles
-----------------------------------------------------------------------------
(* The contents are values: FakeContents implements OwnedContents.         *)

\* What OwnedContents' maps hold.
LEMMA PutIs ==
  ASSUME NEW f, NEW x, NEW v
  PROVE  /\ DOMAIN Plain!Put(f, x, v) = DOMAIN f \cup {x}
         /\ Plain!Put(f, x, v)[x] = v
         /\ \A y \in DOMAIN f \ {x} : Plain!Put(f, x, v)[y] = f[y]
BY DEF Plain!Put

\* The two modules put and drop alike.
LEMMA PutAlike ==
  ASSUME NEW f, NEW x, NEW v
  PROVE  Contents!With(f, x, v) = Plain!Put(f, x, v) /\ Contents!Without(f, x) = Plain!Drop(f, x)
<1>1. Contents!With(f, x, v) = [y \in {x} \cup DOMAIN f |-> IF y \in {x} THEN [z \in {x} |-> v][y] ELSE f[y]]
  BY DEF Contents!With, Contents!Merged, Contents!Only
<1>2. Plain!Put(f, x, v) = [y \in DOMAIN f \cup {x} |-> IF y = x THEN v ELSE f[y]]
  BY DEF Plain!Put
<1>. QED
  BY <1>1, <1>2 DEF Contents!Without, Plain!Drop

\* What clients see, now and after the step.
LEMMA VisibleIs ==
  /\ DOMAIN Visible = DOMAIN owners
  /\ \A n \in DOMAIN owners : Visible[n] = Shown(owners[n], trees, arrays, slices)
  /\ Visible = [n \in DOMAIN Visible |-> Visible[n]]
BY ViewIs DEF Visible

LEMMA VisibleNext ==
  /\ DOMAIN Visible' = DOMAIN owners'
  /\ \A n \in DOMAIN owners' : Visible'[n] = Shown(owners'[n], trees', arrays', slices')
  /\ Visible' = [n \in DOMAIN Visible' |-> Visible'[n]]
BY ViewIs DEF Visible

\* When one owner changes, the map of what they show changes there.
LEMMA VisiblePut ==
  ASSUME ContentsInv, ContentsInv', NEW i, OnlyAt(i), i \in DOMAIN owners'
  PROVE  /\ Visible' = Plain!Put(Visible, i, Shown(owners'[i], trees', arrays', slices'))
         /\ i \in DOMAIN owners =>
              Visible' = [Visible EXCEPT ![i] = Shown(owners'[i], trees', arrays', slices')]
<1> DEFINE x == Shown(owners'[i], trees', arrays', slices')
<1>1. DOMAIN owners \subseteq Instances /\ DOMAIN owners' \subseteq Instances
  BY DEF ContentsInv
<1>2. DOMAIN Visible' = DOMAIN Visible \cup {i} /\ Visible'[i] = x
  BY <1>1, VisibleIs, VisibleNext DEF OnlyAt
<1>3. \A n \in DOMAIN Visible' \ {i} : Visible'[n] = Visible[n]
  BY <1>1, VisibleIs, VisibleNext DEF OnlyAt, ShowsOn
<1>. HIDE DEF x
<1>4. Visible' = [n \in DOMAIN Visible \cup {i} |-> IF n = i THEN x ELSE Visible[n]]
  BY <1>2, <1>3, VisibleNext
<1>5. Visible' = Plain!Put(Visible, i, x)
  BY <1>4 DEF Plain!Put
<1>6. ASSUME i \in DOMAIN owners
      PROVE  Visible' = [Visible EXCEPT ![i] = x]
  <2>1. DOMAIN Visible \cup {i} = DOMAIN Visible
    BY <1>6, VisibleIs
  <2>. QED
    BY <1>4, <2>1
<1>. QED
  BY <1>5, <1>6 DEF x

LEMMA VisibleDrop ==
  ASSUME ContentsInv, ContentsInv', NEW i, OnlyAt(i), i \notin DOMAIN owners'
  PROVE  Visible' = Plain!Drop(Visible, i)
<1>1. DOMAIN owners \subseteq Instances /\ DOMAIN owners' \subseteq Instances
  BY DEF ContentsInv
<1>2. DOMAIN Visible' = DOMAIN Visible \ {i}
  BY <1>1, VisibleIs, VisibleNext DEF OnlyAt
<1>3. \A n \in DOMAIN Visible' : Visible'[n] = Visible[n]
  BY <1>1, <1>2, VisibleIs, VisibleNext DEF OnlyAt, ShowsOn
<1>. QED
  BY <1>2, <1>3, VisibleNext DEF Plain!Drop

LEMMA VisibleStays ==
  ASSUME owners' = owners, \A n \in DOMAIN owners : ShowsOn(n)
  PROVE  Visible' = Visible
<1>1. DOMAIN Visible' = DOMAIN Visible /\ \A n \in DOMAIN Visible : Visible'[n] = Visible[n]
  BY VisibleIs, VisibleNext DEF ShowsOn
<1>. QED
  BY <1>1, VisibleIs, VisibleNext

\* Of a step that makes no progress with them, the slices being kept.
LEMMA UnderWayStays ==
  ASSUME calls' = calls,
         \A c \in Calls : calls[c].pc = "stream" => slices'[calls[c].slice] = slices[calls[c].slice]
  PROVE  UnderWay' = UnderWay
BY DEF UnderWay

LEMMA KeptForDownloads ==
  ASSUME ContentsInv, calls' = calls, NEW ns, DOMAIN ns \cap DOMAIN slices = {},
         slices' = Contents!Keep(Contents!Merged(ns, slices), Contents!SliceRefs(trees', calls'))
  PROVE  UnderWay' = UnderWay
<1>1. ASSUME NEW c \in Calls, calls[c].pc = "stream"
      PROVE  slices'[calls[c].slice] = slices[calls[c].slice]
  <2> DEFINE s == calls[c].slice
  <2>1. s \in DOMAIN slices
    BY <1>1, HeldIs
  <2>2. s \in Contents!SliceRefs(trees', calls')
    BY <1>1, RefsAre
  <2>. HIDE DEF s
  <2>3. Contents!Merged(ns, slices)[s] = slices[s]
    BY <2>1 DEF Contents!Merged
  <2>4. slices'[s] = slices[s]
    BY <2>2, <2>3, KeepIs
  <2>. QED
    BY <2>4 DEF s
<1>. QED
  BY <1>1, UnderWayStays

LEMMA SetAllUnderWay ==
  ASSUME ContentsInv, NEW os, NEW nt, NEW na, NEW ns, Contents!SetAll(os, nt, na, ns),
         DOMAIN ns \cap DOMAIN slices = {}
  PROVE  UnderWay' = UnderWay
<1>1. /\ calls' = calls
      /\ slices' = Contents!Keep(Contents!Merged(ns, slices), Contents!SliceRefs(trees', calls'))
  BY DEF Contents!SetAll
<1>. QED
  BY <1>1, KeptForDownloads

LEMMA SetOwnersUnderWay ==
  ASSUME ContentsInv, NEW os, NEW nt, NEW na, Contents!SetOwners(os, nt, na)
  PROVE  UnderWay' = UnderWay
<1> DEFINE ns == <<>>
<1>1. Contents!SetAll(os, nt, na, ns) /\ DOMAIN ns \cap DOMAIN slices = {}
  BY EmptyHeap DEF Contents!SetOwners
<1>. HIDE DEF ns
<1>. QED
  BY <1>1, SetAllUnderWay

LEMMA SetTreeUnderWay ==
  ASSUME ContentsInv, NEW i, NEW t, NEW ns, Contents!SetTree(i, t, ns, calls),
         DOMAIN ns \cap DOMAIN slices = {}
  PROVE  UnderWay' = UnderWay
<1>1. /\ calls' = calls
      /\ slices' = Contents!Keep(Contents!Merged(ns, slices), Contents!SliceRefs(trees', calls'))
  BY DEF Contents!SetTree
<1>. QED
  BY <1>1, KeptForDownloads

\* What an owner shows, part by part.
LEMMA ShownIs ==
  ASSUME NEW o, NEW ts, NEW as, NEW ss,
         NEW F, F = [p \in DOMAIN ts[o.tree] |-> IF ts[o.tree][p] = 0 THEN <<>> ELSE ss[ts[o.tree][p]]],
         NEW S, S = SubSeq(as[o.snapshots.array], 1, o.snapshots.len)
  PROVE  /\ Shown(o, ts, as, ss)
              = [value |-> o.value, backups |-> o.backups, snapshots |-> S, files |-> F]
         /\ Shown(o, ts, as, ss).value = o.value /\ Shown(o, ts, as, ss).backups = o.backups
         /\ Shown(o, ts, as, ss).snapshots = S /\ Shown(o, ts, as, ss).files = F
BY DEF Shown

\* An owner of whose parts one is another's shows that in its place.
LEMMA OnePart ==
  ASSUME NEW V, NEW B, NEW S, NEW F, NEW x
  PROVE  /\ [[value |-> V, backups |-> B, snapshots |-> S, files |-> F] EXCEPT !.value = x]
              = [value |-> x, backups |-> B, snapshots |-> S, files |-> F]
         /\ [[value |-> V, backups |-> B, snapshots |-> S, files |-> F] EXCEPT !.backups = x]
              = [value |-> V, backups |-> x, snapshots |-> S, files |-> F]
         /\ [[value |-> V, backups |-> B, snapshots |-> S, files |-> F] EXCEPT !.snapshots = x]
              = [value |-> V, backups |-> B, snapshots |-> x, files |-> F]
         /\ [[value |-> V, backups |-> B, snapshots |-> S, files |-> F] EXCEPT !.files = x]
              = [value |-> V, backups |-> B, snapshots |-> S, files |-> x]
OBVIOUS

\* An empty list has no names.
LEMMA NoNames == SubSeq(<<>>, 1, 0) = <<>>
OBVIOUS

\* What a new owner shows.
LEMMA BlankShown ==
  ASSUME NEW v, NEW t, NEW a, NEW ts, NEW as, NEW ss,
         ts[t] = Contents!Only(Contents!Root, Contents!Directory), as[a] = <<>>
  PROVE  Shown([value |-> v, tree |-> t, backups |-> <<>>, snapshots |-> [array |-> a, len |-> 0]],
               ts, as, ss) = Plain!Blank(v)
<1> DEFINE o == [value |-> v, tree |-> t, backups |-> <<>>, snapshots |-> [array |-> a, len |-> 0]]
           F == [p \in DOMAIN ts[o.tree] |-> IF ts[o.tree][p] = 0 THEN <<>> ELSE ss[ts[o.tree][p]]]
           S == SubSeq(as[o.snapshots.array], 1, o.snapshots.len)
           G == [p \in {Plain!Root} |-> Plain!Directory]
<1>1. F = G
  <2>1. DOMAIN ts[o.tree] = {Contents!Root} /\ ts[o.tree][Contents!Root] = 0
    BY OnlyIs DEF Contents!Directory
  <2>2. Contents!Root = Plain!Root
    BY DEF Contents!Root, Contents!Paths, Plain!Root, Plain!Paths
  <2>. QED
    BY <2>1, <2>2 DEF Plain!Directory
<1>2. S = <<>>
  BY NoNames
<1>3. o.value = v /\ o.backups = <<>>
  OBVIOUS
<1>4. Shown(o, ts, as, ss) = [value |-> o.value, backups |-> o.backups, snapshots |-> S, files |-> F]
  BY DEF Shown
<1>. HIDE DEF o, F, S, G
<1>5. Shown(o, ts, as, ss) = [value |-> v, backups |-> <<>>, snapshots |-> <<>>, files |-> G]
  BY <1>1, <1>2, <1>3, <1>4
<1>. QED
  BY <1>5 DEF Plain!Blank, o, G

\* Owners come, go, move and change as values do.
LEMMA CreateIsPlain ==
  ASSUME ContentsInv, ContentsInv', NEW i \in Instances, NEW v, Contents!Create(i, v)
  PROVE  Plain!Create(i, v)
<1> DEFINE t == Contents!Fresh(trees)
           a == Contents!Fresh(arrays)
           h == [value |-> v, tree |-> t, backups |-> <<>>, snapshots |-> [array |-> a, len |-> 0]]
           os == Contents!With(owners, i, h)
           root == Contents!Only(Contents!Root, Contents!Directory)
           nt == Contents!Only(t, root)
           na == Contents!Only(a, <<>>)
<1>1. i \notin DOMAIN owners /\ Contents!SetOwners(os, nt, na)
  BY DEF Contents!Create, Contents!New, Contents!NewTree, Contents!NewArray
<1>2. Contents!SetAll(os, nt, na, <<>>)
  BY <1>1 DEF Contents!SetOwners
<1>. HIDE DEF t, a, root
<1>3. h.tree = t /\ h.snapshots.array = a
  OBVIOUS
<1>. HIDE DEF h
<1>4. i \in DOMAIN os /\ os[i] = h
  BY DEF Contents!With, Contents!Merged, Contents!Only
<1>. HIDE DEF os
<1>5. /\ DOMAIN nt = {t} /\ nt[t] = root /\ DOMAIN na = {a} /\ na[a] = <<>>
  BY OnlyIs
<1>. HIDE DEF nt, na
<1>6. /\ owners' = os
      /\ trees' = Contents!Keep(Contents!Merged(nt, trees), {os[n].tree : n \in DOMAIN os})
      /\ arrays' = Contents!Keep(Contents!Merged(na, arrays), {os[n].snapshots.array : n \in DOMAIN os})
  BY <1>2 DEF Contents!SetAll
<1>7. trees'[t] = root
  <2>1. t \in {os[n].tree : n \in DOMAIN os}
    BY <1>3, <1>4
  <2>2. Contents!Merged(nt, trees)[t] = root
    BY <1>5 DEF Contents!Merged
  <2>. QED
    BY <1>6, <2>1, <2>2, KeepIs
<1>8. arrays'[a] = <<>>
  <2>1. a \in {os[n].snapshots.array : n \in DOMAIN os}
    BY <1>3, <1>4
  <2>2. Contents!Merged(na, arrays)[a] = <<>>
    BY <1>5 DEF Contents!Merged
  <2>. QED
    BY <1>6, <2>1, <2>2, KeepIs
<1>9. Shown(h, trees', arrays', slices') = Plain!Blank(v)
  BY <1>7, <1>8, BlankShown DEF root, h
<1>10. Visible' = Plain!Put(Visible, i, Plain!Blank(v))
  <2>1. OnlyAt(i)
    BY CreateOwnerOthers
  <2>2. i \in DOMAIN owners' /\ owners'[i] = h
    BY <1>4, <1>6
  <2>. QED
    BY <1>9, <2>1, <2>2, VisiblePut
<1>11. UnderWay' = UnderWay
  BY <1>1, SetOwnersUnderWay
<1>. QED
  BY <1>1, <1>10, <1>11, VisibleIs DEF Plain!Create, Plain!Become

LEMMA DeleteIsPlain ==
  ASSUME ContentsInv, ContentsInv', NEW i \in Instances, Contents!Delete(i)
  PROVE  Plain!Delete(i)
<1> DEFINE os == Contents!Without(owners, i)
<1>1. i \in DOMAIN owners /\ Contents!SetOwners(os, <<>>, <<>>)
  BY DEF Contents!Delete
<1>2. owners' = os
  BY <1>1 DEF Contents!SetOwners, Contents!SetAll
<1>3. i \notin DOMAIN owners'
  BY <1>2 DEF Contents!Without
<1>4. Visible' = Plain!Drop(Visible, i)
  BY <1>3, DeleteOwnerOthers, VisibleDrop
<1>5. UnderWay' = UnderWay
  BY <1>1, SetOwnersUnderWay
<1>. QED
  BY <1>1, <1>4, <1>5, VisibleIs DEF Plain!Delete, Plain!Become

\* The owners become os, and nothing is put in the heaps.
LEMMA SetOwnersShows ==
  ASSUME ContentsInv, NEW os, Contents!SetOwners(os, <<>>, <<>>),
         NEW x \in DOMAIN owners, NEW y \in DOMAIN os, os[y] = owners[x]
  PROVE  owners' = os /\ Shown(owners'[y], trees', arrays', slices') = Shown(owners[x], trees, arrays, slices)
<1> DEFINE none == <<>>
<1>1. Contents!SetAll(os, none, none, none) /\ DOMAIN none = {} /\ DOMAIN none \cap DOMAIN slices = {}
  BY EmptyHeap DEF Contents!SetOwners
<1>. HIDE DEF none
<1>2. owners[x].tree \notin DOMAIN none /\ owners[x].snapshots.array \notin DOMAIN none
  BY <1>1
<1>3. owners' = os
  BY <1>1 DEF Contents!SetAll
<1>. QED
  BY <1>1, <1>2, <1>3, SetAllShows

LEMMA RenameIsPlain ==
  ASSUME ContentsInv, ContentsInv', NEW i \in Instances, NEW j \in Instances, Contents!Rename(i, j)
  PROVE  Plain!Rename(i, j)
<1> DEFINE rest == Contents!Without(owners, i)
           os == Contents!With(rest, j, owners[i])
<1>1. i \in DOMAIN owners /\ j \notin DOMAIN owners /\ Contents!SetOwners(os, <<>>, <<>>)
  BY DEF Contents!Rename
<1>2. DOMAIN rest = DOMAIN owners \ {i} /\ \A n \in DOMAIN rest : rest[n] = owners[n]
  BY DEF Contents!Without
<1>. HIDE DEF rest
<1>3. /\ DOMAIN os = DOMAIN rest \cup {j} /\ os[j] = owners[i]
      /\ \A n \in DOMAIN rest \ {j} : os[n] = rest[n]
  BY DEF Contents!With, Contents!Merged, Contents!Only
<1>. HIDE DEF os
<1>4. owners' = os
  BY <1>1 DEF Contents!SetOwners, Contents!SetAll
<1> DEFINE left == Plain!Drop(Visible, i)
           new == Plain!Put(left, j, Visible[i])
<1>5. DOMAIN left = DOMAIN owners \ {i} /\ \A n \in DOMAIN left : left[n] = Visible[n]
  BY VisibleIs DEF Plain!Drop
<1>. HIDE DEF left
<1>6. /\ DOMAIN new = DOMAIN left \cup {j} /\ new[j] = Visible[i]
      /\ \A n \in DOMAIN left \ {j} : new[n] = left[n]
  BY DEF Plain!Put
<1>7. new = [n \in DOMAIN new |-> new[n]]
  BY DEF Plain!Put
<1>. HIDE DEF new
<1>8. DOMAIN Visible' = DOMAIN new
  BY <1>2, <1>3, <1>4, <1>5, <1>6, VisibleNext
<1>9. ASSUME NEW n \in DOMAIN new
      PROVE  Visible'[n] = new[n]
  <2>1. CASE n = j
    <3>1. Visible'[j] = Shown(owners[i], trees, arrays, slices)
      BY <1>1, <1>3, <1>4, VisibleNext, SetOwnersShows
    <3>. QED
      BY <1>1, <1>6, <2>1, <3>1, VisibleIs
  <2>2. CASE n # j
    <3>1. n \in DOMAIN owners /\ n \in DOMAIN os /\ os[n] = owners[n] /\ new[n] = Visible[n]
      BY <1>2, <1>3, <1>5, <1>6, <2>2
    <3>2. Visible'[n] = Shown(owners[n], trees, arrays, slices)
      BY <1>1, <1>4, <3>1, VisibleNext, SetOwnersShows
    <3>. QED
      BY <3>1, <3>2, VisibleIs
  <2>. QED
    BY <2>1, <2>2
<1>10. Visible' = new
  BY <1>7, <1>8, <1>9, VisibleNext
<1>11. UnderWay' = UnderWay
  BY <1>1, SetOwnersUnderWay
<1>. QED
  BY <1>1, <1>10, <1>11, VisibleIs DEF Plain!Rename, Plain!Become, new, left

\* What an owner shows of its files and of its list, when these are kept.
LEMMA FilesAlike ==
  ASSUME NEW t, NEW ts, NEW ss, NEW newTs, NEW newSs, newTs[t] = ts[t],
         \A p \in DOMAIN ts[t] : ts[t][p] # 0 => newSs[ts[t][p]] = ss[ts[t][p]]
  PROVE  [p \in DOMAIN newTs[t] |-> IF newTs[t][p] = 0 THEN <<>> ELSE newSs[newTs[t][p]]]
           = [p \in DOMAIN ts[t] |-> IF ts[t][p] = 0 THEN <<>> ELSE ss[ts[t][p]]]
OBVIOUS

\* What an owner shows with one part changed.
LEMMA HeldValueEdited ==
  ASSUME NEW i \in DOMAIN owners, NEW V, V = Visible[i], NEW x
  PROVE  [V EXCEPT !.value = x]
           = [value |-> x, backups |-> V.backups, snapshots |-> V.snapshots, files |-> V.files]
<1>1. PICK v, b, s, f : V = [value |-> v, backups |-> b, snapshots |-> s, files |-> f]
  BY VisibleIs DEF Shown
<1>2. V.value = v /\ V.backups = b /\ V.snapshots = s /\ V.files = f
  BY <1>1
<1>3. [V EXCEPT !.value = x] = [[value |-> v, backups |-> b, snapshots |-> s, files |-> f] EXCEPT !.value = x]
  BY <1>1
<1>4. [[value |-> v, backups |-> b, snapshots |-> s, files |-> f] EXCEPT !.value = x]
        = [value |-> x, backups |-> b, snapshots |-> s, files |-> f]
  OBVIOUS
<1>5. [value |-> x, backups |-> b, snapshots |-> s, files |-> f]
        = [value |-> x, backups |-> V.backups, snapshots |-> V.snapshots, files |-> V.files]
  BY <1>2
<1>. QED
  BY <1>3, <1>4, <1>5, Zenon

LEMMA HeldBackupsEdited ==
  ASSUME NEW i \in DOMAIN owners, NEW V, V = Visible[i], NEW x
  PROVE  [V EXCEPT !.backups = x]
           = [value |-> V.value, backups |-> x, snapshots |-> V.snapshots, files |-> V.files]
<1>1. PICK v, b, s, f : V = [value |-> v, backups |-> b, snapshots |-> s, files |-> f]
  BY VisibleIs DEF Shown
<1>2. V.value = v /\ V.backups = b /\ V.snapshots = s /\ V.files = f
  BY <1>1
<1>3. [V EXCEPT !.backups = x] = [[value |-> v, backups |-> b, snapshots |-> s, files |-> f] EXCEPT !.backups = x]
  BY <1>1
<1>4. [[value |-> v, backups |-> b, snapshots |-> s, files |-> f] EXCEPT !.backups = x]
        = [value |-> v, backups |-> x, snapshots |-> s, files |-> f]
  OBVIOUS
<1>5. [value |-> v, backups |-> x, snapshots |-> s, files |-> f]
        = [value |-> V.value, backups |-> x, snapshots |-> V.snapshots, files |-> V.files]
  BY <1>2
<1>. QED
  BY <1>3, <1>4, <1>5, Zenon

LEMMA HeldSnapshotsEdited ==
  ASSUME NEW i \in DOMAIN owners, NEW V, V = Visible[i], NEW x
  PROVE  [V EXCEPT !.snapshots = x]
           = [value |-> V.value, backups |-> V.backups, snapshots |-> x, files |-> V.files]
<1>1. PICK v, b, s, f : V = [value |-> v, backups |-> b, snapshots |-> s, files |-> f]
  BY VisibleIs DEF Shown
<1>2. V.value = v /\ V.backups = b /\ V.snapshots = s /\ V.files = f
  BY <1>1
<1>3. [V EXCEPT !.snapshots = x] = [[value |-> v, backups |-> b, snapshots |-> s, files |-> f] EXCEPT !.snapshots = x]
  BY <1>1
<1>4. [[value |-> v, backups |-> b, snapshots |-> s, files |-> f] EXCEPT !.snapshots = x]
        = [value |-> v, backups |-> b, snapshots |-> x, files |-> f]
  OBVIOUS
<1>5. [value |-> v, backups |-> b, snapshots |-> x, files |-> f]
        = [value |-> V.value, backups |-> V.backups, snapshots |-> x, files |-> V.files]
  BY <1>2
<1>. QED
  BY <1>3, <1>4, <1>5, Zenon

LEMMA HeldFilesEdited ==
  ASSUME NEW i \in DOMAIN owners, NEW V, V = Visible[i], NEW x
  PROVE  [V EXCEPT !.files = x]
           = [value |-> V.value, backups |-> V.backups, snapshots |-> V.snapshots, files |-> x]
<1>1. PICK v, b, s, f : V = [value |-> v, backups |-> b, snapshots |-> s, files |-> f]
  BY VisibleIs DEF Shown
<1>2. V.value = v /\ V.backups = b /\ V.snapshots = s /\ V.files = f
  BY <1>1
<1>3. [V EXCEPT !.files = x] = [[value |-> v, backups |-> b, snapshots |-> s, files |-> f] EXCEPT !.files = x]
  BY <1>1
<1>4. [[value |-> v, backups |-> b, snapshots |-> s, files |-> f] EXCEPT !.files = x]
        = [value |-> v, backups |-> b, snapshots |-> s, files |-> x]
  OBVIOUS
<1>5. [value |-> v, backups |-> b, snapshots |-> s, files |-> x]
        = [value |-> V.value, backups |-> V.backups, snapshots |-> V.snapshots, files |-> x]
  BY <1>2
<1>. QED
  BY <1>3, <1>4, <1>5, Zenon

\* A step that replaces an owner's record alone, not its tree or its list.
LEMMA RecordReplaced ==
  ASSUME ContentsInv, ContentsInv', NEW i \in DOMAIN owners, NEW h,
         Contents!SetOwners([owners EXCEPT ![i] = h], <<>>, <<>>),
         h.tree = owners[i].tree, h.snapshots = owners[i].snapshots,
         NEW V, V = Visible[i]
  PROVE  /\ UnderWay' = UnderWay
         /\ Visible' = [Visible EXCEPT ![i] = [value |-> h.value, backups |-> h.backups,
                                               snapshots |-> V.snapshots, files |-> V.files]]
<1> DEFINE os == [owners EXCEPT ![i] = h]
           none == <<>>
           o == owners[i]
           F == [p \in DOMAIN trees[o.tree] |->
                   IF trees[o.tree][p] = 0 THEN <<>> ELSE slices[trees[o.tree][p]]]
           newF == [p \in DOMAIN trees'[o.tree] |->
                      IF trees'[o.tree][p] = 0 THEN <<>> ELSE slices'[trees'[o.tree][p]]]
           S == SubSeq(arrays[o.snapshots.array], 1, o.snapshots.len)
           newS == SubSeq(arrays'[o.snapshots.array], 1, o.snapshots.len)
<1>1. i \in DOMAIN os /\ os[i] = h
  OBVIOUS
<1>2. Contents!SetAll(os, none, none, none) /\ DOMAIN none = {}
      /\ DOMAIN none \cap DOMAIN slices = {}
  BY EmptyHeap DEF Contents!SetOwners
<1>3. OnlyAt(i)
  BY EditedOthers
<1>4. UnderWay' = UnderWay
  BY SetOwnersUnderWay
<1>5. Shown(o, trees, arrays, slices).snapshots = S /\ Shown(o, trees, arrays, slices).files = F
  BY DEF Shown
<1>6. Shown(h, trees', arrays', slices')
        = [value |-> h.value, backups |-> h.backups, snapshots |-> newS, files |-> newF]
  BY DEF Shown
<1>. HIDE DEF os, none
<1>7. owners' = os
  BY <1>2 DEF Contents!SetAll
<1>8. /\ trees'[o.tree] = trees[o.tree]
      /\ \A p \in DOMAIN trees[o.tree] :
           trees[o.tree][p] # 0 => slices'[trees[o.tree][p]] = slices[trees[o.tree][p]]
  <2>1. os[i].tree = owners[i].tree /\ owners[i].tree \notin DOMAIN none
    BY <1>1, <1>2
  <2>. QED
    BY <1>1, <1>2, <2>1, SetAllTree
<1>9. arrays'[o.snapshots.array] = arrays[o.snapshots.array]
  <2>1. os[i].snapshots.array = owners[i].snapshots.array /\ owners[i].snapshots.array \notin DOMAIN none
    BY <1>1, <1>2
  <2>. QED
    BY <1>1, <1>2, <2>1, SetAllArray
<1>10. newF = F
  BY <1>8, FilesAlike
<1>11. newS = S
  BY <1>9
<1>12. V.snapshots = S /\ V.files = F
  BY <1>5, VisibleIs
<1>13. Visible' = [Visible EXCEPT ![i] = Shown(h, trees', arrays', slices')]
  BY <1>1, <1>3, <1>7, VisiblePut
<1>. HIDE DEF F, newF, S, newS
<1>. QED
  BY <1>4, <1>6, <1>10, <1>11, <1>12, <1>13

LEMMA UpdateIsPlain ==
  ASSUME ContentsInv, ContentsInv', NEW i \in Instances, NEW v, Contents!UpdateVolume(i, v)
  PROVE  Plain!Update(i, v)
<1> DEFINE h == [owners[i] EXCEPT !.value = v]
           V == Visible[i]
<1>1. i \in DOMAIN owners /\ Contents!SetOwners([owners EXCEPT ![i] = h], <<>>, <<>>)
  BY DEF Contents!UpdateVolume
<1>2. owners[i] \in Holder
  BY <1>1, OwnersAre
<1>3. h.tree = owners[i].tree /\ h.snapshots = owners[i].snapshots
      /\ h.value = v /\ h.backups = owners[i].backups
  BY <1>2 DEF Holder
<1>4. V.backups = owners[i].backups
  BY <1>1, VisibleIs DEF Shown
<1>5. V = Visible[i]
  OBVIOUS
<1>. HIDE DEF h, V
<1>6. /\ UnderWay' = UnderWay
      /\ Visible' = [Visible EXCEPT ![i] = [value |-> h.value, backups |-> h.backups,
                                            snapshots |-> V.snapshots, files |-> V.files]]
  BY <1>1, <1>3, RecordReplaced DEF V
<1>7. Visible' = [Visible EXCEPT ![i] = [V EXCEPT !.value = v]]
  <2>1. [V EXCEPT !.value = v]
          = [value |-> v, backups |-> V.backups, snapshots |-> V.snapshots, files |-> V.files]
    BY <1>1, <1>5, HeldValueEdited
  <2>2. [value |-> h.value, backups |-> h.backups, snapshots |-> V.snapshots, files |-> V.files]
          = [value |-> v, backups |-> V.backups, snapshots |-> V.snapshots, files |-> V.files]
    BY <1>3, <1>4
  <2>. QED
    BY <1>6, <2>1, <2>2, Zenon
<1>. QED
  BY <1>1, <1>6, <1>7, VisibleIs DEF Plain!Update, Plain!Keeps, Plain!Become, V

\* Backups are made and deleted as values are.
LEMMA BackupsArePlain ==
  ASSUME ContentsInv, ContentsInv', NEW i \in DOMAIN owners, NEW bs,
         Contents!SetOwners([owners EXCEPT ![i].backups = bs], <<>>, <<>>)
  PROVE  /\ UnderWay' = UnderWay
         /\ Visible' = [Visible EXCEPT ![i] = [Visible[i] EXCEPT !.backups = bs]]
<1> DEFINE h == [owners[i] EXCEPT !.backups = bs]
           V == Visible[i]
<1>1. Contents!SetOwners([owners EXCEPT ![i] = h], <<>>, <<>>)
  OBVIOUS
<1>2. owners[i] \in Holder
  BY OwnersAre
<1>3. h.tree = owners[i].tree /\ h.snapshots = owners[i].snapshots
      /\ h.value = owners[i].value /\ h.backups = bs
  BY <1>2 DEF Holder
<1>4. V.value = owners[i].value
  BY VisibleIs DEF Shown
<1>5. V = Visible[i]
  OBVIOUS
<1>. HIDE DEF h, V
<1>6. /\ UnderWay' = UnderWay
      /\ Visible' = [Visible EXCEPT ![i] = [value |-> h.value, backups |-> h.backups,
                                            snapshots |-> V.snapshots, files |-> V.files]]
  BY <1>1, <1>3, RecordReplaced DEF V
<1>7. Visible' = [Visible EXCEPT ![i] = [V EXCEPT !.backups = bs]]
  <2>1. [V EXCEPT !.backups = bs]
          = [value |-> V.value, backups |-> bs, snapshots |-> V.snapshots, files |-> V.files]
    BY <1>1, <1>5, HeldBackupsEdited
  <2>2. [value |-> h.value, backups |-> h.backups, snapshots |-> V.snapshots, files |-> V.files]
          = [value |-> V.value, backups |-> bs, snapshots |-> V.snapshots, files |-> V.files]
    BY <1>3, <1>4
  <2>. QED
    BY <1>6, <2>1, <2>2, Zenon
<1>. QED
  BY <1>6, <1>7 DEF V

LEMMA BackupIsPlain ==
  ASSUME ContentsInv, ContentsInv', NEW i \in Instances, NEW b, Contents!CreateInstanceBackup(i, b)
  PROVE  Plain!Backup(i, b)
<1> DEFINE bs == Contents!With(owners[i].backups, b, owners[i].value)
<1>1. i \in DOMAIN owners /\ b \notin DOMAIN owners[i].backups
      /\ Contents!SetOwners([owners EXCEPT ![i].backups = bs], <<>>, <<>>)
  BY DEF Contents!CreateInstanceBackup
<1>2. Visible[i].backups = owners[i].backups /\ Visible[i].value = owners[i].value
  BY <1>1, VisibleIs DEF Shown
<1>3. bs = Plain!Put(Visible[i].backups, b, Visible[i].value)
  BY <1>2, PutAlike
<1>. HIDE DEF bs
<1>4. UnderWay' = UnderWay /\ Visible' = [Visible EXCEPT ![i] = [Visible[i] EXCEPT !.backups = bs]]
  BY <1>1, BackupsArePlain
<1>. QED
  BY <1>1, <1>2, <1>3, <1>4, VisibleIs DEF Plain!Backup, Plain!Keeps, Plain!Become

LEMMA DeleteBackupIsPlain ==
  ASSUME ContentsInv, ContentsInv', NEW i \in Instances, NEW b, Contents!DeleteInstanceBackup(i, b)
  PROVE  Plain!DeleteBackup(i, b)
<1> DEFINE bs == Contents!Without(owners[i].backups, b)
<1>1. i \in DOMAIN owners /\ b \in DOMAIN owners[i].backups
      /\ Contents!SetOwners([owners EXCEPT ![i].backups = bs], <<>>, <<>>)
  BY DEF Contents!DeleteInstanceBackup
<1>2. Visible[i].backups = owners[i].backups
  BY <1>1, VisibleIs DEF Shown
<1>3. bs = Plain!Drop(Visible[i].backups, b)
  BY <1>2, PutAlike
<1>. HIDE DEF bs
<1>4. UnderWay' = UnderWay /\ Visible' = [Visible EXCEPT ![i] = [Visible[i] EXCEPT !.backups = bs]]
  BY <1>1, BackupsArePlain
<1>. QED
  BY <1>1, <1>2, <1>3, <1>4, VisibleIs DEF Plain!DeleteBackup, Plain!Keeps, Plain!Become

\* The first cells of an array, where the list is S.
LEMMA FirstCells ==
  ASSUME NEW cells, NEW S \in Seq(Snapshots), NEW len \in Nat, Len(S) = len,
         \A k \in 1 .. len : cells[k] = S[k]
  PROVE  SubSeq(cells, 1, len) = S
<1>1. \A k \in 1 .. len : cells[k] \in Snapshots
  BY ElementOfSeq
<1>2. /\ SubSeq(cells, 1, len) \in Seq(Snapshots)
      /\ Len(SubSeq(cells, 1, len)) = IF 1 <= len THEN len - 1 + 1 ELSE 0
      /\ \A k \in 1 .. len - 1 + 1 : SubSeq(cells, 1, len)[k] = cells[1 + k - 1]
  BY <1>1, SubSeqProperties
<1>3. Len(SubSeq(cells, 1, len)) = len /\ len - 1 + 1 = len
  BY <1>2
<1>4. \A k \in 1 .. len : SubSeq(cells, 1, len)[k] = S[k]
  BY <1>2, <1>3
<1>. QED
  BY <1>2, <1>3, <1>4, SeqEqual

\* A step that gives an owner the list S, in its own array or in one that is new.
LEMMA ListReplaced ==
  ASSUME ContentsInv, ContentsInv', NEW i \in DOMAIN owners, NEW a, NEW cells, NEW len \in Nat,
         Contents!SetList(i, a, cells, len),
         a = owners[i].snapshots.array \/ a \notin DOMAIN arrays,
         NEW S \in Seq(Snapshots), Len(S) = len, \A k \in 1 .. len : cells[k] = S[k]
  PROVE  /\ UnderWay' = UnderWay
         /\ Visible' = [Visible EXCEPT ![i] = [Visible[i] EXCEPT !.snapshots = S]]
<1> DEFINE l == [array |-> a, len |-> len]
           h == [owners[i] EXCEPT !.snapshots = l]
           os == [owners EXCEPT ![i] = h]
           na == Contents!Only(a, cells)
           none == <<>>
           o == owners[i]
           V == Visible[i]
           F == [p \in DOMAIN trees[o.tree] |->
                   IF trees[o.tree][p] = 0 THEN <<>> ELSE slices[trees[o.tree][p]]]
           newF == [p \in DOMAIN trees'[o.tree] |->
                      IF trees'[o.tree][p] = 0 THEN <<>> ELSE slices'[trees'[o.tree][p]]]
<1>1. /\ Contents!SetOwners(os, none, na) /\ Contents!SetAll(os, none, na, none)
      /\ DOMAIN none = {} /\ DOMAIN none \cap DOMAIN slices = {}
  BY EmptyHeap DEF Contents!SetList, Contents!SetOwners
<1>2. OnlyAt(i)
  BY SetListOthers
<1>3. UnderWay' = UnderWay
  BY <1>1, SetOwnersUnderWay
<1>4. i \in DOMAIN os /\ os[i] = h
  OBVIOUS
<1>5. owners[i] \in Holder
  BY OwnersAre
<1>6. h.tree = o.tree /\ h.value = o.value /\ h.backups = o.backups /\ h.snapshots = l
      /\ h.snapshots.array = a /\ h.snapshots.len = len
  BY <1>5 DEF Holder
<1>7. V.value = o.value /\ V.backups = o.backups /\ V.files = F
  BY VisibleIs DEF Shown
<1>8. DOMAIN na = {a} /\ na[a] = cells
  BY OnlyIs
<1>. HIDE DEF os, none, h, l, na
<1>9. owners' = os
      /\ arrays' = Contents!Keep(Contents!Merged(na, arrays), {os[n].snapshots.array : n \in DOMAIN os})
  BY <1>1 DEF Contents!SetAll
<1>10. arrays'[a] = cells
  <2>1. a \in {os[n].snapshots.array : n \in DOMAIN os}
    BY <1>4, <1>6
  <2>2. Contents!Merged(na, arrays)[a] = cells
    BY <1>8 DEF Contents!Merged
  <2>. QED
    BY <1>9, <2>1, <2>2, KeepIs
<1>11. SubSeq(cells, 1, len) = S
  BY FirstCells
<1>12. /\ trees'[o.tree] = trees[o.tree]
       /\ \A p \in DOMAIN trees[o.tree] :
            trees[o.tree][p] # 0 => slices'[trees[o.tree][p]] = slices[trees[o.tree][p]]
  <2>1. os[i].tree = owners[i].tree /\ owners[i].tree \notin DOMAIN none
    BY <1>1, <1>4, <1>6
  <2>. QED
    BY <1>1, <1>4, <2>1, SetAllTree
<1>13. newF = F
  BY <1>12, FilesAlike
<1>14. Shown(h, trees', arrays', slices')
         = [value |-> o.value, backups |-> o.backups, snapshots |-> S, files |-> newF]
  BY <1>6, <1>10, <1>11 DEF Shown
<1>15. Visible' = [Visible EXCEPT ![i] = Shown(h, trees', arrays', slices')]
  BY <1>2, <1>4, <1>9, VisiblePut
<1>. HIDE DEF F, newF, V
<1>16. [V EXCEPT !.snapshots = S]
         = [value |-> V.value, backups |-> V.backups, snapshots |-> S, files |-> V.files]
  BY HeldSnapshotsEdited DEF V
<1>17. Visible' = [Visible EXCEPT ![i] = [V EXCEPT !.snapshots = S]]
  BY <1>7, <1>13, <1>14, <1>15, <1>16
<1>. QED
  BY <1>3, <1>17 DEF V

\* What clients see of an owner's list.
LEMMA NamesIn ==
  ASSUME ContentsInv, NEW i \in DOMAIN owners, NEW L, L = Visible[i].snapshots
  PROVE  /\ L = Contents!List(i) /\ L \in Seq(Snapshots)
         /\ Len(L) = owners[i].snapshots.len /\ DOMAIN L = 1 .. Len(L)
         /\ \A k \in 1 .. Len(L) : L[k] = arrays[owners[i].snapshots.array][k]
         /\ \A k, m \in 1 .. Len(L) : L[k] = L[m] => k = m
         /\ \A s : Contents!Has(i, s) <=> Plain!In(L, s)
<1>1. L = Contents!List(i)
  BY VisibleIs DEF Shown, Contents!List
<1>2. /\ L \in Seq(Snapshots) /\ Len(L) = owners[i].snapshots.len /\ DOMAIN L = 1 .. Len(L)
      /\ \A k \in 1 .. Len(L) : L[k] = arrays[owners[i].snapshots.array][k]
  BY <1>1, ListIs
<1>3. \A k, m \in 1 .. Len(L) : L[k] = L[m] => k = m
  <2>1. \A k, m \in 1 .. owners[i].snapshots.len :
          arrays[owners[i].snapshots.array][k] = arrays[owners[i].snapshots.array][m] => k = m
    BY ListIs
  <2>. QED
    BY <1>2, <2>1
<1>4. \A s : Contents!Has(i, s) <=> Plain!In(L, s)
  BY <1>1, <1>2 DEF Contents!Has, Plain!In
<1>. QED
  BY <1>1, <1>2, <1>3, <1>4

\* Snapshots are taken, renamed and deleted as in a list.
LEMMA TakeIsPlain ==
  ASSUME ContentsInv, ContentsInv', NEW i \in Instances, NEW s \in Snapshots,
         Contents!CreateSnapshot(i, s)
  PROVE  Plain!TakeSnapshot(i, s)
<1> DEFINE a == owners[i].snapshots.array
           len == owners[i].snapshots.len
           cells == arrays[a]
           L == Visible[i].snapshots
           S == Append(L, s)
<1>1. i \in DOMAIN owners /\ ~Contents!Has(i, s) /\ Contents!Appended(i, s)
  BY DEF Contents!CreateSnapshot
<1>2. /\ cells \in Seq(Snapshots) /\ Len(cells) \in Nat /\ DOMAIN cells = 1 .. Len(cells)
      /\ len \in Nat /\ len <= Len(cells)
  BY <1>1, ListIs
<1>3. /\ L \in Seq(Snapshots) /\ Len(L) = len
      /\ \A k \in 1 .. len : L[k] = cells[k]
      /\ ~Plain!In(L, s)
  BY <1>1, NamesIn
<1>. HIDE DEF L
<1>4. S \in Seq(Snapshots) /\ Len(S) = len + 1 /\ S[len + 1] = s
      /\ \A k \in 1 .. len : S[k] = cells[k]
  BY <1>3, AppendProperties
<1>. HIDE DEF S
<1>5. \A k \in 1 .. len + 1 : k \in 1 .. len \/ k = len + 1
  BY <1>2
<1>6. UnderWay' = UnderWay /\ Visible' = [Visible EXCEPT ![i] = [Visible[i] EXCEPT !.snapshots = S]]
  <2>1. CASE len < Len(cells)
    <3> DEFINE new == [cells EXCEPT ![len + 1] = s]
    <3>1. Contents!SetList(i, a, new, len + 1)
      BY <1>1, <2>1 DEF Contents!Appended
    <3>. HIDE DEF cells, len
    <3>2. len + 1 \in 1 .. Len(cells)
      BY <1>2, <2>1
    <3>3. \A k \in 1 .. Len(cells) : new[k] = IF k = len + 1 THEN s ELSE cells[k]
      BY <1>2
    <3>. HIDE DEF new
    <3>4. \A k \in 1 .. len : k \in 1 .. Len(cells) /\ k # len + 1
      BY <1>2
    <3>5. \A k \in 1 .. len + 1 : new[k] = S[k]
      BY <1>4, <1>5, <3>2, <3>3, <3>4
    <3>6. len + 1 \in Nat
      BY <1>2
    <3>. QED
      BY <1>1, <1>4, <3>1, <3>5, <3>6, ListReplaced
  <2>2. CASE ~(len < Len(cells))
    <3> DEFINE new == Append(cells, s)
               b == Contents!Fresh(arrays)
    <3>1. Contents!SetList(i, b, new, len + 1)
      BY <1>1, <2>2 DEF Contents!Appended
    <3>2. b \notin DOMAIN arrays
      BY FreshIsNew DEF ContentsInv
    <3>. HIDE DEF b, cells, len
    <3>3. len = Len(cells)
      <4>1. \A m, n \in Nat : m <= n /\ ~(m < n) => m = n
        OBVIOUS
      <4>. QED
        BY <1>2, <2>2, <4>1
    <3>4. new[len + 1] = s /\ \A k \in 1 .. len : new[k] = cells[k]
      BY <1>2, <3>3, AppendProperties
    <3>. HIDE DEF new
    <3>5. \A k \in 1 .. len + 1 : new[k] = S[k]
      BY <1>4, <1>5, <3>4
    <3>6. len + 1 \in Nat
      BY <1>2
    <3>. QED
      BY <1>1, <1>4, <3>1, <3>2, <3>5, <3>6, ListReplaced
  <2>. QED
    BY <2>1, <2>2
<1>. QED
  BY <1>1, <1>3, <1>6, VisibleIs DEF Plain!TakeSnapshot, Plain!Keeps, Plain!Become, S, L

LEMMA RenameSnapshotIsPlain ==
  ASSUME ContentsInv, ContentsInv', NEW i \in Instances, NEW s \in Snapshots, NEW t \in Snapshots,
         Contents!RenameSnapshot(i, s, t)
  PROVE  Plain!RenameSnapshot(i, s, t)
<1> DEFINE a == owners[i].snapshots.array
           len == owners[i].snapshots.len
           cells == arrays[a]
           k == CHOOSE x \in DOMAIN Contents!List(i) : Contents!List(i)[x] = s
           new == [cells EXCEPT ![k] = t]
           L == Visible[i].snapshots
           S == [x \in DOMAIN L |-> IF L[x] = s THEN t ELSE L[x]]
<1>1. Contents!Has(i, s) /\ ~Contents!Has(i, t) /\ Contents!SetList(i, a, new, len)
  BY DEF Contents!RenameSnapshot
<1>2. i \in DOMAIN owners /\ k \in 1 .. len /\ cells[k] = s
  BY <1>1, CellOf
<1>. HIDE DEF k
<1>3. /\ DOMAIN cells = 1 .. Len(cells) /\ Len(cells) \in Nat
      /\ len \in Nat /\ len <= Len(cells)
      /\ \A x, y \in 1 .. len : cells[x] = cells[y] => x = y
  BY <1>2, ListIs
<1>4. /\ L \in Seq(Snapshots) /\ Len(L) = len /\ DOMAIN L = 1 .. len
      /\ \A x \in 1 .. len : L[x] = cells[x]
      /\ Plain!In(L, s) /\ ~Plain!In(L, t)
  BY <1>1, <1>2, NamesIn
<1>5. a = owners[i].snapshots.array
  OBVIOUS
<1>. HIDE DEF a, cells, len, L
<1>6. \A x \in 1 .. len : new[x] = IF x = k THEN t ELSE cells[x]
  BY <1>3
<1>7. \A x \in 1 .. len : L[x] \in Snapshots
  BY <1>4, ElementOfSeq
<1>8. S \in [1 .. len -> Snapshots]
  BY <1>4, <1>7
<1>9. S \in Seq(Snapshots) /\ Len(S) = len
  BY <1>3, <1>8, FunctionIsSeq
<1>10. \A x \in 1 .. len : S[x] = IF L[x] = s THEN t ELSE L[x]
  BY <1>4
<1>. HIDE DEF S, new
<1>11. \A x \in 1 .. len : new[x] = S[x]
  BY <1>2, <1>3, <1>4, <1>6, <1>10
<1>12. UnderWay' = UnderWay
       /\ Visible' = [Visible EXCEPT ![i] = [Visible[i] EXCEPT !.snapshots = S]]
  BY <1>1, <1>2, <1>3, <1>5, <1>9, <1>11, ListReplaced
<1>. QED
  BY <1>2, <1>4, <1>12, VisibleIs DEF Plain!RenameSnapshot, Plain!Keeps, Plain!Become, S, L

LEMMA DeleteSnapshotIsPlain ==
  ASSUME ContentsInv, ContentsInv', NEW i \in Instances, NEW s \in Snapshots,
         Contents!DeleteSnapshot(i, s)
  PROVE  Plain!DeleteSnapshot(i, s)
<1> DEFINE a == owners[i].snapshots.array
           len == owners[i].snapshots.len
           cells == arrays[a]
           k == CHOOSE x \in DOMAIN Contents!List(i) : Contents!List(i)[x] = s
           new == [x \in DOMAIN cells |-> IF x \in k .. (len - 1) THEN cells[x + 1] ELSE cells[x]]
           L == Visible[i].snapshots
           S == [x \in 1 .. Len(L) - 1 |-> IF x < k THEN L[x] ELSE L[x + 1]]
<1>1. Contents!Has(i, s) /\ Contents!SetList(i, a, new, len - 1)
  BY DEF Contents!DeleteSnapshot, Contents!MovedUp
<1>2. i \in DOMAIN owners /\ k \in 1 .. len /\ cells[k] = s
  BY <1>1, CellOf
<1>3. S = Plain!Removed(L, k)
  BY DEF Plain!Removed
<1>. HIDE DEF k
<1>4. DOMAIN cells = 1 .. Len(cells) /\ Len(cells) \in Nat /\ len \in Nat /\ len <= Len(cells)
  BY <1>2, ListIs
<1>5. L \in Seq(Snapshots) /\ Len(L) = len /\ \A x \in 1 .. len : L[x] = cells[x]
  BY <1>2, NamesIn
<1>6. a = owners[i].snapshots.array
  OBVIOUS
<1>. HIDE DEF a, cells, len, L
<1>7. k \in Nat /\ 1 <= k /\ k <= len /\ len - 1 \in Nat
  BY <1>2, <1>4
<1>8. \A x \in 1 .. len - 1 : /\ x \in 1 .. len /\ x + 1 \in 1 .. len
                              /\ x \in 1 .. Len(cells) /\ (x \in k .. (len - 1) <=> ~(x < k))
  BY <1>4, <1>7
<1>9. \A x \in 1 .. len - 1 : new[x] = IF x < k THEN L[x] ELSE L[x + 1]
  BY <1>4, <1>5, <1>8
<1>10. \A x \in 1 .. len : L[x] \in Snapshots
  BY <1>5, ElementOfSeq
<1>11. S \in [1 .. len - 1 -> Snapshots]
       /\ \A x \in 1 .. len - 1 : S[x] = IF x < k THEN L[x] ELSE L[x + 1]
  BY <1>5, <1>8, <1>10
<1>12. S \in Seq(Snapshots) /\ Len(S) = len - 1
  BY <1>7, <1>11, FunctionIsSeq
<1>. HIDE DEF S, new
<1>13. \A x \in 1 .. len - 1 : new[x] = S[x]
  BY <1>9, <1>11
<1>14. UnderWay' = UnderWay
       /\ Visible' = [Visible EXCEPT ![i] = [Visible[i] EXCEPT !.snapshots = S]]
  BY <1>1, <1>2, <1>6, <1>7, <1>12, <1>13, ListReplaced
<1>15. k \in 1 .. Len(L) /\ L[k] = s
  BY <1>2, <1>5
<1>. QED
  BY <1>2, <1>3, <1>14, <1>15, VisibleIs DEF Plain!DeleteSnapshot, Plain!Keeps, Plain!Become, L

\* What clients see of an owner's files: of a directory nothing, of a file its
\* content, which is not empty.
FilesAre(i, G, t) ==
  /\ Contents!Tree(i) = t /\ owners[i].tree \in DOMAIN trees
  /\ DOMAIN G = DOMAIN t /\ DOMAIN t \subseteq DOMAIN Above
  /\ \A p \in DOMAIN t : G[p] = IF t[p] = 0 THEN <<>> ELSE slices[t[p]]
  /\ \A p \in DOMAIN t : t[p] # 0 => t[p] \in DOMAIN slices
  /\ \A p \in DOMAIN t : t[p] = 0 <=> G[p] = Plain!Directory
  /\ \A p : Plain!Placed(G, p) <=> Contents!InDirectory(i, p)

LEMMA FilesIn ==
  ASSUME ContentsInv, NEW i \in DOMAIN owners
  PROVE  FilesAre(i, Visible[i].files, trees[owners[i].tree])
<1> DEFINE t == trees[owners[i].tree]
           G == Visible[i].files
<1>1. /\ Contents!Tree(i) = t /\ owners[i].tree \in DOMAIN trees
      /\ DOMAIN t \subseteq DOMAIN Above
      /\ \A p \in DOMAIN t : t[p] # 0 => t[p] \in DOMAIN slices
  BY OwnersAre, TreeIs DEF Rooted
<1>2. G = [p \in DOMAIN t |-> IF t[p] = 0 THEN <<>> ELSE slices[t[p]]]
  BY VisibleIs DEF Shown
<1>. HIDE DEF t, G
<1>3. DOMAIN G = DOMAIN t /\ \A p \in DOMAIN t : G[p] = IF t[p] = 0 THEN <<>> ELSE slices[t[p]]
  BY <1>2
<1>4. ASSUME NEW s \in DOMAIN slices
      PROVE  slices[s] # <<>>
  <2>1. Len(slices[s]) = 2
    BY DEF ContentsInv, Whole
  <2>2. Len(<<>>) = 0
    OBVIOUS
  <2>. QED
    BY <2>1, <2>2
<1>5. \A p \in DOMAIN t : t[p] = 0 <=> G[p] = <<>>
  BY <1>1, <1>3, <1>4
<1>6. ASSUME NEW p
      PROVE  Plain!Placed(G, p) <=> Contents!InDirectory(i, p)
  BY <1>1, <1>3, <1>5 DEF Plain!Placed, Plain!Directory, Contents!InDirectory, Contents!Directory
<1>7. FilesAre(i, G, t)
  BY <1>1, <1>3, <1>5, <1>6 DEF Plain!Directory, FilesAre
<1>. QED
  BY <1>7 DEF t, G

\* A step that gives an owner the tree t, and puts ns among the slices.
LEMMA TreeReplaced ==
  ASSUME ContentsInv, ContentsInv', NEW i \in DOMAIN owners, NEW t, NEW ns,
         Contents!SetTree(i, t, ns, calls), DOMAIN ns \cap DOMAIN slices = {},
         NEW G, G = [p \in DOMAIN t |-> IF t[p] = 0 THEN <<>>
                                        ELSE IF t[p] \in DOMAIN ns THEN ns[t[p]] ELSE slices[t[p]]],
         \A p \in DOMAIN t : t[p] \in {0} \cup DOMAIN ns \cup DOMAIN slices
  PROVE  /\ UnderWay' = UnderWay
         /\ Visible' = [Visible EXCEPT ![i] = [Visible[i] EXCEPT !.files = G]]
<1> DEFINE r == owners[i].tree
           o == owners[i]
           V == Visible[i]
           S == SubSeq(arrays[o.snapshots.array], 1, o.snapshots.len)
           newF == [p \in DOMAIN trees'[r] |-> IF trees'[r][p] = 0 THEN <<>> ELSE slices'[trees'[r][p]]]
<1>1. /\ trees' = [trees EXCEPT ![r] = t] /\ UNCHANGED <<owners, arrays>>
      /\ slices' = Contents!Keep(Contents!Merged(ns, slices), Contents!SliceRefs(trees', calls))
  BY DEF Contents!SetTree
<1>2. UnderWay' = UnderWay
  BY SetTreeUnderWay
<1>3. OnlyAt(i)
  BY SetTreeOthers
<1>4. r \in DOMAIN trees' /\ trees'[r] = t
  BY <1>1, OwnersAre
<1>5. ASSUME NEW p \in DOMAIN t, t[p] # 0
      PROVE  slices'[t[p]] = IF t[p] \in DOMAIN ns THEN ns[t[p]] ELSE slices[t[p]]
  <2> DEFINE s == t[p]
  <2>1. s \in Contents!SliceRefs(trees', calls)
    BY <1>4, <1>5, RefsAre
  <2>2. s \in DOMAIN ns \cup DOMAIN slices
    BY <1>5
  <2>. HIDE DEF s
  <2>3. Contents!Merged(ns, slices)[s] = IF s \in DOMAIN ns THEN ns[s] ELSE slices[s]
    BY <2>2 DEF Contents!Merged
  <2>4. slices'[s] = Contents!Merged(ns, slices)[s]
    BY <1>1, <2>1, KeepIs
  <2>5. slices'[s] = IF s \in DOMAIN ns THEN ns[s] ELSE slices[s]
    BY <2>3, <2>4
  <2>. QED
    BY <2>5 DEF s
<1>6. newF = G
  BY <1>4, <1>5
<1>7. V.value = o.value /\ V.backups = o.backups /\ V.snapshots = S
  BY VisibleIs DEF Shown
<1>8. Shown(o, trees', arrays', slices')
        = [value |-> o.value, backups |-> o.backups, snapshots |-> S, files |-> newF]
  BY <1>1 DEF Shown
<1>9. Visible' = [Visible EXCEPT ![i] = Shown(o, trees', arrays', slices')]
  BY <1>1, <1>3, VisiblePut
<1>. HIDE DEF newF, S, V
<1>10. [V EXCEPT !.files = G]
         = [value |-> V.value, backups |-> V.backups, snapshots |-> V.snapshots, files |-> G]
  BY HeldFilesEdited DEF V
<1>11. Visible' = [Visible EXCEPT ![i] = [V EXCEPT !.files = G]]
  BY <1>6, <1>7, <1>8, <1>9, <1>10
<1>. QED
  BY <1>2, <1>11 DEF V

\* Files and directories come and go as values do.
LEMMA PushIsPlain ==
  ASSUME ContentsInv, ContentsInv', NEW i \in Instances, NEW p \in DOMAIN Above, NEW v \in Texts,
         Contents!PushFile(i, p, v)
  PROVE  Plain!Push(i, p, v)
<1> DEFINE tree == trees[owners[i].tree]
           s == Contents!Fresh(slices)
           t == Contents!With(tree, p, s)
           ns == Contents!Only(s, <<v, v>>)
           F == Visible[i].files
           G == [q \in DOMAIN t |-> IF t[q] = 0 THEN <<>>
                                    ELSE IF t[q] \in DOMAIN ns THEN ns[t[q]] ELSE slices[t[q]]]
           P == [q \in DOMAIN F \cup {p} |-> IF q = p THEN <<v, v>> ELSE F[q]]
<1>. HIDE DEF F, tree
<1>1. i \in DOMAIN owners
  BY DEF Contents!PushFile
<1>2. /\ Contents!Tree(i) = tree /\ DOMAIN F = DOMAIN tree
      /\ \A q \in DOMAIN tree : F[q] = IF tree[q] = 0 THEN <<>> ELSE slices[tree[q]]
      /\ \A q \in DOMAIN tree : tree[q] # 0 => tree[q] \in DOMAIN slices
      /\ \A q \in DOMAIN tree : tree[q] = 0 <=> F[q] = Plain!Directory
      /\ Plain!Placed(F, p) <=> Contents!InDirectory(i, p)
  <2>1. FilesAre(i, F, tree)
    BY <1>1, FilesIn DEF F, tree
  <2>. QED
    BY <2>1 DEF FilesAre
<1>3. /\ Contents!InDirectory(i, p)
      /\ p \in DOMAIN tree => tree[p] # 0
      /\ Contents!SetTree(i, t, ns, calls)
  BY <1>2 DEF Contents!PushFile, Contents!Directory, Contents!NewSlice
<1>4. s \in Nat \ {0} /\ s \notin DOMAIN slices
  BY FreshIsNew DEF ContentsInv
<1>5. P = Plain!Put(F, p, Plain!Content(v))
  BY DEF Plain!Put, Plain!Content
<1>. HIDE DEF s
<1>6. DOMAIN t = DOMAIN tree \cup {p} /\ \A q \in DOMAIN t : t[q] = IF q = p THEN s ELSE tree[q]
  BY DEF Contents!With, Contents!Merged, Contents!Only
<1>7. DOMAIN ns = {s} /\ ns[s] = <<v, v>>
  BY OnlyIs
<1>. HIDE DEF t, ns
<1>8. G = P
  <2>1. \A q \in DOMAIN t : q # p => t[q] # s /\ t[q] \notin DOMAIN ns
    BY <1>2, <1>4, <1>6, <1>7
  <2>2. \A q \in DOMAIN t : G[q] = P[q]
    BY <1>2, <1>4, <1>6, <1>7, <2>1
  <2>. QED
    BY <1>2, <1>6, <2>2
<1>9. \A q \in DOMAIN t : t[q] \in {0} \cup DOMAIN ns \cup DOMAIN slices
  BY <1>2, <1>6, <1>7
<1>10. DOMAIN ns \cap DOMAIN slices = {}
  BY <1>4, <1>7
<1>11. G = [q \in DOMAIN t |-> IF t[q] = 0 THEN <<>>
                               ELSE IF t[q] \in DOMAIN ns THEN ns[t[q]] ELSE slices[t[q]]]
  OBVIOUS
<1>. HIDE DEF G, P
<1>12. UnderWay' = UnderWay /\ Visible' = [Visible EXCEPT ![i] = [Visible[i] EXCEPT !.files = G]]
  BY <1>1, <1>3, <1>9, <1>10, <1>11, TreeReplaced
<1>13. p \in DOMAIN F => F[p] # Plain!Directory
  BY <1>2, <1>3
<1>14. Visible' = [Visible EXCEPT ![i] = [Visible[i] EXCEPT !.files = Plain!Put(F, p, Plain!Content(v))]]
  BY <1>5, <1>8, <1>12
<1>15. Plain!Placed(F, p)
  BY <1>2, <1>3
<1>. QED
  BY <1>1, <1>12, <1>13, <1>14, <1>15, VisibleIs DEF Plain!Push, Plain!Keeps, Plain!Become, F

LEMMA MakeDirectoryIsPlain ==
  ASSUME ContentsInv, ContentsInv', NEW i \in Instances, NEW p \in DOMAIN Above,
         Contents!MakeDirectory(i, p)
  PROVE  Plain!MakeDirectory(i, p)
<1> DEFINE tree == trees[owners[i].tree]
           t == Contents!With(tree, p, 0)
           none == <<>>
           F == Visible[i].files
           G == [q \in DOMAIN t |-> IF t[q] = 0 THEN <<>>
                                    ELSE IF t[q] \in DOMAIN none THEN none[t[q]] ELSE slices[t[q]]]
           P == [q \in DOMAIN F \cup {p} |-> IF q = p THEN <<>> ELSE F[q]]
<1>. HIDE DEF F, tree
<1>1. i \in DOMAIN owners
  BY DEF Contents!MakeDirectory
<1>2. /\ Contents!Tree(i) = tree /\ DOMAIN F = DOMAIN tree
      /\ \A q \in DOMAIN tree : F[q] = IF tree[q] = 0 THEN <<>> ELSE slices[tree[q]]
      /\ \A q \in DOMAIN tree : tree[q] # 0 => tree[q] \in DOMAIN slices
      /\ Plain!Placed(F, p) <=> Contents!InDirectory(i, p)
  <2>1. FilesAre(i, F, tree)
    BY <1>1, FilesIn DEF F, tree
  <2>. QED
    BY <2>1 DEF FilesAre
<1>3. Contents!InDirectory(i, p) /\ p \notin DOMAIN tree /\ Contents!SetTree(i, t, none, calls)
  BY <1>2 DEF Contents!MakeDirectory, Contents!Directory
<1>4. P = Plain!Put(F, p, Plain!Directory)
  BY DEF Plain!Put, Plain!Directory
<1>5. DOMAIN none = {} /\ DOMAIN none \cap DOMAIN slices = {}
  BY EmptyHeap
<1>. HIDE DEF none
<1>6. DOMAIN t = DOMAIN tree \cup {p} /\ \A q \in DOMAIN t : t[q] = IF q = p THEN 0 ELSE tree[q]
  BY DEF Contents!With, Contents!Merged, Contents!Only
<1>. HIDE DEF t
<1>7. G = P
  <2>1. \A q \in DOMAIN t : G[q] = P[q]
    BY <1>2, <1>5, <1>6
  <2>. QED
    BY <1>2, <1>6, <2>1
<1>8. \A q \in DOMAIN t : t[q] \in {0} \cup DOMAIN none \cup DOMAIN slices
  BY <1>2, <1>6
<1>9. G = [q \in DOMAIN t |-> IF t[q] = 0 THEN <<>>
                               ELSE IF t[q] \in DOMAIN none THEN none[t[q]] ELSE slices[t[q]]]
  OBVIOUS
<1>. HIDE DEF G, P
<1>10. UnderWay' = UnderWay /\ Visible' = [Visible EXCEPT ![i] = [Visible[i] EXCEPT !.files = G]]
  BY <1>1, <1>3, <1>5, <1>8, <1>9, TreeReplaced
<1>. QED
  BY <1>1, <1>2, <1>3, <1>4, <1>7, <1>10, VisibleIs DEF Plain!MakeDirectory, Plain!Keeps, Plain!Become, F

LEMMA DeleteFileIsPlain ==
  ASSUME ContentsInv, ContentsInv', NEW i \in Instances, NEW p \in DOMAIN Above,
         Contents!DeleteFile(i, p)
  PROVE  Plain!DeleteFile(i, p)
<1> DEFINE tree == trees[owners[i].tree]
           t == Contents!Without(tree, p)
           none == <<>>
           F == Visible[i].files
           G == [q \in DOMAIN t |-> IF t[q] = 0 THEN <<>>
                                    ELSE IF t[q] \in DOMAIN none THEN none[t[q]] ELSE slices[t[q]]]
           P == [q \in DOMAIN F \ {p} |-> F[q]]
<1>. HIDE DEF F, tree
<1>1. i \in DOMAIN owners
  BY DEF Contents!DeleteFile
<1>2. /\ Contents!Tree(i) = tree /\ DOMAIN F = DOMAIN tree
      /\ \A q \in DOMAIN tree : F[q] = IF tree[q] = 0 THEN <<>> ELSE slices[tree[q]]
      /\ \A q \in DOMAIN tree : tree[q] # 0 => tree[q] \in DOMAIN slices
  <2>1. FilesAre(i, F, tree)
    BY <1>1, FilesIn DEF F, tree
  <2>. QED
    BY <2>1 DEF FilesAre
<1>3. /\ p \in DOMAIN tree \ {Plain!Root} /\ \A q \in DOMAIN tree \ {p} : Above[q] # p
      /\ Contents!SetTree(i, t, none, calls)
  BY <1>2 DEF Contents!DeleteFile, Contents!Root, Contents!Paths, Plain!Root, Plain!Paths
<1>4. P = Plain!Drop(F, p)
  BY DEF Plain!Drop
<1>5. DOMAIN none = {} /\ DOMAIN none \cap DOMAIN slices = {}
  BY EmptyHeap
<1>. HIDE DEF none
<1>6. DOMAIN t = DOMAIN tree \ {p} /\ \A q \in DOMAIN t : t[q] = tree[q]
  BY DEF Contents!Without
<1>. HIDE DEF t
<1>7. G = P
  <2>1. \A q \in DOMAIN t : G[q] = P[q]
    BY <1>2, <1>5, <1>6
  <2>. QED
    BY <1>2, <1>6, <2>1
<1>8. \A q \in DOMAIN t : t[q] \in {0} \cup DOMAIN none \cup DOMAIN slices
  BY <1>2, <1>6
<1>9. G = [q \in DOMAIN t |-> IF t[q] = 0 THEN <<>>
                               ELSE IF t[q] \in DOMAIN none THEN none[t[q]] ELSE slices[t[q]]]
  OBVIOUS
<1>. HIDE DEF G, P
<1>10. UnderWay' = UnderWay /\ Visible' = [Visible EXCEPT ![i] = [Visible[i] EXCEPT !.files = G]]
  BY <1>1, <1>3, <1>5, <1>8, <1>9, TreeReplaced
<1>. QED
  BY <1>1, <1>2, <1>3, <1>4, <1>7, <1>10, VisibleIs DEF Plain!DeleteFile, Plain!Keeps, Plain!Become, F

\* What other downloads hold is kept.
OthersHold(c) ==
  \A d \in Calls \ {c} : calls[d].pc = "stream" => slices'[calls[d].slice] = slices[calls[d].slice]

\* What is under way of a request that becomes this call.
Onward(call) == [pc |-> call.pc, sent |-> call.sent, blob |-> call.blob,
                 content |-> IF call.pc = "stream" THEN slices'[call.slice] ELSE <<>>]

\* A download or a restoration moves on, and the slices of the others are kept.
LEMMA UnderWayAt ==
  ASSUME ContentsInv, NEW c \in Calls, NEW call, calls' = [calls EXCEPT ![c] = call], OthersHold(c)
  PROVE  UnderWay' = [UnderWay EXCEPT ![c] = Onward(call)]
<1> DEFINE u == Onward(call)
<1>1. calls \in [Calls -> Call]
  BY DEF ContentsInv
<1>2. \A d \in Calls : calls'[d] = IF d = c THEN call ELSE calls[d]
  BY <1>1
<1>3. DOMAIN UnderWay' = Calls /\ DOMAIN UnderWay = Calls
      /\ UnderWay' = [d \in DOMAIN UnderWay' |-> UnderWay'[d]]
  BY DEF UnderWay
<1>4. UnderWay'[c] = u
  BY <1>2 DEF UnderWay, Onward
<1>. HIDE DEF u
<1>5. ASSUME NEW d \in Calls \ {c}
      PROVE  UnderWay'[d] = UnderWay[d]
  <2>1. calls'[d] = calls[d]
    BY <1>2
  <2>. QED
    BY <2>1 DEF UnderWay, OthersHold
<1>6. \A d \in Calls : UnderWay'[d] = IF d = c THEN u ELSE UnderWay[d]
  BY <1>4, <1>5
<1>7. UnderWay' = [d \in Calls |-> IF d = c THEN u ELSE UnderWay[d]]
  BY <1>3, <1>6
<1>8. [UnderWay EXCEPT ![c] = u] = [d \in Calls |-> IF d = c THEN u ELSE UnderWay[d]]
  BY <1>3
<1>. QED
  BY <1>7, <1>8 DEF u

\* What is under way of a request.
LEMMA UnderWayIs ==
  ASSUME NEW c \in Calls
  PROVE  /\ UnderWay[c].pc = calls[c].pc /\ UnderWay[c].sent = calls[c].sent
         /\ UnderWay[c].blob = calls[c].blob
         /\ calls[c].pc = "stream" => UnderWay[c].content = slices[calls[c].slice]
BY DEF UnderWay

\* What a request is, not in flight.
LEMMA IdleIs ==
  ASSUME NEW v, v = CHOOSE w \in Texts : TRUE
  PROVE  /\ Contents!Idle = [pc |-> "idle", slice |-> 0, sent |-> <<>>, blob |-> v]
         /\ Plain!Idle = [pc |-> "idle", content |-> <<>>, sent |-> <<>>, blob |-> v]
         /\ Plain!NoBlob = v
BY DEF Contents!Idle, Plain!Idle, Plain!Begun, Plain!NoBlob

\* Requests begin, go on and end as those of values do.
LEMMA PullIsPlain ==
  ASSUME ContentsInv, ContentsInv', NEW c \in Calls, NEW i \in Instances, NEW p \in DOMAIN Above,
         Contents!PullFile(c, i, p)
  PROVE  Plain!Pull(c, i, p)
<1> DEFINE tree == trees[owners[i].tree]
           F == Visible[i].files
           s == tree[p]
           call == [Contents!Idle EXCEPT !.pc = "stream", !.slice = s]
           v == CHOOSE w \in Texts : TRUE
           u == [pc |-> "stream", sent |-> <<>>, blob |-> v, content |-> slices[s]]
<1>1. /\ calls[c].pc = "idle" /\ i \in DOMAIN owners /\ p \in DOMAIN tree /\ s # 0
      /\ calls' = [calls EXCEPT ![c] = call] /\ UNCHANGED <<owners, trees, slices, arrays>>
  BY DEF Contents!PullFile, Contents!Tree, Contents!Directory
<1>2. FilesAre(i, F, tree)
  BY <1>1, FilesIn
<1>. HIDE DEF F, tree
<1>3. p \in DOMAIN F /\ F[p] = slices[s] /\ F[p] # Plain!Directory
  BY <1>1, <1>2 DEF FilesAre
<1>. HIDE DEF s
<1>4. v = CHOOSE w \in Texts : TRUE
  OBVIOUS
<1>. HIDE DEF v
<1>5. call.pc = "stream" /\ call.slice = s /\ call.sent = <<>> /\ call.blob = v
  BY <1>4, IdleIs
<1>. HIDE DEF call
<1>6. u = Onward(call)
  BY <1>1, <1>5 DEF Onward
<1>7. u = Plain!Begun("stream", F[p], Plain!NoBlob)
  BY <1>3, <1>4, IdleIs DEF Plain!Begun
<1>. HIDE DEF u
<1>8. UnderWay' = [UnderWay EXCEPT ![c] = u]
  <2>1. OthersHold(c)
    BY <1>1 DEF OthersHold
  <2>. QED
    BY <1>1, <1>6, <2>1, UnderWayAt
<1>9. Visible' = Visible
  BY <1>1, CallsOthers, VisibleStays
<1>10. UnderWay[c].pc = "idle"
  BY <1>1, UnderWayIs
<1>. QED
  BY <1>1, <1>3, <1>7, <1>8, <1>9, <1>10, VisibleIs DEF Plain!Pull, F

LEMMA StreamIsPlain ==
  ASSUME ContentsInv, ContentsInv', NEW c \in Calls, Contents!StreamBlock(c)
  PROVE  Plain!Send(c)
<1> DEFINE s == calls[c].slice
           old == calls[c].sent
           S == Append(old, slices[s][Len(old) + 1])
           call == [calls[c] EXCEPT !.sent = S]
           u == [pc |-> "stream", sent |-> S, blob |-> calls[c].blob, content |-> slices[s]]
<1>1. /\ calls[c].pc = "stream" /\ Len(old) < 2
      /\ calls' = [calls EXCEPT ![c] = call] /\ UNCHANGED <<owners, trees, slices, arrays>>
  BY DEF Contents!StreamBlock
<1>2. calls[c] \in Call
  BY DEF ContentsInv
<1>3. Len(slices[s]) = 2
  BY <1>1, HeldIs DEF ContentsInv, Whole
<1>4. /\ UnderWay[c] = [pc |-> "stream", sent |-> old, blob |-> calls[c].blob, content |-> slices[s]]
      /\ UnderWay[c].pc = "stream" /\ UnderWay[c].sent = old /\ UnderWay[c].content = slices[s]
  BY <1>1 DEF UnderWay
<1>. HIDE DEF S
<1>5. call.pc = "stream" /\ call.slice = s /\ call.sent = S /\ call.blob = calls[c].blob
  BY <1>1, <1>2 DEF Call
<1>. HIDE DEF call
<1>6. u = Onward(call)
  BY <1>1, <1>5 DEF Onward
<1>. HIDE DEF u
<1>7. UnderWay' = [UnderWay EXCEPT ![c] = u]
  <2>1. OthersHold(c)
    BY <1>1 DEF OthersHold
  <2>. QED
    BY <1>1, <1>6, <2>1, UnderWayAt
<1>8. u = [UnderWay[c] EXCEPT !.sent = S]
  BY <1>4 DEF u
<1>9. UnderWay' = [UnderWay EXCEPT ![c].sent = S]
  BY <1>7, <1>8
<1>10. S = Append(UnderWay[c].sent, UnderWay[c].content[Len(UnderWay[c].sent) + 1])
  BY <1>4 DEF S
<1>11. UnderWay' = [UnderWay EXCEPT ![c].sent = Append(@, UnderWay[c].content[Len(@) + 1])]
  BY <1>9, <1>10
<1>12. Visible' = Visible
  BY <1>1, CallsOthers, VisibleStays
<1>13. Len(UnderWay[c].sent) < Len(UnderWay[c].content)
  BY <1>1, <1>3, <1>4
<1>. QED
  BY <1>4, <1>11, <1>12, <1>13 DEF Plain!Send

\* A request that is over leaves nothing.
LEMMA EndsIdle ==
  ASSUME ContentsInv, NEW c \in Calls, calls' = [calls EXCEPT ![c] = Contents!Idle], OthersHold(c)
  PROVE  UnderWay' = [UnderWay EXCEPT ![c] = Plain!Idle]
<1> DEFINE call == Contents!Idle
           u == Plain!Idle
           v == CHOOSE w \in Texts : TRUE
<1>1. v = CHOOSE w \in Texts : TRUE
  OBVIOUS
<1>. HIDE DEF v
<1>2. /\ call = [pc |-> "idle", slice |-> 0, sent |-> <<>>, blob |-> v]
      /\ u = [pc |-> "idle", content |-> <<>>, sent |-> <<>>, blob |-> v]
  BY <1>1, IdleIs
<1>. HIDE DEF call, u
<1>3. u = Onward(call)
  BY <1>2 DEF Onward
<1>4. calls' = [calls EXCEPT ![c] = call]
  BY DEF call
<1>5. UnderWay' = [UnderWay EXCEPT ![c] = u]
  BY <1>3, <1>4, UnderWayAt
<1>. QED
  BY <1>5 DEF u

LEMMA EndIsPlain ==
  ASSUME ContentsInv, ContentsInv', NEW c \in Calls, Contents!EndPull(c)
  PROVE  Plain!End(c)
<1> DEFINE s == calls[c].slice
<1>1. /\ calls[c].pc = "stream" /\ Len(calls[c].sent) = 2
      /\ calls' = [calls EXCEPT ![c] = Contents!Idle] /\ UNCHANGED <<owners, trees, arrays>>
      /\ slices' = Contents!Keep(slices, Contents!SliceRefs(trees, calls'))
  BY DEF Contents!EndPull
<1>2. calls \in [Calls -> Call] /\ calls[c].sent \in Seq(Texts)
  BY DEF ContentsInv, Call
<1>3. ASSUME NEW d \in Calls \ {c}, calls[d].pc = "stream"
      PROVE  slices'[calls[d].slice] = slices[calls[d].slice]
  <2>1. calls'[d] = calls[d]
    BY <1>1, <1>2
  <2>2. calls[d].slice \in Contents!SliceRefs(trees, calls')
    BY <1>3, <2>1, RefsAre
  <2>. QED
    BY <1>1, <2>2, KeepIs
<1>4. UnderWay' = [UnderWay EXCEPT ![c] = Plain!Idle]
  BY <1>1, <1>3, EndsIdle DEF OthersHold
<1>5. Visible' = Visible
  <2>1. ASSUME NEW n \in DOMAIN owners, NEW p \in DOMAIN trees[owners[n].tree],
               trees[owners[n].tree][p] # 0
        PROVE  slices'[trees[owners[n].tree][p]] = slices[trees[owners[n].tree][p]]
    <3> DEFINE t == owners[n].tree
               x == trees[t][p]
    <3>1. t \in DOMAIN trees
      BY OwnersAre
    <3>2. x \in Contents!SliceRefs(trees, calls')
      BY <2>1, <3>1, RefsAre
    <3>. HIDE DEF x, t
    <3>3. slices'[x] = slices[x]
      BY <1>1, <3>2, KeepIs
    <3>. QED
      BY <3>3 DEF x, t
  <2>. QED
    BY <1>1, <2>1, CallsOthers, VisibleStays
<1>6. slices[s] \in Seq(Texts) /\ Len(slices[s]) = 2
  BY <1>1, HeldIs DEF ContentsInv, Whole
<1>7. \A k \in 1 .. Len(calls[c].sent) : calls[c].sent[k] = slices[s][k]
  BY <1>1 DEF ContentsInv, Streaming
<1>8. calls[c].sent = slices[s]
  BY <1>1, <1>2, <1>6, <1>7, SeqEqual
<1>9. UnderWay[c].pc = "stream" /\ UnderWay[c].sent = UnderWay[c].content
  BY <1>1, <1>8, UnderWayIs
<1>. QED
  BY <1>4, <1>5, <1>9 DEF Plain!End

LEMMA RestoreIsPlain ==
  ASSUME ContentsInv, ContentsInv', NEW c \in Calls, NEW i \in Instances, NEW b,
         Contents!RestoreInstanceBackup(c, i, b)
  PROVE  Plain!Restore(c, i, b)
<1> DEFINE blob == owners[i].backups[b]
           call == [Contents!Idle EXCEPT !.pc = "import", !.blob = blob]
           u == [pc |-> "import", sent |-> <<>>, blob |-> blob, content |-> <<>>]
<1>1. /\ calls[c].pc = "idle" /\ i \in DOMAIN owners /\ b \in DOMAIN owners[i].backups
      /\ calls' = [calls EXCEPT ![c] = call] /\ UNCHANGED <<owners, trees, slices, arrays>>
  BY DEF Contents!RestoreInstanceBackup
<1>2. Visible[i].backups = owners[i].backups
  BY <1>1, VisibleIs DEF Shown
<1>. HIDE DEF blob
<1>3. call.pc = "import" /\ call.sent = <<>> /\ call.blob = blob
  BY DEF Contents!Idle
<1>. HIDE DEF call
<1>4. u = Onward(call)
  BY <1>3 DEF Onward
<1>5. u = Plain!Begun("import", <<>>, blob)
  BY DEF Plain!Begun
<1>. HIDE DEF u
<1>6. UnderWay' = [UnderWay EXCEPT ![c] = u]
  <2>1. OthersHold(c)
    BY <1>1 DEF OthersHold
  <2>. QED
    BY <1>1, <1>4, <2>1, UnderWayAt
<1>7. Visible' = Visible
  BY <1>1, CallsOthers, VisibleStays
<1>8. UnderWay[c].pc = "idle"
  BY <1>1, UnderWayIs
<1>. QED
  BY <1>1, <1>2, <1>5, <1>6, <1>7, <1>8, VisibleIs DEF Plain!Restore, blob

LEMMA ImportIsPlain ==
  ASSUME ContentsInv, ContentsInv', NEW c \in Calls, NEW j \in Instances,
         Contents!ImportInstance(c, j)
  PROVE  Plain!Import(c, j)
<1>1. /\ calls[c].pc = "import" /\ calls' = [calls EXCEPT ![c] = Contents!Idle] /\ slices' = slices
  BY DEF Contents!ImportInstance
<1>2. UnderWay' = [UnderWay EXCEPT ![c] = Plain!Idle]
  BY <1>1, EndsIdle DEF OthersHold
<1>3. UnderWay[c].pc = "import" /\ UnderWay[c].blob = calls[c].blob
  BY <1>1, UnderWayIs
<1>4. CASE j \in DOMAIN owners
  <2>1. UNCHANGED <<owners, trees, arrays>>
    BY <1>4 DEF Contents!ImportInstance
  <2>2. Visible' = Visible
    BY <1>1, <2>1, CallsOthers, VisibleStays
  <2>. QED
    BY <1>2, <1>3, <1>4, <2>2, VisibleIs DEF Plain!Import
<1>5. CASE j \notin DOMAIN owners
  <2> DEFINE v == calls[c].blob
             t == Contents!Fresh(trees)
             a == Contents!Fresh(arrays)
             h == [value |-> v, tree |-> t, backups |-> <<>>, snapshots |-> [array |-> a, len |-> 0]]
             root == Contents!Only(Contents!Root, Contents!Directory)
  <2>1. /\ owners' = Contents!With(owners, j, h)
        /\ trees' = Contents!With(trees, t, root)
        /\ arrays' = Contents!With(arrays, a, <<>>)
    BY <1>5 DEF Contents!ImportInstance, Contents!NewTree, Contents!NewArray
  <2>. HIDE DEF v, t, a, root
  <2>2. trees'[t] = root /\ arrays'[a] = <<>>
    BY <2>1 DEF Contents!With, Contents!Merged, Contents!Only
  <2>3. Shown(h, trees', arrays', slices') = Plain!Blank(v)
    BY <2>2, BlankShown DEF root
  <2>. HIDE DEF h
  <2>4. j \in DOMAIN owners' /\ owners'[j] = h
    BY <2>1 DEF Contents!With, Contents!Merged, Contents!Only
  <2>5. OnlyAt(j)
    BY ImportOthers
  <2>6. Visible' = Plain!Put(Visible, j, Plain!Blank(v))
    BY <2>3, <2>4, <2>5, VisiblePut
  <2>. QED
    BY <1>2, <1>3, <1>5, <2>6, VisibleIs DEF Plain!Import, v
<1>. QED
  BY <1>4, <1>5

\* A clone shows what its source shows, but for the backups.
LEMMA CloneIsPlain ==
  ASSUME ContentsInv, ContentsInv', NEW i \in Instances, NEW j \in Instances,
         Contents!CloneInstance(i, j)
  PROVE  Plain!Clone(i, j)
<1> DEFINE t == Contents!Fresh(trees)
           a == Contents!Fresh(arrays)
           l == owners[i].snapshots
           L == Contents!List(i)
           h == [owners[i] EXCEPT !.tree = t, !.backups = <<>>, !.snapshots.array = a]
           tree == trees[owners[i].tree]
           files == {p \in DOMAIN tree : tree[p] # 0}
           copies == Contents!Copies(tree)
           copied == Contents!Merged(copies, tree)
           os == Contents!With(owners, j, h)
           nt == Contents!Only(t, copied)
           na == Contents!Only(a, L)
           new == {copies[p] : p \in DOMAIN copies}
           ns == [n \in new |-> slices[tree[CHOOSE p \in DOMAIN copies : copies[p] = n]]]
           V == Visible[i]
           newF == [p \in DOMAIN trees'[t] |-> IF trees'[t][p] = 0 THEN <<>> ELSE slices'[trees'[t][p]]]
           newS == SubSeq(arrays'[a], 1, l.len)
<1>1. i \in DOMAIN owners /\ j \notin DOMAIN owners
  BY DEF Contents!CloneInstance
<1>2. t \notin DOMAIN trees /\ a \notin DOMAIN arrays
  BY FreshIsNew DEF ContentsInv
<1>3. Contents!SetAll(os, nt, na, ns)
  BY <1>2 DEF Contents!CloneInstance, Contents!ClonedArray, Contents!NewTree, Contents!NewArray
<1>. HIDE DEF t, a
<1>4. Rooted(tree) /\ owners[i] \in Holder
  BY <1>1, OwnersAre
<1>5. PICK n \in Nat : /\ copies \in [files -> (1 .. n) \ DOMAIN slices]
                       /\ \A p, q \in files : copies[p] = copies[q] => p = q
  BY <1>4, CopiesAre
<1>. HIDE DEF copies
<1>6. /\ h.value = owners[i].value /\ h.tree = t /\ h.backups = <<>>
      /\ h.snapshots.array = a /\ h.snapshots.len = l.len
  BY <1>4 DEF Holder
<1>. HIDE DEF h
<1>7. DOMAIN copied = DOMAIN tree
      /\ \A p \in DOMAIN tree : copied[p] = IF p \in files THEN copies[p] ELSE tree[p]
  BY <1>5 DEF Contents!Merged
<1>. HIDE DEF copied
<1>8. ASSUME NEW p \in files
      PROVE  copies[p] \in DOMAIN ns /\ ns[copies[p]] = slices[tree[p]]
             /\ copies[p] # 0 /\ copies[p] \notin DOMAIN slices
  <2>1. copies[p] \in new /\ DOMAIN copies = files
    BY <1>5
  <2>2. (CHOOSE q \in DOMAIN copies : copies[q] = copies[p]) = p
    BY <1>5, <2>1
  <2>3. copies[p] \in 1 .. n /\ copies[p] \notin DOMAIN slices
    BY <1>5
  <2>4. ns[copies[p]] = slices[tree[CHOOSE q \in DOMAIN copies : copies[q] = copies[p]]]
    BY <2>1
  <2>5. ns[copies[p]] = slices[tree[p]] /\ DOMAIN ns = new
    BY <2>2, <2>4
  <2>6. copies[p] # 0
    BY <2>3
  <2>. HIDE DEF ns
  <2>. QED
    BY <2>1, <2>3, <2>5, <2>6
<1>9. DOMAIN ns \cap DOMAIN slices = {}
  BY <1>5
<1>10. DOMAIN nt = {t} /\ nt[t] = copied /\ DOMAIN na = {a} /\ na[a] = L
  BY OnlyIs
<1>11. j \in DOMAIN os /\ os[j] = h
  BY DEF Contents!With, Contents!Merged, Contents!Only
<1>. HIDE DEF ns, nt, na, os
<1>12. /\ owners' = os /\ calls' = calls
       /\ trees' = Contents!Keep(Contents!Merged(nt, trees), {os[k].tree : k \in DOMAIN os})
       /\ arrays' = Contents!Keep(Contents!Merged(na, arrays), {os[k].snapshots.array : k \in DOMAIN os})
       /\ slices' = Contents!Keep(Contents!Merged(ns, slices), Contents!SliceRefs(trees', calls))
  BY <1>3 DEF Contents!SetAll
<1>13. t \in DOMAIN trees' /\ trees'[t] = copied
  <2>1. t \in {os[k].tree : k \in DOMAIN os}
    BY <1>6, <1>11
  <2>2. Contents!Merged(nt, trees)[t] = copied
    BY <1>10 DEF Contents!Merged
  <2>. QED
    BY <1>12, <2>1, <2>2, KeepIs
<1>14. arrays'[a] = L
  <2>1. a \in {os[k].snapshots.array : k \in DOMAIN os}
    BY <1>6, <1>11
  <2>2. Contents!Merged(na, arrays)[a] = L
    BY <1>10 DEF Contents!Merged
  <2>. QED
    BY <1>12, <2>1, <2>2, KeepIs
<1>15. ASSUME NEW p \in files
       PROVE  slices'[copies[p]] = slices[tree[p]]
  <2> DEFINE s == copies[p]
  <2>1. s \in DOMAIN ns /\ ns[s] = slices[tree[p]] /\ s # 0
    BY <1>8
  <2>2. s = copied[p] /\ p \in DOMAIN copied
    BY <1>7
  <2>3. s \in Contents!SliceRefs(trees', calls)
    BY <1>13, <2>1, <2>2, RefsAre
  <2>. HIDE DEF s
  <2>4. Contents!Merged(ns, slices)[s] = ns[s]
    BY <2>1 DEF Contents!Merged
  <2>5. slices'[s] = slices[tree[p]]
    BY <1>12, <2>1, <2>3, <2>4, KeepIs
  <2>. QED
    BY <2>5 DEF s
<1>16. FilesAre(i, V.files, tree)
  BY <1>1, FilesIn
<1>17. V.value = owners[i].value /\ V.snapshots = L /\ L \in Seq(Snapshots) /\ Len(L) = l.len
       /\ l.len \in Nat
  BY <1>1, <1>4, VisibleIs, ListIs DEF Shown, Contents!List
<1>18. newF = V.files
  <2>1. \E G : V.files = G /\ G = [p \in DOMAIN G |-> G[p]]
    <3>1. V.files = [p \in DOMAIN tree |-> IF tree[p] = 0 THEN <<>> ELSE slices[tree[p]]]
      BY <1>1, VisibleIs DEF Shown
    <3>. QED
      BY <3>1
  <2>2. DOMAIN newF = DOMAIN tree
    BY <1>7, <1>13
  <2>3. ASSUME NEW p \in DOMAIN tree
        PROVE  newF[p] = V.files[p]
    <3>1. CASE p \in files
      <4>1. copied[p] = copies[p] /\ copies[p] # 0
        BY <1>7, <1>8, <3>1
      <4>2. newF[p] = slices[tree[p]]
        BY <1>7, <1>13, <1>15, <3>1, <4>1
      <4>. QED
        BY <1>16, <3>1, <4>2 DEF FilesAre
    <3>2. CASE p \notin files
      <4>1. tree[p] = 0 /\ copied[p] = 0
        BY <1>7, <3>2
      <4>2. newF[p] = <<>>
        BY <1>7, <1>13, <4>1
      <4>. QED
        BY <1>16, <4>1, <4>2 DEF FilesAre
    <3>. QED
      BY <3>1, <3>2
  <2>. HIDE DEF V
  <2>4. DOMAIN V.files = DOMAIN tree
    BY <1>16 DEF FilesAre
  <2>5. newF = [p \in DOMAIN newF |-> newF[p]]
    OBVIOUS
  <2>. HIDE DEF newF, tree
  <2>. QED
    BY <2>1, <2>2, <2>3, <2>4, <2>5
<1>19. newS = V.snapshots
  BY <1>14, <1>17, FirstCells
<1>20. Shown(h, trees', arrays', slices')
         = [value |-> h.value, backups |-> h.backups, snapshots |-> newS, files |-> newF]
  BY <1>6 DEF Shown
<1>21. OnlyAt(j)
  BY CloneOthers
<1>22. UnderWay' = UnderWay
  BY <1>3, <1>9, SetAllUnderWay
<1>. HIDE DEF newF, newS, V, L
<1>23. [V EXCEPT !.backups = <<>>]
         = [value |-> V.value, backups |-> <<>>, snapshots |-> V.snapshots, files |-> V.files]
  BY <1>1, HeldBackupsEdited DEF V
<1>24. Shown(h, trees', arrays', slices') = [V EXCEPT !.backups = <<>>]
  BY <1>6, <1>17, <1>18, <1>19, <1>20, <1>23
<1>25. Visible' = Plain!Put(Visible, j, [V EXCEPT !.backups = <<>>])
  <2>1. j \in DOMAIN owners' /\ owners'[j] = h
    BY <1>11, <1>12
  <2>. QED
    BY <1>21, <1>24, <2>1, VisiblePut
<1>. QED
  BY <1>1, <1>22, <1>25, VisibleIs DEF Plain!Clone, Plain!Become, V

\* Nothing is held and nothing under way at the start.
LEMMA PlainStart == Contents!Init => Plain!Init
<1> SUFFICES ASSUME Contents!Init
             PROVE  Plain!Init
  OBVIOUS
<1>1. owners = <<>> /\ calls = [c \in Calls |-> Contents!Idle]
  BY DEF Contents!Init
<1>2. Visible = <<>>
  <2>1. DOMAIN owners = {}
    BY <1>1, EmptyHeap
  <2>2. Visible = [n \in {} |-> Contents!View(n)]
    BY <2>1 DEF Visible
  <2>. QED
    BY <2>2
<1> DEFINE v == CHOOSE w \in Texts : TRUE
<1>3. v = CHOOSE w \in Texts : TRUE
  OBVIOUS
<1>. HIDE DEF v
<1>4. /\ Contents!Idle = [pc |-> "idle", slice |-> 0, sent |-> <<>>, blob |-> v]
      /\ Plain!Idle = [pc |-> "idle", content |-> <<>>, sent |-> <<>>, blob |-> v]
  BY <1>3, IdleIs
<1>5. ASSUME NEW c \in Calls
      PROVE  UnderWay[c] = Plain!Idle
  <2>1. calls[c].pc = "idle" /\ calls[c].sent = <<>> /\ calls[c].blob = v
    BY <1>1, <1>4
  <2>. QED
    BY <1>4, <2>1 DEF UnderWay
<1>6. UnderWay = [c \in Calls |-> Plain!Idle]
  BY <1>5 DEF UnderWay
<1>. QED
  BY <1>2, <1>6 DEF Plain!Init

\* Every step of the contents' side is one of values.
LEMMA StepsArePlain == ContentsInv /\ ContentsInv' /\ Contents!Next => Plain!Next
<1> SUFFICES ASSUME ContentsInv, ContentsInv', Contents!Next
             PROVE  Plain!Next
  OBVIOUS
<1>1. CASE Contents!InstanceStep \/ Contents!VolumeStep
  <2>1. PICK i \in Instances :
          \/ \E v \in Texts : Contents!Create(i, v) \/ Contents!UpdateVolume(i, v)
          \/ Contents!Delete(i)
          \/ \E j \in Instances : Contents!Rename(i, j) \/ Contents!CloneInstance(i, j)
    BY <1>1 DEF Contents!InstanceStep, Contents!VolumeStep, Contents!RebuildInstance
  <2>2. Plain!OwnerStep
    BY <2>1, CreateIsPlain, UpdateIsPlain, DeleteIsPlain, RenameIsPlain, CloneIsPlain
       DEF Plain!OwnerStep
  <2>. QED
    BY <2>2 DEF Plain!Next
<1>2. CASE Contents!FileStep
  <2>1. Plain!FileStep
    BY <1>2, PushIsPlain, MakeDirectoryIsPlain, DeleteFileIsPlain, PullIsPlain, StreamIsPlain,
       EndIsPlain DEF Contents!FileStep, Plain!FileStep, Contents!Paths, Plain!Paths
  <2>. QED
    BY <2>1 DEF Plain!Next
<1>3. CASE Contents!SnapshotStep
  <2>1. Plain!SnapshotStep
    BY <1>3, TakeIsPlain, RenameSnapshotIsPlain, DeleteSnapshotIsPlain
       DEF Contents!SnapshotStep, Plain!SnapshotStep
  <2>. QED
    BY <2>1 DEF Plain!Next
<1>4. CASE Contents!BackupStep
  <2>1. Plain!BackupStep
    BY <1>4, BackupIsPlain, DeleteBackupIsPlain, RestoreIsPlain, ImportIsPlain
       DEF Contents!BackupStep, Plain!BackupStep
  <2>. QED
    BY <2>1 DEF Plain!Next
<1>. QED
  BY <1>1, <1>2, <1>3, <1>4 DEF Contents!Next

\* What is seen of the memory stays when the memory does.
LEMMA InsideShown == ContentsInv /\ UNCHANGED inside => UNCHANGED Plain!vars
<1> SUFFICES ASSUME ContentsInv, UNCHANGED inside
             PROVE  UNCHANGED Plain!vars
  OBVIOUS
<1>1. UNCHANGED <<owners, trees, slices, arrays, calls>>
  BY DEF inside
<1>2. Visible' = Visible
  BY <1>1, CallsOthers, VisibleStays
<1>3. UnderWay' = UnderWay
  BY <1>1, UnderWayStays
<1>. QED
  BY <1>2, <1>3 DEF Plain!vars

\* The steps of the other sides are none of theirs.
LEMMA FakeStepsArePlain ==
  ContentsInv /\ ContentsInv' /\ [FakeNext]_<<side, vars, inside, versions>>
    => UNCHANGED inside \/ Plain!Next
<1> SUFFICES ASSUME ContentsInv, ContentsInv', [FakeNext]_<<side, vars, inside, versions>>
             PROVE  UNCHANGED inside \/ Plain!Next
  OBVIOUS
<1>1. CASE Contents!Next
  BY <1>1, StepsArePlain
<1>2. CASE UNCHANGED inside
  BY <1>2
<1>. QED
  BY <1>1, <1>2 DEF FakeNext

\* What the in-memory backend keeps in maps, slices and arrays behaves as values,
\* for any instances, snapshots, uploads and requests in flight: no sequence of
\* pushes, deletions, renamings and clones, of snapshots taken and deleted in the
\* array they share a list with, and of downloads and restorations that go on
\* without the lock can be told from one in which every owner has its own and each
\* download was of what was there when it began (files.go, snapshots.go,
\* storedbackups.go, instances.go).
THEOREM MapsAndSlicesAreValues == FakeSpec => ContentsAreValues /\ Plain!Spec
<1> DEFINE step == [FakeNext]_<<side, vars, inside, versions>>
           plain == UNCHANGED inside \/ Plain!Next
<1>1. FakeInit => ContentsInv /\ Plain!Init
  BY ContentsStart, PlainStart DEF FakeInit, NoContents
<1>2. ContentsInv /\ step => ContentsInv'
  BY ContentsKept
<1>3. ContentsInv /\ ContentsInv' /\ step => [plain]_Plain!vars
  BY FakeStepsArePlain
<1>4. ContentsInv /\ [plain]_Plain!vars => [Plain!Next]_Plain!vars
  BY InsideShown
<1>. QED
  BY <1>1, <1>2, <1>3, <1>4, PTL DEF FakeSpec, ContentsAreValues, Plain!Spec
=============================================================================

--------------------------- MODULE OptimisticEdit ---------------------------
(***************************************************************************)
(* What the edit pages promise, as the comment on backend.Version states   *)
(* it: a page rendered from a Get carries a token, and saving it fails if  *)
(* the resource changed since that Get.  A save is atomic: it replaces the *)
(* fields the page edits and nothing else, however many other tabs,        *)
(* clients and daemons write the same resource.                            *)
(*                                                                         *)
(* Two limits of the promise are part of it.  A token answers for the      *)
(* fields it covers: the version of a volume leaves out its description,   *)
(* and concurrent edits of that are last-write-wins (the caveat on         *)
(* backend.UpdateVolume).  And a token that is a hash of the content, as   *)
(* the daemon's etags are, cannot tell a resource that was changed and     *)
(* changed back from one that was left alone: a save of such a page still  *)
(* finds what the page showed, but is not held to leave the other fields   *)
(* as they are.                                                            *)
(***************************************************************************)
EXTENDS Naturals

CONSTANTS Tabs, Fields, Values

VARIABLES
  covers,   \* the fields a token answers for; it stays
  content,  \* whether a token is a hash of the content; it stays
  doc,      \* the resource: whether it exists, its fields, its revision
  page      \* per browser tab: the page it shows

vars == <<covers, content, doc, page>>

Doc == [exists : BOOLEAN, val : [Fields -> Values], rev : Nat]

NoPage == [open |-> FALSE, writes |-> {}, versioned |-> FALSE,
           shown |-> [val |-> [x \in Fields |-> 0], rev |-> 0]]

Init ==
  /\ covers \in SUBSET Fields
  /\ content \in BOOLEAN
  /\ doc \in Doc
  /\ doc.exists
  /\ doc.rev = 0
  /\ page = [t \in Tabs |-> NoPage]

\* Of the fields the token covers, both hold the same.
SameCovered(u, v) == \A x \in covers : u[x] = v[x]

\* A page is rendered for some of the fields, from the resource as it is now.
Render(t) ==
  /\ doc.exists
  /\ ~page[t].open
  /\ \E w \in SUBSET Fields, v \in BOOLEAN :
       page' = [page EXCEPT ![t] =
                  [open |-> TRUE, writes |-> w, versioned |-> v,
                   shown |-> [val |-> doc.val, rev |-> doc.rev]]]
  /\ UNCHANGED doc

\* A save is refused, or the page is left.
Discard(t) ==
  /\ page' = [page EXCEPT ![t] = NoPage]
  /\ UNCHANGED doc

\* Only a write of uncovered fields alone leaves the resource its revision.
Write ==
  /\ doc' \in Doc
  /\ \/ doc'.rev = doc.rev + 1
     \/ doc'.rev = doc.rev /\ covers # Fields /\ SameCovered(doc'.val, doc.val)

\* A save goes through.
Save(t) ==
  /\ page[t].open
  /\ doc.exists /\ doc'.exists
  /\ page[t].versioned =>
       /\ SameCovered(doc.val, page[t].shown.val)
       /\ ~content => doc.rev = page[t].shown.rev
  /\ (page[t].versioned => doc.rev = page[t].shown.rev)
       => \A x \in Fields \ page[t].writes : doc'.val[x] = doc.val[x]
  /\ Write
  /\ page' = [page EXCEPT ![t] = NoPage]

\* Any other writer of the resource, its deletion and its re-creation included.
Elsewhere ==
  /\ Write
  /\ doc'.rev = doc.rev => doc'.exists = doc.exists
  /\ UNCHANGED page

Next ==
  /\ \/ \E t \in Tabs : Render(t) \/ Discard(t) \/ Save(t)
     \/ Elsewhere
  /\ UNCHANGED <<covers, content>>

Spec == Init /\ [][Next]_vars
=============================================================================
